----------------------------- MODULE Transforms -----------------------------
(***************************************************************************)
(* image/transforms.py: which pixels the derived images are cut from, and  *)
(* where the numbered badges of a marked image go.                         *)
(***************************************************************************)
EXTENDS Geometry, Ordering, SequencesExt, TLC

(***************************************************************************)
(* Crops and tiles.                                                        *)
(***************************************************************************)

\* A mutant: the remainder of the division is left off the last tile.
RemainderLost(length, parts, numerator, of) ==
    LET boundary(i) == i * (length \div parts)
        padding(i) == CeilDiv((boundary(i + 1) - boundary(i)) * numerator, 2 * of)
    IN  [i \in 1..parts |->
            <<Larger(0, boundary(i - 1) - padding(i - 1)),
              Smaller(length, boundary(i) + padding(i - 1))>>]

\* The overlap is a fraction (numerator of "of") of a tile's own length.
AxisRanges(length, parts, numerator, of) ==
    LET boundary(i) == (i * length) \div parts
        padding(i) == CeilDiv((boundary(i + 1) - boundary(i)) * numerator, 2 * of)
    IN  [i \in 1..parts |->
            <<Larger(0, boundary(i - 1) - padding(i - 1)),
              Smaller(length, boundary(i) + padding(i - 1))>>]

TileRefused(width, height, rows, columns) ==
    \/ rows * columns > 16
    \/ rows = 1 /\ columns = 1
    \/ rows > height \/ columns > width

\* The tiles in row-major order.
Tile(width, height, rows, columns, numerator, of) ==
    LET y_ranges == AxisRanges(height, rows, numerator, of)
        x_ranges == AxisRanges(width, columns, numerator, of)
    IN  [n \in 1..(rows * columns) |->
            LET row == ((n - 1) \div columns) + 1
                column == ((n - 1) % columns) + 1
            IN  PixelBox(x_ranges[column][1], y_ranges[row][1],
                         x_ranges[column][2], y_ranges[row][2])]

(***************************************************************************)
(* Numbered marks.  A mark candidate has a region, the observation it came *)
(* from (0 for a box the caller drew), its label and its priority.         *)
(***************************************************************************)

MarkSortKey(c) ==
    <<c.region.y_min, c.region.x_min, c.region.y_max, c.region.x_max, c.observation>>

BoxArea(b) == (b.x_max - b.x_min) * (b.y_max - b.y_min)

\* The overlap of two regions is at least threshold[1] of threshold[2] of their union.
NearDuplicate(a, b, threshold) ==
    LET shared == BoxesIntersection(a, b)
        overlap == IF shared = NoBox THEN 0 ELSE BoxArea(shared)
        union == BoxArea(a) + BoxArea(b) - overlap
    IN  overlap * threshold[2] >= threshold[1] * union

NoThreshold == <<>>

ConflictingMarks(candidates) ==
    \E i, j \in DOMAIN candidates :
        /\ candidates[i].observation # 0
        /\ candidates[i].observation = candidates[j].observation
        /\ candidates[i] # candidates[j]

\* One candidate per observation, in caller order, then the caller's own boxes.
OrderedMarks(candidates) ==
    LET Identified == {i \in DOMAIN candidates :
                          /\ candidates[i].observation # 0
                          /\ \A j \in 1..(i - 1) : candidates[j] # candidates[i]}
        Drawn == {i \in DOMAIN candidates : candidates[i].observation = 0}
        chosen == Ascending(Identified) \o Ascending(Drawn)
    IN  SortedBy([k \in DOMAIN chosen |-> candidates[chosen[k]]], MarkSortKey)

DistinctMarks(ordered, threshold) ==
    FoldLeft(LAMBDA retained, c :
                 IF /\ threshold # NoThreshold
                    /\ \E k \in DOMAIN retained :
                          NearDuplicate(c.region, retained[k].region, threshold)
                 THEN retained
                 ELSE Append(retained, c),
             <<>>, ordered)

\* Inclusive pixel bounds of a region, never empty.
PixelRegion(box, width, height) ==
    LET left == Smaller(width - 1, Larger(0, (box.x_min * width) \div GRID))
        top == Smaller(height - 1, Larger(0, (box.y_min * height) \div GRID))
    IN  <<left, top,
          Smaller(width - 1, Larger(left, CeilDiv(box.x_max * width, GRID) - 1)),
          Smaller(height - 1, Larger(top, CeilDiv(box.y_max * height, GRID) - 1))>>

RoundHalfEven(a, b) ==
    LET low == a \div b
        twice == 2 * (a % b)
    IN  IF twice > b \/ (twice = b /\ low % 2 = 1) THEN low + 1 ELSE low

Digits(index) == IF index < 10 THEN 1 ELSE 2

BadgeWidth(index, unit) == 4 + Digits(index) * 3 * unit + (Digits(index) - 1) * unit

BadgeHeight(unit) == 4 + 5 * unit

\* The largest unit that fits the image, tried from the target downwards.
BadgeSize(index, width, height) ==
    LET target == Smaller(Larger(9, Smaller(32, RoundHalfEven(Smaller(width, height) * 3, 40))),
                          height)
        first == Larger(1, (target - 4) \div 5)
        Fits(unit) == BadgeWidth(index, unit) <= width /\ BadgeHeight(unit) <= height
        unit == CHOOSE u \in 1..first :
                    /\ u = 1 \/ Fits(u)
                    /\ \A v \in (u + 1)..first : ~Fits(v)
    IN  <<Smaller(width, BadgeWidth(index, unit)), Smaller(height, BadgeHeight(unit))>>

Intersects(a, b) ==
    ~(a[3] < b[1] \/ b[3] < a[1] \/ a[4] < b[2] \/ b[4] < a[2])

\* The places tried for a badge, in order: corners inside, outside, the middle.
BadgeCandidates(region, size, width, height) ==
    LET left == region[1]
        top == region[2]
        right == region[3]
        bottom == region[4]
        positions == <<<<left, top>>,
                       <<right - size[1] + 1, top>>,
                       <<left, top - size[2]>>,
                       <<left, bottom + 1>>,
                       <<right - size[1] + 1, top - size[2]>>,
                       <<right - size[1] + 1, bottom + 1>>,
                       <<(left + right - size[1] + 1) \div 2,
                         (top + bottom - size[2] + 1) \div 2>>>>
    IN  [k \in DOMAIN positions |->
            LET x == Smaller(width - size[1], Larger(0, positions[k][1]))
                y == Smaller(height - size[2], Larger(0, positions[k][2]))
            IN  <<x, y, x + size[1] - 1, y + size[2] - 1>>]

\* Higher priority claims badge space first; ties follow the spatial order.
ClaimOrder(marks) ==
    LET ClaimKey(i) == <<-marks[i].priority>> \o MarkSortKey(marks[i])
    IN  SortedPlaces(Len(marks), ClaimKey)

\* Badge of each candidate that found room; "placements" is keyed by candidate.
PlaceBadges(marks, width, height) ==
    FoldLeft(LAMBDA placed, i :
                 LET places == BadgeCandidates(PixelRegion(marks[i].region, width, height),
                                               BadgeSize(i, width, height), width, height)
                     Free(k) == \A badge \in placed.occupied : ~Intersects(places[k], badge)
                     free == {k \in DOMAIN places : Free(k)}
                     badge == places[CHOOSE k \in free : \A j \in free : k <= j]
                 IN  IF free = {}
                     THEN placed
                     ELSE [occupied |-> placed.occupied \cup {badge},
                           placements |-> (marks[i] :> badge) @@ placed.placements],
             [occupied |-> {}, placements |-> <<>>],
             ClaimOrder(marks)).placements

RenderMarks(width, height, candidates, threshold) ==
    IF ConflictingMarks(candidates)
    THEN [refused |-> TRUE]
    ELSE LET marks == DistinctMarks(OrderedMarks(candidates), threshold)
             placements == PlaceBadges(marks, width, height)
             Placed(c) == c \in DOMAIN placements
             retained == SelectSeq(marks, Placed)
         IN  IF retained = <<>>
             THEN [refused |-> TRUE]
             ELSE [refused |-> FALSE,
                   marks |-> retained,
                   badges |-> [k \in DOMAIN retained |-> placements[retained[k]]],
                   duplicates |-> Len(candidates) - Len(marks),
                   crowded |-> Len(marks) - Len(retained)]

=============================================================================
