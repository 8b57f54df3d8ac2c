------------------------ MODULE CalculationsProofs ------------------------
(***************************************************************************)
(* Proofs about Calculations for every grid and every image: crops cover   *)
(* what was asked for, and tiles make up the image, wherever the floats    *)
(* drift.  All of it is arithmetic of rounded divisions: DivFacts and      *)
(* CeilFacts say how they round, Factors compares multiples.               *)
(***************************************************************************)
EXTENDS Calculations, FiniteSetTheorems, TLAPS

\* Arithmetic.

\* Division rounds down.
LEMMA DivFacts ==
  ASSUME NEW a \in Int, NEW g \in Nat \ {0}
  PROVE  /\ a \div g \in Int /\ a % g \in 0..(g - 1)
         /\ (a \div g) * g <= a /\ a < (a \div g) * g + g
         /\ a % g = 0 => (a \div g) * g = a
OBVIOUS

\* A product that is smaller has the smaller factor.
LEMMA Factors ==
  ASSUME NEW a \in Int, NEW b \in Int, NEW g \in Nat \ {0}
  PROVE  /\ a * g \in Int /\ b * g \in Int
         /\ a <= b => a * g <= b * g
         /\ a * g < b * g => a < b
         /\ a * g < b * g + g => a <= b
OBVIOUS

\* Ceiling division rounds up.
LEMMA CeilFacts ==
  ASSUME NEW a \in Int, NEW g \in Nat \ {0}
  PROVE  /\ CeilDiv(a, g) \in Int
         /\ CeilDiv(a, g) * g >= a /\ CeilDiv(a, g) * g < a + g
         /\ a % g = 0 => CeilDiv(a, g) * g = a
<1>1. PICK b, q : b = -a /\ q = b \div g
  OBVIOUS
<1>2. b \in Int /\ q \in Int /\ q * g <= b /\ b < q * g + g
  BY <1>1, DivFacts
<1>3. CeilDiv(a, g) = -q
  BY <1>1 DEF CeilDiv
<1>4. (-q) * g = -(q * g) /\ q * g \in Int
  BY <1>2
<1>5. ASSUME a % g = 0 PROVE (-q) * g = a
  <2>1. PICK p : p = a \div g /\ p \in Int /\ p * g = a
    BY <1>5, DivFacts
  <2>2. (-p) * g = b
    BY <1>1, <2>1
  <2>3. q <= -p /\ -p <= q
    <3>1. q * g < (-p) * g + g /\ (-p) * g < q * g + g
      BY <1>2, <2>2
    <3>2. QED
      BY <1>2, <2>1, <3>1, Factors
  <2>4. q = -p
    BY <1>2, <2>1, <2>3
  <2>5. QED
    BY <1>1, <1>4, <2>1, <2>4
<1>6. QED
  BY <1>1, <1>2, <1>3, <1>4, <1>5

-------------------------------------------------------------------------------
\* Crops.

\* The pixel at or below a coordinate is in the image, and at most one pixel away.
LEMMA FloorFacts ==
  ASSUME NEW c \in 0..GRID, NEW side \in Nat \ {0}, NEW drift \in 0..1
  PROVE  LET p == Within(0, FloorPixel(c, side, drift), side)
         IN  /\ p \in 0..side /\ p * GRID <= c * side /\ c * side - p * GRID <= GRID
<1>1. GRID \in Nat \ {0} /\ c * side \in Int
  BY GeometryAssumption
<1>2. PICK a, q : a = c * side /\ q = a \div GRID
  OBVIOUS
<1>3. /\ a \in Int /\ q \in Int /\ q * GRID <= a /\ a < q * GRID + GRID
      /\ a % GRID = 0 => q * GRID = a
  BY <1>1, <1>2, DivFacts
<1>4. PICK d : d = (IF a % GRID = 0 THEN drift ELSE 0)
  OBVIOUS
<1>5. PICK f : f = q - d
  OBVIOUS
<1>6. FloorPixel(c, side, drift) = f /\ d \in 0..1 /\ f \in Int
  BY <1>2, <1>3, <1>4, <1>5 DEF FloorPixel
<1>7. f * GRID = q * GRID - d * GRID /\ (d = 0 => d * GRID = 0) /\ (d = 1 => d * GRID = GRID)
  BY <1>1, <1>3, <1>5, <1>6
<1>8. f * GRID <= a /\ a - f * GRID <= GRID
  BY <1>1, <1>3, <1>4, <1>6, <1>7
<1>9. 0 <= a /\ a <= side * GRID /\ side * GRID \in Int /\ f * GRID \in Int
  BY <1>1, <1>2, <1>6
<1>10. f <= side
  <2>1. f * GRID < side * GRID + GRID
    BY <1>1, <1>3, <1>8, <1>9
  <2>2. QED
    BY <1>1, <1>6, <2>1, Factors
<1>11. PICK p : p = Within(0, f, side)
  OBVIOUS
<1>12. p = IF f < 0 THEN 0 ELSE f
  BY <1>6, <1>10, <1>11 DEF Within, Smaller, Larger
<1>13. /\ p \in 0..side /\ p * GRID <= a /\ a - p * GRID <= GRID
  <2>1. CASE f < 0
    <3>1. f * GRID < 0
      BY <1>1, <1>6, <2>1
    <3>2. a <= GRID
      BY <1>1, <1>2, <1>6, <1>8, <3>1
    <3>3. p = 0 /\ 0 * GRID = 0
      BY <1>1, <1>12, <2>1
    <3>4. QED
      BY <1>3, <1>9, <3>2, <3>3
  <2>2. CASE ~(f < 0)
    BY <1>6, <1>8, <1>10, <1>12, <2>2
  <2>3. QED
    BY <2>1, <2>2
<1>14. QED
  BY <1>2, <1>6, <1>11, <1>13

\* So is the one at or above it.
LEMMA CeilPixelFacts ==
  ASSUME NEW c \in 0..GRID, NEW side \in Nat \ {0}, NEW drift \in 0..1
  PROVE  LET p == Within(0, CeilPixel(c, side, drift), side)
         IN  /\ p \in 0..side /\ p * GRID >= c * side /\ p * GRID - c * side <= GRID
<1>1. GRID \in Nat \ {0} /\ c * side \in Int
  BY GeometryAssumption
<1>2. PICK a, q : a = c * side /\ q = CeilDiv(a, GRID)
  OBVIOUS
<1>3. /\ a \in Int /\ q \in Int /\ q * GRID >= a /\ q * GRID < a + GRID
      /\ a % GRID = 0 => q * GRID = a
  BY <1>1, <1>2, CeilFacts
<1>4. PICK d : d = (IF a % GRID = 0 THEN drift ELSE 0)
  OBVIOUS
<1>5. PICK f : f = q + d
  OBVIOUS
<1>6. CeilPixel(c, side, drift) = f /\ d \in 0..1 /\ f \in Int
  BY <1>2, <1>3, <1>4, <1>5 DEF CeilPixel
<1>7. f * GRID = q * GRID + d * GRID /\ (d = 0 => d * GRID = 0) /\ (d = 1 => d * GRID = GRID)
  BY <1>1, <1>3, <1>5, <1>6
<1>8. f * GRID >= a /\ f * GRID - a <= GRID
  BY <1>1, <1>3, <1>4, <1>6, <1>7
<1>9. 0 <= a /\ a <= side * GRID /\ side * GRID \in Int
  BY <1>1, <1>2
<1>10. f >= 0
  <2>1. 0 * GRID < f * GRID + GRID
    BY <1>1, <1>3, <1>6, <1>8, <1>9
  <2>2. QED
    BY <1>1, <1>6, <2>1, Factors
<1>11. PICK p : p = Within(0, f, side)
  OBVIOUS
<1>12. p = IF f > side THEN side ELSE f
  BY <1>6, <1>10, <1>11 DEF Within, Smaller, Larger
<1>13. /\ p \in 0..side /\ p * GRID >= a /\ p * GRID - a <= GRID
  <2>1. CASE f > side
    <3>1. side * GRID <= f * GRID
      BY <1>1, <1>6, <2>1, Factors
    <3>2. QED
      BY <1>1, <1>3, <1>6, <1>7, <1>8, <1>9, <1>12, <2>1, <3>1
  <2>2. CASE ~(f > side)
    BY <1>6, <1>8, <1>10, <1>12, <2>2
  <2>3. QED
    BY <2>1, <2>2
<1>14. QED
  BY <1>2, <1>6, <1>11, <1>13

\* A padded box is a box around the box.
LEMMA ExpandFacts ==
  ASSUME NEW box \in [x_min : Nat, y_min : Nat, x_max : Nat, y_max : Nat], IsBox(box),
         NEW padding \in Nat
  PROVE  LET e == expand_box(box, padding, OneWhole)
         IN  /\ e.x_min \in 0..GRID /\ e.y_min \in 0..GRID
             /\ e.x_max \in 0..GRID /\ e.y_max \in 0..GRID
             /\ e.x_min < e.x_max /\ e.y_min < e.y_max
             /\ e.x_min <= box.x_min /\ e.y_min <= box.y_min
             /\ e.x_max >= box.x_max /\ e.y_max >= box.y_max
<1>1. GRID \in Nat
  BY GeometryAssumption
<1>2. PICK x0, y0, x1, y1 : x0 = box.x_min /\ y0 = box.y_min /\ x1 = box.x_max /\ y1 = box.y_max
  OBVIOUS
<1>3. /\ x0 \in Nat /\ y0 \in Nat /\ x1 \in Nat /\ y1 \in Nat
      /\ x0 < x1 /\ y0 < y1 /\ x1 <= GRID /\ y1 <= GRID
  BY <1>2 DEF IsBox
<1>4. PICK h, v : h = ((x1 - x0) * padding) \div OneWhole /\ v = ((y1 - y0) * padding) \div OneWhole
  OBVIOUS
<1>5. h \in Nat /\ v \in Nat
  <2>1. (x1 - x0) * padding \in Nat /\ (y1 - y0) * padding \in Nat
    BY <1>3
  <2>2. \A n \in Nat : n \div OneWhole \in Nat
    BY CallAssumption
  <2>3. QED
    BY <1>4, <2>1, <2>2
<1>6. expand_box(box, padding, OneWhole)
        = Box(Larger(0, x0 - h), Larger(0, y0 - v), Smaller(GRID, x1 + h), Smaller(GRID, y1 + v))
  BY <1>2, <1>4 DEF expand_box
<1>7. PICK e : e = expand_box(box, padding, OneWhole)
  OBVIOUS
<1>8. /\ e.x_min = Larger(0, x0 - h) /\ e.y_min = Larger(0, y0 - v)
      /\ e.x_max = Smaller(GRID, x1 + h) /\ e.y_max = Smaller(GRID, y1 + v)
  BY <1>6, <1>7 DEF Box
<1>9. /\ e.x_min \in 0..GRID /\ e.x_max \in 0..GRID /\ e.x_min < e.x_max
      /\ e.x_min <= x0 /\ e.x_max >= x1
  BY <1>1, <1>3, <1>5, <1>8 DEF Larger, Smaller
<1>10. /\ e.y_min \in 0..GRID /\ e.y_max \in 0..GRID /\ e.y_min < e.y_max
       /\ e.y_min <= y0 /\ e.y_max >= y1
  BY <1>1, <1>3, <1>5, <1>8 DEF Larger, Smaller
<1>11. QED
  BY <1>2, <1>7, <1>9, <1>10

\* The pixels between two coordinates of one axis.
LEMMA SpanFacts ==
  ASSUME NEW lo \in 0..GRID, NEW hi \in 0..GRID, lo < hi, NEW side \in Nat \ {0}, NEW drift \in 0..1
  PROVE  LET p == Within(0, FloorPixel(lo, side, drift), side)
             q == Within(0, CeilPixel(hi, side, drift), side)
         IN  /\ p \in Nat /\ q \in Nat /\ p < q /\ q <= side
             /\ p * GRID <= lo * side /\ lo * side - p * GRID <= GRID
             /\ q * GRID >= hi * side /\ q * GRID - hi * side <= GRID
<1>1. PICK p, q : /\ p = Within(0, FloorPixel(lo, side, drift), side)
                  /\ q = Within(0, CeilPixel(hi, side, drift), side)
  OBVIOUS
<1>2. /\ p \in 0..side /\ p * GRID <= lo * side /\ lo * side - p * GRID <= GRID
      /\ q \in 0..side /\ q * GRID >= hi * side /\ q * GRID - hi * side <= GRID
  BY <1>1, FloorFacts, CeilPixelFacts
<1>3. GRID \in Nat \ {0}
  BY GeometryAssumption
<1>4. lo * side < hi * side /\ lo * side \in Int /\ hi * side \in Int
  BY <1>3
<1>5. p * GRID \in Int /\ q * GRID \in Int
  BY <1>2, <1>3
<1>6. p * GRID < q * GRID
  BY <1>2, <1>4, <1>5
<1>7. p < q
  BY <1>2, <1>3, <1>6, Factors
<1>8. QED
  BY <1>1, <1>2, <1>7

\* What CropCoversRequest says of a crop.
CoversRequest(t, crop) ==
  LET p == crop.pixels
      w == t.size[1]
      h == t.size[2]
  IN  /\ IsPixelBox(p) /\ p.right <= w /\ p.bottom <= h
      /\ PixelsCover(p, crop.expanded, w, h)
      /\ PixelsCover(p, crop.requested, w, h)
      /\ crop.expanded.x_min * w - p.left * GRID <= GRID
      /\ crop.expanded.y_min * h - p.top * GRID <= GRID
      /\ p.right * GRID - crop.expanded.x_max * w <= GRID
      /\ p.bottom * GRID - crop.expanded.y_max * h <= GRID

LEMMA CropsCover ==
  ASSUME NEW t \in Crops
  PROVE  CoversRequest(t, build_crop_geometry(t.box, t.size[1], t.size[2], t.padding, OneWhole, t.drift))
<1>1. PICK box, w, h, padding, drift :
        /\ box = t.box /\ w = t.size[1] /\ h = t.size[2] /\ padding = t.padding /\ drift = t.drift
  OBVIOUS
<1>2. /\ box \in [x_min : Nat, y_min : Nat, x_max : Nat, y_max : Nat] /\ IsBox(box)
      /\ w \in Nat \ {0} /\ h \in Nat \ {0} /\ padding \in Nat /\ drift \in 0..1
  BY <1>1, CallAssumption DEF Sizes
<1>3. PICK e : e = expand_box(box, padding, OneWhole)
  OBVIOUS
<1>4. PICK x0, y0, x1, y1 : x0 = e.x_min /\ y0 = e.y_min /\ x1 = e.x_max /\ y1 = e.y_max
  OBVIOUS
<1>5. PICK a, b, c, d : a = box.x_min /\ b = box.y_min /\ c = box.x_max /\ d = box.y_max
  OBVIOUS
<1>6. /\ x0 \in 0..GRID /\ y0 \in 0..GRID /\ x1 \in 0..GRID /\ y1 \in 0..GRID
      /\ x0 < x1 /\ y0 < y1 /\ x0 <= a /\ y0 <= b /\ x1 >= c /\ y1 >= d
  BY <1>2, <1>3, <1>4, <1>5, ExpandFacts
<1>7. PICK left, top, right, bottom :
        /\ left = Within(0, FloorPixel(x0, w, drift), w) /\ top = Within(0, FloorPixel(y0, h, drift), h)
        /\ right = Within(0, CeilPixel(x1, w, drift), w) /\ bottom = Within(0, CeilPixel(y1, h, drift), h)
  OBVIOUS
<1>8. /\ left \in Nat /\ right \in Nat /\ left < right /\ right <= w
      /\ left * GRID <= x0 * w /\ x0 * w - left * GRID <= GRID
      /\ right * GRID >= x1 * w /\ right * GRID - x1 * w <= GRID
  BY <1>2, <1>6, <1>7, SpanFacts
<1>9. /\ top \in Nat /\ bottom \in Nat /\ top < bottom /\ bottom <= h
      /\ top * GRID <= y0 * h /\ y0 * h - top * GRID <= GRID
      /\ bottom * GRID >= y1 * h /\ bottom * GRID - y1 * h <= GRID
  BY <1>2, <1>6, <1>7, SpanFacts
<1>10. a \in Nat /\ b \in Nat /\ c \in Nat /\ d \in Nat
  BY <1>2, <1>5
<1>11. x0 * w <= a * w /\ y0 * h <= b * h /\ x1 * w >= c * w /\ y1 * h >= d * h
  <2>1. x0 \in Int /\ y0 \in Int /\ x1 \in Int /\ y1 \in Int
    BY <1>6
  <2>2. QED
    BY <1>2, <1>6, <1>10, <2>1, Factors
<1>12. GRID \in Nat \ {0}
  BY GeometryAssumption
<1>13. /\ left * GRID \in Int /\ right * GRID \in Int /\ top * GRID \in Int /\ bottom * GRID \in Int
       /\ x0 * w \in Int /\ x1 * w \in Int /\ y0 * h \in Int /\ y1 * h \in Int
       /\ a * w \in Int /\ b * h \in Int /\ c * w \in Int /\ d * h \in Int
  BY <1>2, <1>6, <1>8, <1>9, <1>10, <1>12
<1>14. /\ left * GRID <= a * w /\ top * GRID <= b * h
       /\ right * GRID >= c * w /\ bottom * GRID >= d * h
  BY <1>8, <1>9, <1>11, <1>13
<1>15. PICK p : p = PixelBox(left, top, right, bottom)
  OBVIOUS
<1>16. p.left = left /\ p.top = top /\ p.right = right /\ p.bottom = bottom
  BY <1>15 DEF PixelBox
<1>17. box_to_pixels(e, w, h, drift) = p
  BY <1>4, <1>7, <1>15 DEF box_to_pixels
<1>18. PICK crop : crop = build_crop_geometry(box, w, h, padding, OneWhole, drift)
  OBVIOUS
<1>19. crop.requested = box /\ crop.expanded = e /\ crop.pixels = p
  BY <1>3, <1>17, <1>18 DEF build_crop_geometry
<1>20. IsPixelBox(p) /\ PixelsCover(p, e, w, h) /\ PixelsCover(p, box, w, h)
  BY <1>4, <1>5, <1>8, <1>9, <1>14, <1>16 DEF IsPixelBox, PixelsCover
<1>21. CoversRequest(t, crop)
  BY <1>1, <1>4, <1>8, <1>9, <1>16, <1>19, <1>20 DEF CoversRequest
<1>22. QED
  BY <1>1, <1>18, <1>21

-------------------------------------------------------------------------------
\* Tiles.

\* Where the i-th part of a side ends.
Edge(length, parts, i) == (i * length) \div parts

\* The parts of a side are not empty, follow each other and make up the side.
LEMMA EdgeFacts ==
  ASSUME NEW length \in Nat \ {0}, NEW parts \in Nat \ {0}, parts <= length
  PROVE  /\ Edge(length, parts, 0) = 0 /\ Edge(length, parts, parts) = length
         /\ \A i \in 0..parts : Edge(length, parts, i) \in 0..length
         /\ \A i, j \in 0..parts : i < j => Edge(length, parts, i) < Edge(length, parts, j)
<1>1. ASSUME NEW i \in 0..parts
      PROVE  LET e == Edge(length, parts, i)
             IN  e \in Int /\ e * parts <= i * length /\ i * length < e * parts + parts
  <2>1. i * length \in Int
    OBVIOUS
  <2>2. QED
    BY <2>1, DivFacts DEF Edge
<1>2. ASSUME NEW i \in 0..parts, NEW j \in 0..parts, i < j
      PROVE  Edge(length, parts, i) < Edge(length, parts, j)
  <2>1. PICK d, e : d = Edge(length, parts, i) /\ e = Edge(length, parts, j)
    OBVIOUS
  <2>2. /\ d \in Int /\ d * parts <= i * length
        /\ e \in Int /\ j * length < e * parts + parts
    BY <1>1, <2>1
  <2>3. i * length + length <= j * length /\ i * length \in Int /\ j * length \in Int
    <3>1. (i + 1) * length <= j * length /\ (i + 1) * length = i * length + length
      BY <1>2, Factors
    <3>2. QED
      BY <3>1
  <2>4. d * parts < e * parts
    BY <2>2, <2>3
  <2>5. QED
    BY <2>1, <2>2, <2>4, Factors
<1>3. Edge(length, parts, 0) = 0
  <2>1. PICK e : e = Edge(length, parts, 0)
    OBVIOUS
  <2>2. e \in Int /\ e * parts <= 0 /\ 0 < e * parts + parts
    <3>1. 0 \in 0..parts /\ 0 * length = 0
      OBVIOUS
    <3>2. QED
      BY <1>1, <2>1, <3>1
  <2>3. e * parts < 0 * parts + parts /\ 0 * parts < e * parts + parts
    BY <2>2
  <2>4. e <= 0 /\ 0 <= e
    BY <2>2, <2>3, Factors
  <2>5. QED
    BY <2>1, <2>2, <2>4
<1>4. Edge(length, parts, parts) = length
  <2>1. PICK e : e = Edge(length, parts, parts)
    OBVIOUS
  <2>2. e \in Int /\ e * parts <= length * parts /\ length * parts < e * parts + parts
    <3>1. parts \in 0..parts /\ parts * length = length * parts
      OBVIOUS
    <3>2. QED
      BY <1>1, <2>1, <3>1
  <2>3. e * parts < length * parts + parts
    BY <2>2
  <2>4. e <= length /\ length <= e
    BY <2>2, <2>3, Factors
  <2>5. QED
    BY <2>1, <2>2, <2>4
<1>5. ASSUME NEW i \in 0..parts PROVE Edge(length, parts, i) \in 0..length
  <2>1. Edge(length, parts, i) \in Int
    BY <1>1
  <2>2. i = 0 \/ Edge(length, parts, 0) < Edge(length, parts, i)
    BY <1>2
  <2>3. i = parts \/ Edge(length, parts, i) < Edge(length, parts, parts)
    BY <1>2
  <2>4. QED
    BY <1>3, <1>4, <2>1, <2>2, <2>3
<1>6. QED
  BY <1>2, <1>3, <1>4, <1>5

\* What AxisRanges promises of the ranges of one side.
Partition(length, parts, overlap, ranges) ==
  /\ \A i \in 1..parts :
       /\ ranges[i][1] \in Nat /\ ranges[i][2] \in Nat
       /\ ranges[i][1] < ranges[i][2] /\ ranges[i][2] <= length
  /\ \A x \in 0..(length - 1) : \E i \in 1..parts : ranges[i][1] <= x /\ x < ranges[i][2]
  /\ overlap = 0 => \A i, j \in 1..parts : i < j => ranges[i][2] <= ranges[j][1]

LEMMA AxisIsPartitioned ==
  ASSUME NEW length \in Nat \ {0}, NEW parts \in Nat \ {0}, parts <= length, NEW overlap \in Nat
  PROVE  Partition(length, parts, overlap, AxisRanges(length, parts, overlap, OneWhole))
<1>1. PICK ranges : ranges = AxisRanges(length, parts, overlap, OneWhole)
  OBVIOUS
<1> DEFINE edge(i) == Edge(length, parts, i)
           padding(i) == CeilDiv((edge(i + 1) - edge(i)) * overlap, 2 * OneWhole)
<1>2. \A i \in 1..parts :
        /\ ranges[i][1] = Larger(0, edge(i - 1) - padding(i - 1))
        /\ ranges[i][2] = Smaller(length, edge(i) + padding(i - 1))
  BY <1>1 DEF AxisRanges, Edge
<1>3. /\ edge(0) = 0 /\ edge(parts) = length
      /\ \A i \in 0..parts : edge(i) \in 0..length
      /\ \A i, j \in 0..parts : i < j => edge(i) < edge(j)
  BY EdgeFacts
<1>4. ASSUME NEW i \in 1..parts
      PROVE  padding(i - 1) \in Nat /\ (overlap = 0 => padding(i - 1) = 0)
  <2>1. PICK n : n = (edge((i - 1) + 1) - edge(i - 1)) * overlap
    OBVIOUS
  <2>2. i - 1 \in 0..parts /\ (i - 1) + 1 = i /\ i \in 0..parts /\ i - 1 < i
    OBVIOUS
  <2>3. edge(i - 1) < edge(i) /\ edge(i - 1) \in Int /\ edge(i) \in Int
    BY <1>3, <2>2
  <2>4. n \in Nat /\ (overlap = 0 => n = 0)
    <3>1. PICK m : m = edge((i - 1) + 1) - edge(i - 1)
      OBVIOUS
    <3>2. m \in Nat
      BY <2>2, <2>3, <3>1
    <3>3. n = m * overlap
      BY <2>1, <3>1
    <3>4. QED
      BY <3>2, <3>3
  <2>5. PICK g, c : g = 2 * OneWhole /\ c = CeilDiv(n, g)
    OBVIOUS
  <2>6. g \in Nat \ {0} /\ n \in Int
    BY <2>4, <2>5, CallAssumption
  <2>7. /\ CeilDiv(n, g) \in Int /\ CeilDiv(n, g) * g >= n /\ CeilDiv(n, g) * g < n + g
    BY <2>6, CeilFacts
  <2>8. c \in Int /\ c * g >= n /\ c * g < n + g
    BY <2>5, <2>7
  <2>9. n >= 0 /\ (n = 0 => c * g < 0 * g + g) /\ 0 * g < c * g + g
    BY <2>4, <2>6, <2>8
  <2>10. c \in Nat /\ (n = 0 => c = 0)
    BY <2>6, <2>8, <2>9, Factors
  <2>11. padding(i - 1) = c
    BY <2>1, <2>5
  <2>12. QED
    BY <2>4, <2>10, <2>11
<1>5. ASSUME NEW i \in 1..parts
      PROVE  /\ ranges[i][1] \in Nat /\ ranges[i][2] \in Nat
             /\ ranges[i][1] <= edge(i - 1) /\ edge(i) <= ranges[i][2] /\ ranges[i][2] <= length
             /\ edge(i - 1) \in Nat /\ edge(i) \in Nat /\ edge(i - 1) < edge(i)
             /\ overlap = 0 => ranges[i][1] = edge(i - 1) /\ ranges[i][2] = edge(i)
  <2>1. PICK a, b, c : a = edge(i - 1) /\ b = edge(i) /\ c = padding(i - 1)
    OBVIOUS
  <2>2. i - 1 \in 0..parts /\ i \in 0..parts /\ i - 1 < i
    OBVIOUS
  <2>3. a \in 0..length /\ b \in 0..length /\ a < b
    BY <1>3, <2>1, <2>2
  <2>4. c \in Nat /\ (overlap = 0 => c = 0)
    BY <1>4, <2>1
  <2>5. ranges[i][1] = Larger(0, a - c) /\ ranges[i][2] = Smaller(length, b + c)
    BY <1>2, <2>1
  <2>6. /\ Larger(0, a - c) \in Nat /\ Larger(0, a - c) <= a /\ (c = 0 => Larger(0, a - c) = a)
        /\ Smaller(length, b + c) \in Nat /\ b <= Smaller(length, b + c)
        /\ Smaller(length, b + c) <= length /\ (c = 0 => Smaller(length, b + c) = b)
    BY <2>3, <2>4 DEF Larger, Smaller
  <2>7. a \in Nat /\ b \in Nat
    BY <2>3
  <2> HIDE DEF edge, padding
  <2>8. QED
    BY <2>1, <2>3, <2>4, <2>5, <2>6, <2>7
\* The part that holds x is the first that ends behind it.
<1>6. ASSUME NEW x \in 0..(length - 1)
      PROVE  \E i \in 1..parts : edge(i - 1) <= x /\ x < edge(i)
  <2>1. PICK n, i : n = (x + 1) * parts /\ i = CeilDiv(n, length)
    OBVIOUS
  <2>2. n \in Int /\ i \in Int /\ i * length >= n /\ i * length < n + length
    BY <2>1, CeilFacts
  <2>3. 0 < n /\ n <= parts * length
    BY <2>1
  <2>4. i \in 1..parts
    <3>1. 0 * length < i * length
      BY <2>2, <2>3
    <3>2. i * length < parts * length + length
      BY <2>2, <2>3
    <3>3. 0 < i /\ i <= parts
      BY <2>2, <3>1, <3>2, Factors
    <3>4. QED
      BY <2>2, <3>3
  <2>5. x < edge(i)
    <3>1. PICK e : e = edge(i)
      OBVIOUS
    <3>2. e \in Int /\ i * length < e * parts + parts
      BY <2>2, <2>4, <3>1, DivFacts DEF Edge
    <3>3. (x + 1) * parts < e * parts + parts
      BY <2>1, <2>2, <3>2
    <3>4. x + 1 <= e
      BY <3>2, <3>3, Factors
    <3>5. QED
      BY <3>1, <3>2, <3>4
  <2>6. edge(i - 1) <= x
    <3>1. PICK e : e = edge(i - 1)
      OBVIOUS
    <3>2. (i - 1) * length = i * length - length /\ (i - 1) * length \in Int
      BY <2>2
    <3>3. e \in Int /\ e * parts <= (i - 1) * length
      BY <3>1, <3>2, DivFacts DEF Edge
    <3>4. e * parts < (x + 1) * parts
      BY <2>1, <2>2, <3>2, <3>3
    <3>5. e < x + 1
      BY <3>3, <3>4, Factors
    <3>6. QED
      BY <3>1, <3>3, <3>5
  <2>7. QED
    BY <2>4, <2>5, <2>6
<1>7. ASSUME NEW x \in 0..(length - 1)
      PROVE  \E i \in 1..parts : ranges[i][1] <= x /\ x < ranges[i][2]
  <2>1. PICK i \in 1..parts : edge(i - 1) <= x /\ x < edge(i)
    BY <1>6
  <2>2. PICK a, b : a = edge(i - 1) /\ b = edge(i)
    OBVIOUS
  <2>3. /\ ranges[i][1] \in Nat /\ ranges[i][2] \in Nat /\ a \in Nat /\ b \in Nat
        /\ ranges[i][1] <= a /\ b <= ranges[i][2] /\ a <= x /\ x < b
    BY <1>5, <2>1, <2>2
  <2>4. QED
    BY <2>3
<1>8. ASSUME overlap = 0, NEW i \in 1..parts, NEW j \in 1..parts, i < j
      PROVE  ranges[i][2] <= ranges[j][1]
  <2>1. ranges[i][2] = edge(i) /\ ranges[j][1] = edge(j - 1)
    BY <1>5, <1>8
  <2>2. i = j - 1 \/ i < j - 1
    BY <1>8
  <2>3. i \in 0..parts /\ j - 1 \in 0..parts
    OBVIOUS
  <2>4. edge(i) \in Int /\ edge(j - 1) \in Int /\ (i < j - 1 => edge(i) < edge(j - 1))
    BY <1>3, <2>3
  <2> HIDE DEF edge
  <2>5. QED
    BY <2>1, <2>2, <2>4
<1>9. ASSUME NEW i \in 1..parts
      PROVE  /\ ranges[i][1] \in Nat /\ ranges[i][2] \in Nat
             /\ ranges[i][1] < ranges[i][2] /\ ranges[i][2] <= length
  <2>1. PICK a, b : a = edge(i - 1) /\ b = edge(i)
    OBVIOUS
  <2>2. /\ ranges[i][1] \in Nat /\ ranges[i][2] \in Nat /\ a \in Nat /\ b \in Nat
        /\ ranges[i][1] <= a /\ a < b /\ b <= ranges[i][2] /\ ranges[i][2] <= length
    BY <1>5, <2>1
  <2>3. QED
    BY <2>2
<1>10. QED
  BY <1>1, <1>7, <1>8, <1>9 DEF Partition

RowOf(n, columns) == ((n - 1) \div columns) + 1
ColumnOf(n, columns) == ((n - 1) % columns) + 1

\* Tiles are numbered row by row.
LEMMA RowsAndColumns ==
  ASSUME NEW rows \in Nat \ {0}, NEW columns \in Nat \ {0}, NEW n \in 1..(rows * columns)
  PROVE  /\ RowOf(n, columns) \in 1..rows /\ ColumnOf(n, columns) \in 1..columns
         /\ n = (RowOf(n, columns) - 1) * columns + ColumnOf(n, columns)
<1>0. rows * columns \in Nat
  OBVIOUS
<1>1. PICK m, q, r : m = n - 1 /\ q = m \div columns /\ r = m % columns
  OBVIOUS
<1>2. m \in Nat /\ n \in Int /\ m < rows * columns
  BY <1>0, <1>1
<1>3. q \in Int /\ r \in 0..(columns - 1) /\ q * columns <= m /\ m < q * columns + columns
  <2>1. m \in Int
    BY <1>2
  <2>2. /\ m \div columns \in Int /\ m % columns \in 0..(columns - 1)
        /\ (m \div columns) * columns <= m /\ m < (m \div columns) * columns + columns
    BY <2>1, DivFacts
  <2>3. QED
    BY <1>1, <2>2
<1>4. m = columns * q + r
  BY <1>1, <1>2
<1>5. columns * q = q * columns /\ q * columns \in Int
  BY <1>3
<1>6. q * columns < rows * columns
  BY <1>0, <1>2, <1>3, <1>5
<1>7. 0 * columns < q * columns + columns
  BY <1>2, <1>3, <1>5
<1>8. q < rows /\ 0 <= q
  BY <1>3, <1>6, <1>7, Factors
<1>9. PICK i, j : i = RowOf(n, columns) /\ j = ColumnOf(n, columns)
  OBVIOUS
<1>10. i = q + 1 /\ j = r + 1
  BY <1>1, <1>9 DEF RowOf, ColumnOf
<1>11. i \in 1..rows /\ j \in 1..columns /\ (i - 1) = q
  BY <1>3, <1>8, <1>10
<1>12. n = q * columns + j
  BY <1>1, <1>2, <1>3, <1>4, <1>5, <1>10
<1>13. QED
  BY <1>9, <1>11, <1>12

\* Every row and column has its tile.
LEMMA TileAt ==
  ASSUME NEW rows \in Nat \ {0}, NEW columns \in Nat \ {0}, NEW i \in 1..rows, NEW j \in 1..columns
  PROVE  \A n : n = (i - 1) * columns + j =>
            n \in 1..(rows * columns) /\ RowOf(n, columns) = i /\ ColumnOf(n, columns) = j
<1>1. PICK p, n : p = (i - 1) * columns /\ n = p + j
  OBVIOUS
<1>2. PICK k : k = i - 1
  OBVIOUS
<1>3. k \in Nat /\ k <= rows - 1 /\ k + 1 <= rows
  BY <1>2
<1>4. p = k * columns /\ p \in Nat /\ rows * columns \in Nat
  BY <1>1, <1>2, <1>3
<1>5. p + columns <= rows * columns
  <2>1. (k + 1) * columns <= rows * columns /\ (k + 1) * columns = k * columns + columns
    BY <1>3, Factors
  <2>2. QED
    BY <1>4, <2>1
<1>6. n \in 1..(rows * columns)
  BY <1>1, <1>4, <1>5
<1>7. PICK a, b : a = RowOf(n, columns) /\ b = ColumnOf(n, columns)
  OBVIOUS
<1>8. a \in 1..rows /\ b \in 1..columns /\ n = (a - 1) * columns + b
  BY <1>6, <1>7, RowsAndColumns
<1>9. PICK l : l = a - 1
  OBVIOUS
<1>10. l \in Nat /\ n = l * columns + b /\ l * columns \in Int
  BY <1>8, <1>9
<1>11. l * columns < k * columns + columns /\ k * columns < l * columns + columns
  BY <1>1, <1>4, <1>8, <1>10
<1>12. l <= k /\ k <= l
  BY <1>3, <1>10, <1>11, Factors
<1>13. a = i
  BY <1>2, <1>3, <1>8, <1>9, <1>10, <1>12
<1>14. b = j
  BY <1>1, <1>2, <1>4, <1>8, <1>9, <1>10, <1>13
<1>15. QED
  BY <1>1, <1>6, <1>7, <1>13, <1>14

\* Whether a tile holds a pixel, and which tiles do.
HeldBy(p, x, y) == p.left <= x /\ x < p.right /\ p.top <= y /\ y < p.bottom
HoldersOf(tiles, x, y) == {n \in DOMAIN tiles : HeldBy(tiles[n], x, y)}

\* What TilesCoverImage says of tiles.
CoverImage(t, tiles) ==
  tiles # <<>> =>
     /\ \A n \in DOMAIN tiles :
           /\ IsPixelBox(tiles[n])
           /\ tiles[n].right <= t.size[1] /\ tiles[n].bottom <= t.size[2]
     /\ \A x \in 0..(t.size[1] - 1), y \in 0..(t.size[2] - 1) :
           /\ HoldersOf(tiles, x, y) # {}
           /\ t.overlap = 0 => Cardinality(HoldersOf(tiles, x, y)) = 1
     /\ \A n \in 2..Len(tiles) :
           \/ t.overlap # 0
           \/ tiles[n].right > tiles[n - 1].right
           \/ tiles[n].bottom > tiles[n - 1].bottom

\* A part that ends later ends at a later place.
LEMMA PartsAdvance ==
  ASSUME NEW length \in Nat, NEW parts \in Nat \ {0}, NEW ranges,
         Partition(length, parts, 0, ranges),
         NEW i \in 1..parts, NEW j \in 1..parts, i < j
  PROVE  ranges[i][2] < ranges[j][2]
<1>1. PICK a, b, c : a = ranges[i][2] /\ b = ranges[j][1] /\ c = ranges[j][2]
  OBVIOUS
<1>2. a \in Nat /\ b \in Nat /\ c \in Nat /\ b < c /\ a <= b
  BY <1>1 DEF Partition
<1>3. QED
  BY <1>1, <1>2

\* Without overlap a place lies in one part.
LEMMA PartsAreDisjoint ==
  ASSUME NEW length \in Nat, NEW parts \in Nat \ {0}, NEW ranges,
         Partition(length, parts, 0, ranges),
         NEW i \in 1..parts, NEW j \in 1..parts, NEW x \in Int,
         ranges[i][1] <= x, x < ranges[i][2], ranges[j][1] <= x, x < ranges[j][2]
  PROVE  i = j
<1>1. PICK a, b, c, d : a = ranges[i][1] /\ b = ranges[i][2] /\ c = ranges[j][1] /\ d = ranges[j][2]
  OBVIOUS
<1>2. a \in Nat /\ b \in Nat /\ c \in Nat /\ d \in Nat
  BY <1>1 DEF Partition
<1>3. (i < j => b <= c) /\ (j < i => d <= a)
  BY <1>1 DEF Partition
<1>4. a <= x /\ x < b /\ c <= x /\ x < d
  BY <1>1
<1>5. ~(i < j) /\ ~(j < i)
  BY <1>2, <1>3, <1>4
<1>6. QED
  BY <1>5

LEMMA TilesCover ==
  ASSUME NEW t \in Tilings, ~TileRefused(t.size[1], t.size[2], t.rows, t.columns)
  PROVE  CoverImage(t, Tile(t.size[1], t.size[2], t.rows, t.columns, t.overlap, OneWhole))
<1>1. PICK w, h, rows, columns, overlap :
        /\ w = t.size[1] /\ h = t.size[2] /\ rows = t.rows /\ columns = t.columns
        /\ overlap = t.overlap
  OBVIOUS
<1>2. /\ w \in Nat \ {0} /\ h \in Nat \ {0} /\ overlap \in Nat
      /\ rows \in Nat \ {0} /\ columns \in Nat \ {0} /\ rows <= h /\ columns <= w
  BY <1>1, CallAssumption DEF Sizes, TileRefused
<1>3. PICK xs, ys : xs = AxisRanges(w, columns, overlap, OneWhole) /\ ys = AxisRanges(h, rows, overlap, OneWhole)
  OBVIOUS
<1>4. Partition(w, columns, overlap, xs) /\ Partition(h, rows, overlap, ys)
  BY <1>2, <1>3, AxisIsPartitioned
<1>5. PICK tiles : tiles = Tile(w, h, rows, columns, overlap, OneWhole)
  OBVIOUS
<1>6. /\ DOMAIN tiles = 1..(rows * columns) /\ rows * columns \in Nat
      /\ \A n \in 1..(rows * columns) :
           LET i == RowOf(n, columns)
               j == ColumnOf(n, columns)
           IN  /\ tiles[n].left = xs[j][1] /\ tiles[n].right = xs[j][2]
               /\ tiles[n].top = ys[i][1] /\ tiles[n].bottom = ys[i][2]
  BY <1>2, <1>3, <1>5 DEF Tile, PixelBox, RowOf, ColumnOf
<1>7. ASSUME NEW n \in DOMAIN tiles
      PROVE  /\ IsPixelBox(tiles[n])
             /\ tiles[n].right <= w /\ tiles[n].bottom <= h
  <2>1. PICK i, j : i = RowOf(n, columns) /\ j = ColumnOf(n, columns)
    OBVIOUS
  <2>2. i \in 1..rows /\ j \in 1..columns
    BY <1>2, <1>6, <2>1, RowsAndColumns
  <2>3. /\ tiles[n].left = xs[j][1] /\ tiles[n].right = xs[j][2]
        /\ tiles[n].top = ys[i][1] /\ tiles[n].bottom = ys[i][2]
    BY <1>6, <2>1
  <2>4. /\ xs[j][1] \in Nat /\ xs[j][1] < xs[j][2] /\ xs[j][2] <= w
        /\ ys[i][1] \in Nat /\ ys[i][1] < ys[i][2] /\ ys[i][2] <= h
    BY <1>4, <2>2 DEF Partition
  <2>5. 0 <= xs[j][1] /\ 0 <= ys[i][1]
    BY <2>4
  <2>6. QED
    BY <2>3, <2>4, <2>5 DEF IsPixelBox
\* The tile of the row and the column that hold a pixel holds it.
<1>8. ASSUME NEW x \in 0..(w - 1), NEW y \in 0..(h - 1)
      PROVE  \E n \in DOMAIN tiles : HeldBy(tiles[n], x, y)
  <2>1. PICK j \in 1..columns : xs[j][1] <= x /\ x < xs[j][2]
    BY <1>4 DEF Partition
  <2>2. PICK i \in 1..rows : ys[i][1] <= y /\ y < ys[i][2]
    BY <1>4 DEF Partition
  <2>3. PICK n : n = (i - 1) * columns + j
    OBVIOUS
  <2>4. n \in 1..(rows * columns) /\ RowOf(n, columns) = i /\ ColumnOf(n, columns) = j
    BY <1>2, <2>1, <2>2, <2>3, TileAt
  <2>5. HeldBy(tiles[n], x, y)
    BY <1>6, <2>1, <2>2, <2>4 DEF HeldBy
  <2>6. QED
    BY <1>6, <2>4, <2>5
\* Without overlap a pixel tells the row and the column, and they tell the tile.
<1>9. ASSUME overlap = 0, NEW x \in 0..(w - 1), NEW y \in 0..(h - 1),
             NEW n \in DOMAIN tiles, NEW m \in DOMAIN tiles,
             HeldBy(tiles[n], x, y), HeldBy(tiles[m], x, y)
      PROVE  n = m
  <2>1. PICK i, j, k, l : /\ i = RowOf(n, columns) /\ j = ColumnOf(n, columns)
                          /\ k = RowOf(m, columns) /\ l = ColumnOf(m, columns)
    OBVIOUS
  <2>2. /\ i \in 1..rows /\ j \in 1..columns /\ n = (i - 1) * columns + j
        /\ k \in 1..rows /\ l \in 1..columns /\ m = (k - 1) * columns + l
    <3>1. n \in 1..(rows * columns) /\ m \in 1..(rows * columns)
      BY <1>6
    <3>2. i \in 1..rows /\ j \in 1..columns /\ n = (i - 1) * columns + j
      BY <1>2, <2>1, <3>1, RowsAndColumns
    <3>3. k \in 1..rows /\ l \in 1..columns /\ m = (k - 1) * columns + l
      BY <1>2, <2>1, <3>1, RowsAndColumns
    <3>4. QED
      BY <3>2, <3>3
  <2>3. /\ tiles[n].left = xs[j][1] /\ tiles[n].right = xs[j][2]
        /\ tiles[n].top = ys[i][1] /\ tiles[n].bottom = ys[i][2]
        /\ tiles[m].left = xs[l][1] /\ tiles[m].right = xs[l][2]
        /\ tiles[m].top = ys[k][1] /\ tiles[m].bottom = ys[k][2]
    BY <1>6, <2>1
  <2>4. /\ xs[j][1] <= x /\ x < xs[j][2] /\ xs[l][1] <= x /\ x < xs[l][2]
        /\ ys[i][1] <= y /\ y < ys[i][2] /\ ys[k][1] <= y /\ y < ys[k][2]
    BY <1>9, <2>3 DEF HeldBy
  <2>5. x \in Int /\ y \in Int
    BY <1>2
  <2>6. j = l /\ i = k
    BY <1>2, <1>4, <1>9, <2>2, <2>4, <2>5, PartsAreDisjoint
  <2>7. QED
    BY <2>2, <2>6
<1>10. ASSUME NEW x \in 0..(w - 1), NEW y \in 0..(h - 1)
       PROVE  /\ HoldersOf(tiles, x, y) # {}
              /\ overlap = 0 => Cardinality(HoldersOf(tiles, x, y)) = 1
  <2>1. PICK n \in DOMAIN tiles : HeldBy(tiles[n], x, y)
    BY <1>8
  <2>2. n \in HoldersOf(tiles, x, y)
    BY <2>1 DEF HoldersOf
  <2>3. ASSUME overlap = 0 PROVE HoldersOf(tiles, x, y) = {n}
    BY <1>9, <2>1, <2>3 DEF HoldersOf
  <2>4. QED
    BY <2>2, <2>3, FS_Singleton
\* The next tile is the next one of the row, or the first one of the next.
<1>11. ASSUME overlap = 0, NEW n \in 2..(rows * columns)
       PROVE  tiles[n].right > tiles[n - 1].right \/ tiles[n].bottom > tiles[n - 1].bottom
  <2>1. PICK i, j, k, l : /\ i = RowOf(n, columns) /\ j = ColumnOf(n, columns)
                          /\ k = RowOf(n - 1, columns) /\ l = ColumnOf(n - 1, columns)
    OBVIOUS
  <2>2. n \in 1..(rows * columns) /\ n - 1 \in 1..(rows * columns)
    BY <1>6
  <2>3. /\ i \in 1..rows /\ j \in 1..columns /\ n = (i - 1) * columns + j
        /\ k \in 1..rows /\ l \in 1..columns /\ n - 1 = (k - 1) * columns + l
    BY <1>2, <2>1, <2>2, RowsAndColumns
  <2>4. PICK a, b : a = i - 1 /\ b = k - 1
    OBVIOUS
  <2>5. /\ a \in Nat /\ b \in Nat /\ a * columns \in Int /\ b * columns \in Int
        /\ n = a * columns + j /\ n - 1 = b * columns + l
    BY <1>2, <2>3, <2>4
  <2>6. b * columns < a * columns + columns
    BY <1>2, <2>3, <2>5
  <2>7. b <= a
    BY <1>2, <2>5, <2>6, Factors
  <2>8. k < i \/ (k = i /\ l < j)
    <3>1. CASE a = b
      <4>1. j = l + 1
        BY <2>3, <2>5, <3>1
      <4>2. QED
        BY <2>3, <2>4, <3>1, <4>1
    <3>2. CASE a # b
      BY <2>3, <2>4, <2>5, <2>7, <3>2
    <3>3. QED
      BY <3>1, <3>2
  <2>9. /\ tiles[n].right = xs[j][2] /\ tiles[n].bottom = ys[i][2]
        /\ tiles[n - 1].right = xs[l][2] /\ tiles[n - 1].bottom = ys[k][2]
    BY <1>6, <2>1, <2>2
  <2>10. CASE k < i
    <3>1. ys[k][2] < ys[i][2]
      BY <1>2, <1>4, <1>11, <2>3, <2>10, PartsAdvance
    <3>2. ys[k][2] \in Nat /\ ys[i][2] \in Nat
      BY <1>4, <2>3 DEF Partition
    <3>3. QED
      BY <2>9, <3>1, <3>2
  <2>11. CASE k = i /\ l < j
    <3>1. xs[l][2] < xs[j][2]
      BY <1>2, <1>4, <1>11, <2>3, <2>11, PartsAdvance
    <3>2. xs[l][2] \in Nat /\ xs[j][2] \in Nat
      BY <1>4, <2>3 DEF Partition
    <3>3. QED
      BY <2>9, <3>1, <3>2
  <2>12. QED
    BY <2>8, <2>10, <2>11
<1>12. Len(tiles) = rows * columns
  <2>1. tiles = [n \in 1..(rows * columns) |-> tiles[n]]
    BY <1>5, <1>6 DEF Tile
  <2>2. QED
    BY <1>6, <2>1
<1>13. CoverImage(t, tiles)
  BY <1>1, <1>7, <1>10, <1>11, <1>12 DEF CoverImage
<1>14. QED
  BY <1>1, <1>5, <1>13

-------------------------------------------------------------------------------
\* The answers.

\* A call that was made and answered was answered by its own action.
IInv ==
  /\ task \in UNION {Crops, Tilings, Markings, Readings, Sightings, Responses, Compilations}
  /\ answer.done \in BOOLEAN
  /\ Done("crop") =>
        answer.value = build_crop_geometry(task.box, task.size[1], task.size[2],
                                           task.padding, OneWhole, task.drift)
  /\ Done("tile") =>
        answer.value = IF TileRefused(task.size[1], task.size[2], task.rows, task.columns)
                       THEN <<>>
                       ELSE Tile(task.size[1], task.size[2], task.rows, task.columns,
                                 task.overlap, OneWhole)

LEMMA CallsAreMade == Init => IInv
<1> SUFFICES ASSUME Init PROVE IInv
  OBVIOUS
<1>1. answer.done = FALSE
  BY DEF Init, Unanswered
<1>2. ~Done("crop") /\ ~Done("tile")
  BY <1>1 DEF Done
<1>3. task \in UNION {Crops, Tilings, Markings, Readings, Sightings, Responses, Compilations}
  BY DEF Init
<1>4. QED
  BY <1>1, <1>2, <1>3 DEF IInv

LEMMA CallsAreAnswered == IInv /\ [Next]_vars => IInv'
<1> SUFFICES ASSUME IInv, [Next]_vars PROVE IInv'
  OBVIOUS
<1>1. ASSUME NEW name, NEW value, name \notin {"crop", "tile"}, Called(name), Return(value)
      PROVE  IInv'
  <2>1. answer'.done = TRUE /\ task' = task /\ task.call = name
    BY <1>1 DEF Called, Return, Answered
  <2>2. ~Done("crop")' /\ ~Done("tile")'
    BY <1>1, <2>1 DEF Done
  <2>3. QED
    BY <2>1, <2>2 DEF IInv
<1>2. CASE CropImage
  <2>1. /\ answer'.done = TRUE /\ task' = task /\ task.call = "crop"
        /\ answer'.value = build_crop_geometry(task.box, task.size[1], task.size[2],
                                               task.padding, OneWhole, task.drift)
    BY <1>2 DEF CropImage, Called, Return, Answered
  <2>2. ~Done("tile")'
    BY <2>1 DEF Done
  <2>3. QED
    BY <2>1, <2>2 DEF IInv
<1>3. CASE TileImage
  <2>1. /\ answer'.done = TRUE /\ task' = task /\ task.call = "tile"
        /\ answer'.value
             = IF TileRefused(task.size[1], task.size[2], task.rows, task.columns)
               THEN <<>>
               ELSE Tile(task.size[1], task.size[2], task.rows, task.columns, task.overlap, OneWhole)
    BY <1>3 DEF TileImage, Called, Return, Answered
  <2>2. ~Done("crop")'
    BY <2>1 DEF Done
  <2>3. QED
    BY <2>1, <2>2 DEF IInv
<1>4. CASE MarkImage
  BY <1>1, <1>4 DEF MarkImage
<1>5. CASE ReadText
  BY <1>1, <1>5 DEF ReadText
<1>6. CASE DetectObjects
  BY <1>1, <1>6 DEF DetectObjects
<1>7. CASE NormalizeAnswer
  BY <1>1, <1>7 DEF NormalizeAnswer
<1>8. CASE CompileContext
  BY <1>1, <1>8 DEF CompileContext
<1>9. CASE UNCHANGED vars
  BY <1>9 DEF vars, IInv, Done
<1>10. QED
  BY <1>2, <1>3, <1>4, <1>5, <1>6, <1>7, <1>8, <1>9 DEF Next

LEMMA AnswersCover == IInv => PixelsAreCovered
<1> SUFFICES ASSUME IInv PROVE PixelsAreCovered
  OBVIOUS
<1>1. CropCoversRequest
  <2> SUFFICES ASSUME Done("crop") PROVE CoversRequest(task, answer.value)
    BY DEF CropCoversRequest, CoversRequest
  <2>1. task \in Crops
    BY CallAssumption DEF IInv, Done
  <2>2. QED
    BY <2>1, CropsCover DEF IInv
<1>2. TilesCoverImage
  <2> SUFFICES ASSUME Done("tile") PROVE CoverImage(task, answer.value)
    BY DEF TilesCoverImage, CoverImage, HoldersOf, HeldBy
  <2>1. task \in Tilings
    BY CallAssumption DEF IInv, Done
  <2>2. CASE TileRefused(task.size[1], task.size[2], task.rows, task.columns)
    BY <2>2 DEF IInv, CoverImage
  <2>3. CASE ~TileRefused(task.size[1], task.size[2], task.rows, task.columns)
    BY <2>1, <2>3, TilesCover DEF IInv
  <2>4. QED
    BY <2>2, <2>3
<1>3. QED
  BY <1>1, <1>2 DEF PixelsAreCovered

\* Cropping and tiling lose nothing, on every grid, in every image and with every padding,
\* overlap and drift of the floats: the pixels of a crop cover the box asked for and leave it
\* by at most one; tiles leave no pixel out, and without overlap share none and stand in
\* row-major order (image/geometry.py:142-157, image/transforms.py:446-514).
THEOREM CropsAndTilesLoseNothing == Spec => []PixelsAreCovered
<1>1. Init => IInv
  BY CallsAreMade
<1>2. IInv /\ [Next]_vars => IInv'
  BY CallsAreAnswered
<1>3. IInv => PixelsAreCovered
  BY AnswersCover
<1>4. QED
  BY <1>1, <1>2, <1>3, PTL DEF Spec

=============================================================================
