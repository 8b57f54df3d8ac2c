------------------------------ MODULE Geometry ------------------------------
(***************************************************************************)
(* image/geometry.py: normalized boxes and the pixels they cover.          *)
(*                                                                         *)
(* A normalized coordinate is an integer number of GRID-ths, so that every *)
(* product of the code is an exact fraction here.  The code multiplies     *)
(* floats: a product that ought to be a whole number may come out a little *)
(* low or high, and floor or ceil then lands one pixel further out.  The   *)
(* argument "drift" says whether that happens.                             *)
(***************************************************************************)
EXTENDS Integers

CONSTANTS
    GRID,       \* one whole image side, in coordinate units
    TOLERANCE   \* NORMALIZED_TOLERANCE, in coordinate units

ASSUME GeometryAssumption == GRID \in Nat \ {0} /\ TOLERANCE \in Nat

Smaller(a, b) == IF a <= b THEN a ELSE b

Larger(a, b) == IF a <= b THEN b ELSE a

Within(low, value, high) == Smaller(high, Larger(low, value))

CeilDiv(a, b) == -((-a) \div b)

NoBox == [none |-> TRUE]

Box(x_min, y_min, x_max, y_max) ==
    [x_min |-> x_min, y_min |-> y_min, x_max |-> x_max, y_max |-> y_max]

\* What the Box model accepts.
IsBox(b) ==
    /\ 0 <= b.x_min /\ b.x_min < b.x_max /\ b.x_max <= GRID
    /\ 0 <= b.y_min /\ b.y_min < b.y_max /\ b.y_max <= GRID

PixelBox(left, top, right, bottom) ==
    [left |-> left, top |-> top, right |-> right, bottom |-> bottom]

IsPixelBox(p) ==
    /\ 0 <= p.left /\ p.left < p.right
    /\ 0 <= p.top /\ p.top < p.bottom

FloorPixel(coordinate, length, drift) ==
    LET product == coordinate * length
    IN  product \div GRID - (IF product % GRID = 0 THEN drift ELSE 0)

CeilPixel(coordinate, length, drift) ==
    LET product == coordinate * length
    IN  CeilDiv(product, GRID) + (IF product % GRID = 0 THEN drift ELSE 0)

box_to_pixels(box, width, height, drift) ==
    PixelBox(Within(0, FloorPixel(box.x_min, width, drift), width),
             Within(0, FloorPixel(box.y_min, height, drift), height),
             Within(0, CeilPixel(box.x_max, width, drift), width),
             Within(0, CeilPixel(box.y_max, height, drift), height))

\* Exact where the sides of the image divide GRID.
pixels_to_box(p, width, height) ==
    Box((p.left * GRID) \div width, (p.top * GRID) \div height,
        (p.right * GRID) \div width, (p.bottom * GRID) \div height)

\* Every coordinate lies in the image or overshoots it by the tolerance only.
WithinTolerance(b) ==
    \A coordinate \in {b.x_min, b.y_min, b.x_max, b.y_max} :
        -TOLERANCE <= coordinate /\ coordinate <= GRID + TOLERANCE

clamp_normalized_box(b) ==
    Box(Within(0, b.x_min, GRID), Within(0, b.y_min, GRID),
        Within(0, b.x_max, GRID), Within(0, b.y_max, GRID))

box_contains(outer, inner) ==
    /\ inner.x_min >= outer.x_min - TOLERANCE
    /\ inner.y_min >= outer.y_min - TOLERANCE
    /\ inner.x_max <= outer.x_max + TOLERANCE
    /\ inner.y_max <= outer.y_max + TOLERANCE

\* The padding is a fraction (numerator of "of") of the box's own sides.
expand_box(box, numerator, of) ==
    LET x_padding == ((box.x_max - box.x_min) * numerator) \div of
        y_padding == ((box.y_max - box.y_min) * numerator) \div of
    IN  Box(Larger(0, box.x_min - x_padding), Larger(0, box.y_min - y_padding),
            Smaller(GRID, box.x_max + x_padding), Smaller(GRID, box.y_max + y_padding))

\* A crop: the box asked for, what it was padded to, and the pixels applied.
build_crop_geometry(box, width, height, numerator, of, drift) ==
    LET expanded == expand_box(box, numerator, of)
    IN  [requested |-> box, expanded |-> expanded,
         pixels |-> box_to_pixels(expanded, width, height, drift)]

BoxesIntersection(a, b) ==
    LET shared == Box(Larger(a.x_min, b.x_min), Larger(a.y_min, b.y_min),
                      Smaller(a.x_max, b.x_max), Smaller(a.y_max, b.y_max))
    IN  IF shared.x_min >= shared.x_max \/ shared.y_min >= shared.y_max THEN NoBox ELSE shared

\* Pixels of a crop, placed back in the image the crop came from.
remap_pixel_box(p, region_pixels) ==
    PixelBox(p.left + region_pixels.left, p.top + region_pixels.top,
             p.right + region_pixels.left, p.bottom + region_pixels.top)

\* Whether the pixels of p cover every point of the box, in an image of that size.
PixelsCover(p, box, width, height) ==
    /\ p.left * GRID <= box.x_min * width
    /\ p.top * GRID <= box.y_min * height
    /\ p.right * GRID >= box.x_max * width
    /\ p.bottom * GRID >= box.y_max * height

=============================================================================
