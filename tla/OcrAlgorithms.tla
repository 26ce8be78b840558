--------------------------- MODULE OcrAlgorithms ----------------------------
(***************************************************************************)
(* The arithmetic and the orderings between the tensors of an OCR engine:  *)
(* the shapes its models are given, the corners and the order of the text  *)
(* boxes, and the text read off the recogniser's output.                   *)
(*                                                                         *)
(* Pixels are integers and ratios are rational numbers: what the rounding  *)
(* of a float does to a ratio is left out.                                 *)
(***************************************************************************)
EXTENDS Integers, Sequences, FiniteSets

AtLeast(x, y) == IF x < y THEN y ELSE x
AtMost(x, y) == IF x < y THEN x ELSE y
Clamp(value, minimum, maximum) == AtLeast(AtMost(value, maximum), minimum)

Abs(x) == IF x < 0 THEN -x ELSE x

\* std::ceil and std::round of the ratio n / d.
Ceil(n, d) == (n + d - 1) \div d
Round(n, d) == (2 * n + d) \div (2 * d)

------------------------------------------------------------------------------
(* Shapes.                                                                 *)

\* Mutant: rounding up.
DetectionSideCeil(side, max_side, limit) ==
    IF max_side > limit THEN AtLeast(32 * Ceil(side * limit, 32 * max_side), 32)
                        ELSE AtLeast(32 * Ceil(side, 32), 32)

\* ResizeForDetection: the longer side is brought down to limit, then each side is
\* rounded to a multiple of 32, which may be up or down.
DetectionSide(side, max_side, limit) ==
    IF max_side > limit THEN AtLeast(32 * Round(side * limit, 32 * max_side), 32)
                        ELSE AtLeast(32 * Round(side, 32), 32)

DetectionShape(image, limit) ==
    LET longer == AtLeast(image.width, image.height) IN
    [width  |-> DetectionSide(image.width, longer, limit),
     height |-> DetectionSide(image.height, longer, limit)]

Buckets == {320, 384, 448, 512, 640, 768, 960, 1152, 1280}

\* RunBatch: the width the widest crop of the batch needs at the model's height.
RequiredWidth(crops, height, minimum) ==
    LET needs == {Ceil(height * c.width, c.height) : c \in crops} \cup {minimum}
    IN  CHOOSE n \in needs : \A m \in needs : m <= n

Smallest(S) == CHOOSE x \in S : \A y \in S : x <= y

\* DirectML, ONNX Runtime and OpenVINO: beyond the last bucket a width of its own.
BucketWidth(required, minimum) ==
    LET fitting == {b \in Buckets : b >= minimum /\ b >= required} IN
    IF fitting # {} THEN Smallest(fitting) ELSE AtLeast(minimum, required)

\* TensorRT: never beyond the optimisation profile.
ProfileWidth(required, minimum, maximum) ==
    LET fitting == {b \in Buckets : b >= minimum /\ b >= required /\ b <= maximum} IN
    IF fitting # {} THEN Smallest(fitting) ELSE maximum

\* Mutant: the crop is scaled to the model's height only.
ScaledWidthUnbounded(crop, height, target) == AtLeast(1, Ceil(height * crop.width, crop.height))

\* ResizeForRecognition and ResizeForClassification: the crop at the model's height,
\* squeezed when it is wider than the target and padded when it is narrower.
ScaledWidth(crop, height, target) ==
    AtMost(target, AtLeast(1, Ceil(height * crop.width, crop.height)))

------------------------------------------------------------------------------
(* Boxes: four points [x, y], y growing downwards.                         *)

Orders4 == {p \in [1 .. 4 -> 1 .. 4] : \A i, j \in 1 .. 4 : i # j => p[i] # p[j]}

\* The orders std::sort may leave four points in, compared by x.
SortedByX(points) ==
    {[i \in 1 .. 4 |-> points[p[i]]] : p \in
        {q \in Orders4 : \A i \in 1 .. 3 : points[q[i]].x <= points[q[i + 1]].x}}

Upper(p, q) == IF p.y < q.y THEN p ELSE q
Lower(p, q) == IF p.y < q.y THEN q ELSE p

\* Mutant: the two points on the right in the order of the points on the left.
OrderClockwiseLeftFirst(points) ==
    {<<Upper(s[1], s[2]), Lower(s[3], s[4]), Upper(s[3], s[4]), Lower(s[1], s[2])>> : s \in SortedByX(points)}

\* From the upper left point: upper left, upper right, lower right, lower left.
OrderClockwise(points) ==
    {<<Upper(s[1], s[2]), Upper(s[3], s[4]), Lower(s[3], s[4]), Lower(s[1], s[2])>> : s \in SortedByX(points)}

\* A box is brought back from the detector's map into the image (ratios of 1 here).
InsideImage(points, image) ==
    [i \in 1 .. 4 |-> [x |-> Clamp(points[i].x, 0, image.width - 1),
                       y |-> Clamp(points[i].y, 0, image.height - 1)]]

\* The squared length of a side, the points of a side being at most 4 pixels apart
\* making the box too small to read.
Apart(p, q) == (p.x - q.x) * (p.x - q.x) + (p.y - q.y) * (p.y - q.y)
Readable(box) == Apart(box[1], box[2]) > 16 /\ Apart(box[1], box[4]) > 16

\* DbPostprocessor::Run for one expanded rectangle: ordered, moved, ordered again.
BoxesOf(points, image) ==
    {box \in UNION {OrderClockwise(InsideImage(b, image)) : b \in OrderClockwise(points)} : Readable(box)}

RowBand == 10

\* Mutant: the same row is compared by y.
BeforeByRow(l, r) == l.y < r.y

\* The comparator of SortReadingOrder: within RowBand pixels two boxes are in one row.
Before(l, r) == IF Abs(l.y - r.y) < RowBand THEN l.x < r.x ELSE l.y < r.y

Permuted(s) ==
    {[i \in DOMAIN s |-> s[p[i]]] : p \in
        {q \in [DOMAIN s -> DOMAIN s] : \A i, j \in DOMAIN s : i # j => q[i] # q[j]}}

\* std::stable_sort.  Before need not be transitive: then the result depends on the
\* implementation, of which the model keeps that neighbours are not inverted.
SortReadingOrder(s) ==
    {t \in Permuted(s) : \A i \in 1 .. Len(t) - 1 : ~Before(t[i + 1], t[i])}

SameRow(p, q) == Abs(p.y - q.y) < 10

\* No staircase of boxes each in one row with the next.
RowsApart(boxes) ==
    \A i, j, k \in DOMAIN boxes :
        SameRow(boxes[i], boxes[j]) /\ SameRow(boxes[j], boxes[k]) => SameRow(boxes[i], boxes[k])

\* What a reader expects: row by row, and from left to right; in a staircase of rows
\* this much is left of it, that the next box is never a row higher.
ReadInOrder(boxes, page) ==
    \A i, j \in DOMAIN page :
        i < j /\ (j = i + 1 \/ RowsApart(boxes)) =>
            IF SameRow(page[i], page[j]) THEN page[i].x <= page[j].x ELSE page[i].y < page[j].y

------------------------------------------------------------------------------
(* Text.                                                                   *)

\* What a loop over the steps of a row gathers at some of them.
Kept(row, steps) ==
    LET text[step \in 0 .. Len(row)] ==
            IF step = 0 THEN <<>>
            ELSE IF step \in steps THEN Append(text[step - 1], row[step])
            ELSE text[step - 1]
    IN  text[Len(row)]

\* Mutant: the previous label is remembered only when it was no blank.
CtcDecodeSkipsBlank(row, labels) ==
    Kept(row, {step \in DOMAIN row : row[step] \in 1 .. labels - 1 /\ ~\E j \in 1 .. step - 1 :
                  row[j] = row[step] /\ \A k \in j + 1 .. step - 1 : row[k] = 0})

\* The best label of each step, 0 for blank.  A label is kept when it differs from the
\* step before it; one the dictionary does not hold is dropped, and still remembered.
CtcDecode(row, labels) ==
    Kept(row, {step \in DOMAIN row : row[step] \in 1 .. labels - 1 /\ (step = 1 \/ row[step] # row[step - 1])})

\* The sequence t is what s holds at the places of a set, in their order.
IsSelection(t, s, places) ==
    /\ Len(t) = Cardinality(places)
    /\ \A i \in places : t[Cardinality({j \in places : j <= i})] = s[i]

\* The runs of equal labels in a row, each as one label, and the places of labels that
\* have a dictionary entry.
Collapse(row) == Kept(row, {step \in DOMAIN row : step = 1 \/ row[step] # row[step - 1]})
Labelled(row, labels) == {step \in DOMAIN row : row[step] \in 1 .. labels - 1}
==============================================================================
