-------------------------- MODULE MCOcrAlgorithms ---------------------------
(***************************************************************************)
(* The algorithms of OcrAlgorithms and Base64 over bounded inputs: a       *)
(* behaviour takes one input, lets the code's definition work on it, and   *)
(* the invariants compare what comes out with what the algorithm is for.   *)
(***************************************************************************)
EXTENDS OcrAlgorithms, Base64

CONSTANTS
    MaxBoxes,   \* bound: boxes on a page
    MaxSteps,   \* bound: steps of the recogniser's output
    MaxText     \* bound: characters of an image in a request

ASSUME BenchAssumption == MaxBoxes \in Nat /\ MaxSteps \in Nat /\ MaxText \in Nat

VARIABLES
    job,   \* the input
    done,  \* has the code worked on it?
    out    \* what the code made of it

bench == <<job, done, out>>

Picture == [width |-> 24, height |-> 24]
Labels == 3

\* A side of a rectangle, the places of its first corner, and those of the first
\* corner of a text box on a page.
Vectors == [x : {0, 2, 4, 6, 7}, y : {0, 2, 3, 6}] \ {[x |-> 0, y |-> 0]}
Corners == [x : {-4, 0, 2, 9, 14, 20}, y : {-6, 0, 3, 8, 19}]
Tops == [x : {0, 20, 40}, y : {0, 8, 16, 30}]

\* From one corner along u, then k times as far at right angles to it.
Rectangle(corner, u, k) ==
    <<corner, [x |-> corner.x + u.x, y |-> corner.y + u.y],
      [x |-> corner.x + u.x - k * u.y, y |-> corner.y + u.y + k * u.x],
      [x |-> corner.x - k * u.y, y |-> corner.y + k * u.x]>>

Spaced(characters, before, n) ==
    SubSeq(characters, 1, before) \o [i \in 1 .. n |-> Space] \o SubSeq(characters, before + 1, Len(characters))

\* Texts of few characters, and encoded bytes with white space put in.
Characters == (UNION {[1 .. n -> {1, 16, Pad, Space, Other}] : n \in 0 .. MaxText})
              \cup (UNION {[1 .. n -> {16, Pad}] : n \in MaxText + 1 .. 8})
Bytes == UNION {[1 .. n -> {0, 97, 255}] : n \in 1 .. 4}

BoxJobs == [op : {"box"}, points : {Rectangle(c, u, k) : c \in Corners, u \in Vectors, k \in 1 .. 3}]
PageJobs == [op : {"order"}, boxes : UNION {[1 .. n -> Tops] : n \in 1 .. MaxBoxes}]
RowJobs == [op : {"decode"}, row : UNION {[1 .. n -> 0 .. Labels] : n \in 1 .. MaxSteps}]
TextJobs ==
    [op : {"base64"}, maximum : {1, 3}, bytes : {<<>>},
     text : {Text(p, c) : p \in {"none"}, c \in Characters} \cup {Text(p, <<16, 16, Pad, Pad>>) : p \in Prefixes}]
BytesJobs ==
    {[op |-> "base64", maximum |-> n, bytes |-> b, text |-> Text("none", Spaced(Encode(b), at, k))] :
        n \in 1 .. 4, b \in Bytes, at \in {2, 4}, k \in {0, 1, 16, 17, 20}}

Jobs == BoxJobs \cup PageJobs \cup RowJobs \cup TextJobs \cup BytesJobs

BenchInit == job \in Jobs /\ done = FALSE /\ out = <<>>

OrderBox ==
    /\ job.op = "box"
    /\ out' \in BoxesOf(job.points, Picture)

OrderPage ==
    /\ job.op = "order"
    /\ out' \in SortReadingOrder(job.boxes)

DecodeRow ==
    /\ job.op = "decode"
    /\ out' = CtcDecode(job.row, Labels)

DecodeText ==
    /\ job.op = "base64"
    /\ out' = DecodeBase64(job.text, job.maximum)

Bench ==
    /\ ~done
    /\ done' = TRUE
    /\ OrderBox \/ OrderPage \/ DecodeRow \/ DecodeText
    /\ UNCHANGED job

BenchSpec == BenchInit /\ [][Bench]_bench

------------------------------------------------------------------------------
Done(op) == done /\ job.op = op

Cross(p, q, r) == (q.x - p.x) * (r.y - p.y) - (q.y - p.y) * (r.x - p.x)
Inside(p) == p.x \in 0 .. Picture.width - 1 /\ p.y \in 0 .. Picture.height - 1

(* A rectangle inside the image comes out as its four corners, clockwise, at   *)
(* whatever angle it lies and in whatever order std::sort leaves corners above *)
(* one another: crops are neither mirrored nor twisted.                        *)
BoxClockwise ==
    Done("box") /\ (\A i \in 1 .. 4 : Inside(job.points[i])) =>
        /\ {out[i] : i \in 1 .. 4} = {job.points[i] : i \in 1 .. 4}
        /\ \A i \in 1 .. 4 : Cross(out[i], out[(i % 4) + 1], out[((i + 1) % 4) + 1]) > 0

(* On a page whose rows are apart the boxes are read row by row and from left  *)
(* to right, in whatever order the contours were found; in a staircase of      *)
(* rows this much is left of it, that the next box is never a row higher.      *)
ReadingOrder == Done("order") => ReadInOrder(job.boxes, out)

(* Connectionist decoding as it is defined: runs of one label are collapsed,   *)
(* then the blanks go, and with them the labels that have no dictionary entry. *)
TextCollapsed ==
    Done("decode") => IsSelection(out, Collapse(job.row), Labelled(Collapse(job.row), Labels))

(* What is accepted is, white space apart, the encoding of what comes out and  *)
(* of nothing else: no letters behind the padding, no bits left over, the      *)
(* padding of that length.  And the two limits agree: every image up to the    *)
(* size limit is accepted with up to 16 characters of white space, and none is *)
(* beyond it.                                                                  *)
Base64Exact ==
    Done("base64") =>
        /\ out.error = "none" =>
              Encodes(job.text.characters, out.output) /\ Len(out.output) \in 1 .. job.maximum
        /\ Encodes(job.text.characters, job.bytes) /\ Len(job.bytes) \in 1 .. job.maximum
           /\ Len(job.text.characters) <= Len(Encode(job.bytes)) + 16 =>
              out.output = job.bytes
==============================================================================
