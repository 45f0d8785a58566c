------------------------------- MODULE Regions ------------------------------
(***************************************************************************)
(* The geometry of the detector addons: the zones of the motion detector   *)
(* (addons/motion/zone.go, with the masks of pkg/ffmpeg), and the frames   *)
(* of the DOODS detector (addons/doods2/backend.go), which are scaled,     *)
(* padded and cropped on the way there and mapped back on the way home.    *)
(***************************************************************************)
EXTENDS Integers, Sequences, FiniteSets, SequencesExt

\* Division of Go: towards zero.
Quo(a, b) == LET q == (IF a < 0 THEN -a ELSE a) \div (IF b < 0 THEN -b ELSE b)
             IN  IF (a < 0) = (b < 0) THEN q ELSE -q

-----------------------------------------------------------------------------
(* Zones.                                                                  *)

\* A percentage of a size as a floating-point product that is truncated: where the
\* product is a whole number it may be a pixel less, unless the fraction is exact.
Pixels(size, percent) ==
    LET p == size * percent
    IN  {p \div 100} \union (IF p % 100 = 0 /\ percent % 25 # 0 THEN {p \div 100 - 1} ELSE {})

\* convertPolygon: percent to pixels; the polygons it may make of an area.
ConvertPolygon(w, h, area) ==
    LET corner == [i \in DOMAIN area |-> Pixels(w, area[i][1]) \X Pixels(h, area[i][2])]
    IN  {poly \in [DOMAIN area -> UNION {corner[i] : i \in DOMAIN area}] : \A i \in DOMAIN area : poly[i] \in corner[i]}

\* The ray from (x, y) crosses the edge that ends at vertex i.
Crosses(x, y, poly, i) ==
    LET p == poly[i]
        q == poly[IF i = 1 THEN Len(poly) ELSE i - 1]
    IN  /\ (p[2] > y) # (q[2] > y)
        /\ x < Quo((q[1] - p[1]) * (y - p[2]), q[2] - p[2]) + p[1]

VertexInsidePoly(x, y, poly) == Cardinality({i \in DOMAIN poly : Crosses(x, y, poly, i)}) % 2 = 1

\* The mask, row by row: TRUE where a pixel is masked.
Mask(w, h, poly) == [i \in 1..(w * h) |-> ~VertexInsidePoly((i - 1) % w, (i - 1) \div w, poly)]

\* Mutant of IndexPixel: a run that begins is not counted.
IndexPixelZero(acc, maskPixel) ==
    IF acc.check = maskPixel THEN [acc EXCEPT !.index[Len(acc.index)] = @ + 1]
    ELSE [check |-> maskPixel, index |-> Append(acc.index, 0)]

\* One pixel of newZone: it lengthens the last run, or begins one.
IndexPixel(acc, maskPixel) ==
    IF acc.check = maskPixel THEN [acc EXCEPT !.index[Len(acc.index)] = @ + 1]
    ELSE [check |-> maskPixel, index |-> Append(acc.index, 1)]

\* newZone: lengths of runs, masked and unmasked in turn, beginning with masked.
NewZone(w, h, poly, sensitivity) ==
    LET mask == Mask(w, h, poly)
        first == IF mask[1] THEN [check |-> FALSE, index |-> <<>>] ELSE [check |-> TRUE, index |-> <<0>>]
    IN  [maskIndex   |-> FoldLeft(IndexPixel, first, mask).index,
         zoneSize    |-> Cardinality({i \in DOMAIN mask : ~mask[i]}),
         sensitivity |-> ((sensitivity * 256 + 50) \div 100) % 256]

\* diffFrames.
DiffFrames(f, g) == [i \in DOMAIN f |-> IF f[i] < g[i] THEN g[i] - f[i] ELSE f[i] - g[i]]

\* checkDiff: the changed pixels in the runs that are not masked.
NChangedPixels(zone, diff) ==
    FoldLeft(LAMBDA acc, n :
                [check |-> ~acc.check, pos |-> acc.pos + n,
                 changed |-> acc.changed
                             + IF acc.check
                               THEN Cardinality({i \in (acc.pos + 1)..(acc.pos + n) : diff[i] >= zone.sensitivity})
                               ELSE 0],
             [check |-> FALSE, pos |-> 0, changed |-> 0], zone.maskIndex).changed

\* A share of no pixels is not a number: such a zone is never active.
IsActive(zone, diff, min, max) ==
    LET n == NChangedPixels(zone, diff)
    IN  n * 100 > min * zone.zoneSize /\ n * 100 < max * zone.zoneSize

\* A zone is active exactly if the share of the pixels inside its polygon that
\* changed is between its thresholds, wherever the polygon begins and ends.
ZonesExact(w, h, Areas, Frames, Blanks) ==
    \A poly \in UNION {ConvertPolygon(w, h, area) : area \in Areas}, f \in Frames, g \in Blanks :
        LET inside == {i \in 1..(w * h) : VertexInsidePoly((i - 1) % w, (i - 1) \div w, poly)}
            moved  == {i \in inside : f[i] - g[i] >= 128 \/ g[i] - f[i] >= 128}
        IN  IsActive(NewZone(w, h, poly, 50), DiffFrames(f, g), 30, 90)
            <=> /\ inside # {}
                /\ Cardinality(moved) * 100 > 30 * Cardinality(inside)
                /\ Cardinality(moved) * 100 < 90 * Cardinality(inside)

-----------------------------------------------------------------------------
(* Frames of the DOODS detector, one axis: in and out are the sizes of the *)
(* input and the detector along it, in2 and out2 those along the other     *)
(* axis.  A position is a percentage of the input.                         *)

Narrow(in, out, in2, out2) == in * out2 < in2 * out

\* calculateOutputs: the frame is padded to out*100/cropSize; an axis that is the
\* narrow one is scaled by the other one's ratio.
Scaled(in, out, in2, out2, size) ==
    IF Narrow(in, out, in2, out2) THEN (in * out2 * 100) \div (size * in2) ELSE (out * 100) \div size

CropOut(out, crop, size) == (out * crop) \div size

\* The errors of calculateOutputs; only the width is compared after scaling.
OutputsValid(inW, outW, inH, outH, size) ==
    /\ inW >= outW /\ inH >= outH
    /\ IF Narrow(inW, outW, inH, outH) THEN outH * 100 <= size * inH ELSE outW * 100 <= size * inW

\* What FFmpeg does with the scale, pad and crop filters: position a is at this
\* many hundredths of a pixel of the detector's frame.
Forward(a, in, out, in2, out2, crop, size) ==
    a * Scaled(in, out, in2, out2, size) - 100 * CropOut(out, crop, size)

\* parseDetections with the functions of reverseValues: back to a percentage.
Conv(px, in, out, in2, out2, crop, size) ==
    IF Narrow(in, out, in2, out2)
    THEN Quo((px * size + 100 * out * crop) * in2, 100 * in * out2)
    ELSE Quo(px * size + 100 * out * crop, 100 * out)

\* A position that the detector sees is reported where it is in the input, up to
\* the two pixels and the percent that rounding costs, and the crop lies in the
\* padded frame.
DetectionsMapBack(Sizes, Outs, Crops) ==
    \A in \in Sizes, in2 \in Sizes, out \in Outs, out2 \in Outs, c \in Crops :
        OutputsValid(in, out, in2, out2, c.size) =>
            /\ CropOut(out, c.at, c.size) + out <= (out * 100) \div c.size + 1
            /\ \A a \in {0, 10, 35, 50, 85, 100} :
                LET px == Forward(a, in, out, in2, out2, c.at, c.size)
                    back == Conv(px, in, out, in2, out2, c.at, c.size)
                    slack == 2 + 200 \div Scaled(in, out, in2, out2, c.size)
                IN  0 <= px /\ px <= 100 * out => a - slack <= back /\ back <= a + slack
=============================================================================
