-------------------------------- MODULE Rects ---------------------------------
(***************************************************************************)
(* Rectangles of a picture (protocol/src/lib.rs, Rect), the pictures they    *)
(* carry, and what the renderer uploads of them (FrameRenderer.kt).  A        *)
(* picture maps its pixels <<x, y>>, counted from the top left, to what they *)
(* show.                                                                    *)
(***************************************************************************)
EXTENDS Integers

Least(a, b)    == IF a <= b THEN a ELSE b
Greatest(a, b) == IF a >= b THEN a ELSE b

Rect(x, y, w, h) == [x |-> x, y |-> y, w |-> w, h |-> h]
EmptyRect        == Rect(0, 0, 0, 0)
Whole(size)      == Rect(0, 0, size.w, size.h)
Area(r)          == r.w * r.h
HasArea(r)       == r.w > 0 /\ r.h > 0

Inside(p, r) == /\ r.x <= p[1] /\ p[1] < r.x + r.w
                /\ r.y <= p[2] /\ p[2] < r.y + r.h
Within(r, size) == r.x + r.w <= size.w /\ r.y + r.h <= size.h

Pixels(size) == (0..(size.w - 1)) \X (0..(size.h - 1))

\* The common part of two rectangles; the empty one stands for None.
Intersect(a, b) ==
    LET x1 == Greatest(a.x, b.x)
        y1 == Greatest(a.y, b.y)
        x2 == Least(a.x + a.w, b.x + b.w)
        y2 == Least(a.y + a.h, b.y + b.h)
    IN  IF x2 > x1 /\ y2 > y1 THEN Rect(x1, y1, x2 - x1, y2 - y1) ELSE EmptyRect

(* The texture after a frame: its rectangles carry the rows of the canvas     *)
(* they were packed from; one that does not fit the display is skipped.       *)
Upload(tex, size, rects, canvas) ==
    [p \in DOMAIN tex |->
        IF \E r \in rects : Within(r, size) /\ Inside(p, r) THEN canvas[p] ELSE tex[p]]
=============================================================================
