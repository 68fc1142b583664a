------------------------------ MODULE TestSource ------------------------------
(***************************************************************************)
(* The test pattern (host/src/testsource.rs): a box and a square bounce       *)
(* inside the picture, a bar sweeps over it.  A frame damages the rectangles  *)
(* the elements leave and those they enter; the canvas is erased and redrawn *)
(* only there.                                                              *)
(***************************************************************************)
EXTENDS Rects

CONSTANTS
    Sizes,              \* sizes of the display
    BoxW, BoxH, SqS,    \* size of box and square (128 x 96, 32 in the code)
    BarW,               \* width of the bar (8)
    BoxDX, BoxDY,       \* steps of the box (7, 5)
    SqDX, SqDY,         \* steps of the square (-5, 8)
    BarStep,            \* step of the bar (4)
    FullEvery           \* frames from one full frame to the next, 0 = never

ASSUME PatternAssumption ==
    /\ Sizes \subseteq [w : Nat \ {0}, h : Nat \ {0}]
    /\ {BoxW, BoxH, SqS, BarW} \subseteq Nat \ {0}
    /\ {BoxDX, BoxDY, SqDX, SqDY} \subseteq Int
    /\ BarStep \in Nat /\ FullEvery \in Nat

VARIABLES
    size,           \* of the picture
    box, sq,        \* on each axis: where the element is, and its next step
    bar,            \* column of the bar
    first, tick,    \* no frame was made; frames made, modulo FullEvery
    canvas,         \* the picture
    rects           \* the rectangles of the frame made last

pattern == <<box, sq, bar>>
vars == <<size, pattern, first, tick, canvas, rects>>

Axis(at, by) == [at |-> at, by |-> by]

BoxSize == [w |-> Least(size.w, BoxW), h |-> Least(size.h, BoxH)]
SqSize  == Least(Least(SqS, size.w), size.h)

\* Fault: an element is cut off at the left and at the top only.
ClipFault(x, y, w, h) == Rect(Greatest(x, 0), Greatest(y, 0), w, h)

\* The part of an element that is in the picture.
Clip(x, y, w, h) ==
    LET x0 == Greatest(x, 0)
        y0 == Greatest(y, 0)
        x1 == Least(x + w, size.w)
        y1 == Least(y + h, size.h)
    IN  IF x1 <= x0 \/ y1 <= y0 THEN EmptyRect ELSE Rect(x0, y0, x1 - x0, y1 - y0)

(* The elements, the later ones painted over the earlier ones.               *)
Elements == <<Clip(box.x.at, box.y.at, BoxSize.w, BoxSize.h),
              Clip(sq.x.at, sq.y.at, SqSize, SqSize),
              Clip(bar, 0, BarW, size.h)>>

(* What a pixel shows that is covered by the elements S: 0 is the background. *)
Top(S) == CHOOSE i \in S \cup {0} : \A j \in S : j <= i

Scene(elements) ==
    [p \in Pixels(size) |-> Top({i \in 1..3 : Inside(p, elements[i])})]

Init ==
    /\ size \in Sizes
    /\ box = [x |-> Axis(size.w \div 3, BoxDX), y |-> Axis(size.h \div 3, BoxDY)]
    /\ sq  = [x |-> Axis(size.w \div 2, SqDX), y |-> Axis(size.h \div 2, SqDY)]
    /\ bar = 0
    /\ first = TRUE /\ tick = 0
    /\ canvas = [p \in Pixels(size) |-> 0]
    /\ rects = {}

\* Fault: the bar leaves the picture and does not come back.
NextBarFault == bar + BarStep

NextBar == (bar + BarStep) % Greatest(size.w - BarW, 1)

\* Fault: an element that leaves the picture is turned round where it is.
BounceFault(a, extent, room) ==
    LET n == a.at + a.by
    IN  IF n <= 0 \/ n + extent >= room THEN Axis(n, -a.by) ELSE Axis(n, a.by)

(* An element that reaches an edge stops there and turns round.              *)
Bounce(a, extent, room) ==
    LET n == a.at + a.by
    IN  IF n <= 0 \/ n + extent >= room
        THEN Axis(Greatest(0, Least(n, room - extent)), -a.by)
        ELSE Axis(n, a.by)

Advance ==
    /\ box' = [x |-> Bounce(box.x, BoxSize.w, size.w),
               y |-> Bounce(box.y, BoxSize.h, size.h)]
    /\ sq'  = [x |-> Bounce(sq.x, SqSize, size.w), y |-> Bounce(sq.y, SqSize, size.h)]
    /\ bar' = NextBar

\* Fault: what an element uncovers is not damaged.
DamagedFault(old, new) == {r \in {new[i] : i \in 1..3} : HasArea(r)}

Damaged(old, new) ==
    {r \in {old[i] : i \in 1..3} \cup {new[i] : i \in 1..3} : HasArea(r)}

(* First all rectangles are erased, then in each of them the elements are     *)
(* drawn in their order.  A rectangle a pixel is in draws on it whatever an   *)
(* earlier one drew there, so the topmost element that meets one remains.     *)
Painted(rs, elements) ==
    [p \in Pixels(size) |->
        IF \E r \in rs : Inside(p, r)
        THEN Top({i \in 1..3 : \E r \in rs : Inside(p, Intersect(r, elements[i]))})
        ELSE canvas[p]]

FullDue == first \/ (FullEvery > 0 /\ tick' = 0)

NextFrame ==
    /\ UNCHANGED size
    /\ Advance
    /\ first' = FALSE
    /\ tick' = IF FullEvery = 0 THEN 0 ELSE (tick + 1) % FullEvery
    /\ rects' = IF FullDue THEN {Whole(size)} ELSE Damaged(Elements, Elements')
    /\ canvas' = Painted(rects', Elements')

PatternSpec == Init /\ [][NextFrame]_vars

-----------------------------------------------------------------------------
(* Properties.                                                               *)

PatternTypeOK ==
    /\ size \in Sizes
    /\ box \in [x : [at : Int, by : Int], y : [at : Int, by : Int]]
    /\ sq \in [x : [at : Int, by : Int], y : [at : Int, by : Int]]
    /\ bar \in 0..(Greatest(size.w - BarW, 1) - 1)
    /\ first \in BOOLEAN /\ tick \in Nat
    /\ canvas \in [Pixels(size) -> 0..3]
    /\ rects \subseteq [x : Nat, y : Nat, w : Nat, h : Nat]

(* Repainting only the damage leaves the picture as if all of it had been     *)
(* painted: no trace of where an element was, also where elements overlap.    *)
PatternDrawn == ~first => canvas = Scene(Elements)

(* The renderer skips no rectangle of the pattern: each has an area and lies  *)
(* in the picture, also where an element is wider than the picture.           *)
RectsInside ==
    \A r \in rects : HasArea(r) /\ Within(r, size)

(* Once a frame was made, box and square are entirely in the picture, however *)
(* narrow it is: clamping and turning round never leave them outside.         *)
ElementsInside ==
    ~first =>
      /\ 0 <= box.x.at /\ box.x.at + BoxSize.w <= size.w
      /\ 0 <= box.y.at /\ box.y.at + BoxSize.h <= size.h
      /\ 0 <= sq.x.at /\ sq.x.at + SqSize <= size.w
      /\ 0 <= sq.y.at /\ sq.y.at + SqSize <= size.h

(* The pattern is drawn as it moves, and moves within the picture.            *)
PatternSafe == PatternTypeOK /\ PatternDrawn /\ ElementsInside
=============================================================================
