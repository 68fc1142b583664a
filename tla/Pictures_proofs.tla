--------------------------- MODULE Pictures_proofs ----------------------------
(***************************************************************************)
(* Theorems about what the phone shows: of the test pattern, for displays of   *)
(* every size and elements of every size and speed; of gnome's monitor, for    *)
(* streams of every size, tiles of every size and any two canvases.            *)
(***************************************************************************)
EXTENDS Pictures, TLAPS, FiniteSetTheorems, WellFoundedInduction

RectType == [x : Nat, y : Nat, w : Nat, h : Nat]
SizeType == [w : Nat \ {0}, h : Nat \ {0}]
Move     == [at : Int, by : Int]

(* A pixel is in the common part of two rectangles when it is in both.        *)
LEMMA InBoth ==
    ASSUME NEW a \in RectType, NEW b \in RectType, NEW p \in Int \X Int
    PROVE  Inside(p, Intersect(a, b)) <=> Inside(p, a) /\ Inside(p, b)
<1>1. p[1] \in Int /\ p[2] \in Int
  OBVIOUS
<1>2. a.x \in Nat /\ a.y \in Nat /\ a.w \in Nat /\ a.h \in Nat
  BY DEF RectType
<1>3. b.x \in Nat /\ b.y \in Nat /\ b.w \in Nat /\ b.h \in Nat
  BY DEF RectType
<1> QED
  BY <1>1, <1>2, <1>3
  DEF Inside, Intersect, Greatest, Least, Rect, EmptyRect

(* What is clipped lies in the picture.                                      *)
LEMMA Clipped ==
    ASSUME size \in SizeType,
           NEW x \in Int, NEW y \in Int, NEW w \in Int, NEW h \in Int
    PROVE  /\ Clip(x, y, w, h) \in RectType
           /\ Within(Clip(x, y, w, h), size)
<1>1. size.w \in Nat /\ size.h \in Nat
  BY DEF SizeType
<1> QED
  BY <1>1 DEF Clip, Within, Greatest, Least, Rect, EmptyRect, RectType

(* The topmost of some of the three elements is a level.                      *)
LEMMA TopLevel ==
    ASSUME NEW S \in SUBSET (1..3)
    PROVE  Top(S) \in 0..3
<1>1. \E i \in S \cup {0} : \A j \in S : j <= i
  <2>1. CASE 3 \in S
    BY <2>1
  <2>2. CASE 3 \notin S /\ 2 \in S
    BY <2>2
  <2>3. CASE 3 \notin S /\ 2 \notin S /\ 1 \in S
    BY <2>3
  <2>4. CASE S = {}
    BY <2>4
  <2> QED
    BY <2>1, <2>2, <2>3, <2>4
<1>2. Top(S) \in S \cup {0}
  BY <1>1 DEF Top
<1>3. S \cup {0} \subseteq 0..3
  OBVIOUS
<1> QED
  BY <1>2, <1>3

(* An element that bounces keeps its type, and is in the room it has.         *)
LEMMA Bounced ==
    ASSUME NEW a \in Move, NEW extent \in Nat, NEW room \in Nat, extent <= room
    PROVE  /\ Bounce(a, extent, room) \in Move
           /\ 0 <= Bounce(a, extent, room).at
           /\ Bounce(a, extent, room).at + extent <= room
<1>1. a.at \in Int /\ a.by \in Int
  BY DEF Move
<1> QED
  BY <1>1 DEF Bounce, Axis, Greatest, Least, Move

LEMMA Modulo ==
    ASSUME NEW n \in Nat, NEW k \in Nat \ {0}
    PROVE  n % k \in 0..(k - 1)
  OBVIOUS

-----------------------------------------------------------------------------
(* Typing.                                                                   *)

LEMMA Shapes ==
    ASSUME PatternTypeOK
    PROVE  /\ size \in SizeType
           /\ BoxSize.w \in Nat /\ BoxSize.h \in Nat /\ SqSize \in Nat
           /\ BoxSize.w <= size.w /\ BoxSize.h <= size.h
           /\ SqSize <= size.w /\ SqSize <= size.h
           /\ box.x \in Move /\ box.y \in Move /\ sq.x \in Move /\ sq.y \in Move
           /\ \A i \in 1..3 : Elements[i] \in RectType /\ Within(Elements[i], size)
<1>1. size \in SizeType
  BY PatternAssumption DEF PatternTypeOK, SizeType
<1>2. size.w \in Nat \ {0} /\ size.h \in Nat \ {0}
  BY <1>1 DEF SizeType
<1>3. /\ BoxSize.w \in Nat /\ BoxSize.h \in Nat /\ SqSize \in Nat
      /\ BoxSize.w <= size.w /\ BoxSize.h <= size.h
      /\ SqSize <= size.w /\ SqSize <= size.h
  BY <1>2, PatternAssumption DEF BoxSize, SqSize, Least
<1>4. box.x \in Move /\ box.y \in Move /\ sq.x \in Move /\ sq.y \in Move
  BY DEF PatternTypeOK, Move
<1>5. BarW \in Int /\ bar \in Int
  BY PatternAssumption DEF PatternTypeOK
<1>6. \A i \in 1..3 : Elements[i] \in RectType /\ Within(Elements[i], size)
  <2>1. Elements[1] \in RectType /\ Within(Elements[1], size)
    <3>1. box.x.at \in Int /\ box.y.at \in Int /\ BoxSize.w \in Int /\ BoxSize.h \in Int
      BY <1>3, <1>4 DEF Move
    <3> QED
      BY <1>1, <3>1, Clipped DEF Elements
  <2>2. Elements[2] \in RectType /\ Within(Elements[2], size)
    <3>1. sq.x.at \in Int /\ sq.y.at \in Int /\ SqSize \in Int
      BY <1>3, <1>4 DEF Move
    <3> QED
      BY <1>1, <3>1, Clipped DEF Elements
  <2>3. Elements[3] \in RectType /\ Within(Elements[3], size)
    <3>1. size.h \in Int /\ 0 \in Int
      BY <1>2
    <3> QED
      BY <1>1, <1>5, <3>1, Clipped DEF Elements
  <2> QED
    BY <2>1, <2>2, <2>3
<1> QED
  BY <1>1, <1>3, <1>4, <1>6

(* Scenes and painted canvases are canvases.                                 *)
LEMMA SceneType ==
    ASSUME NEW e
    PROVE  Scene(e) \in [Pixels(size) -> 0..3]
<1>1. ASSUME NEW p \in Pixels(size)
      PROVE  Top({i \in 1..3 : Inside(p, e[i])}) \in 0..3
  BY TopLevel
<1> QED
  BY <1>1 DEF Scene

LEMMA PaintedType ==
    ASSUME PatternTypeOK, NEW rs, NEW e
    PROVE  Painted(rs, e) \in [Pixels(size) -> 0..3]
<1>1. ASSUME NEW p \in Pixels(size)
      PROVE  (IF \E r \in rs : Inside(p, r)
              THEN Top({i \in 1..3 : \E r \in rs : Inside(p, Intersect(r, e[i]))})
              ELSE canvas[p]) \in 0..3
  <2>1. Top({i \in 1..3 : \E r \in rs : Inside(p, Intersect(r, e[i]))}) \in 0..3
    BY TopLevel
  <2>2. canvas[p] \in 0..3
    BY DEF PatternTypeOK
  <2> QED
    BY <2>1, <2>2
<1> QED
  BY <1>1 DEF Painted

(* After a step the elements have moved and are inside.                       *)
LEMMA Advanced ==
    ASSUME PatternTypeOK, NextFrame
    PROVE  /\ size' = size
           /\ box' \in [x : Move, y : Move] /\ sq' \in [x : Move, y : Move]
           /\ bar' \in 0..(Greatest(size.w - BarW, 1) - 1)
           /\ ElementsInside'
<1>1. size' = size /\ first' = FALSE /\ Advance
  BY DEF NextFrame
<1>2. size.w \in Nat \ {0} /\ size.h \in Nat \ {0}
  BY Shapes DEF SizeType
<1>3. box'.x = Bounce(box.x, BoxSize.w, size.w) /\ box'.y = Bounce(box.y, BoxSize.h, size.h)
  BY <1>1 DEF Advance
<1>4. sq'.x = Bounce(sq.x, SqSize, size.w) /\ sq'.y = Bounce(sq.y, SqSize, size.h)
  BY <1>1 DEF Advance
<1>5. /\ box'.x \in Move /\ 0 <= box'.x.at /\ box'.x.at + BoxSize.w <= size.w
      /\ box'.y \in Move /\ 0 <= box'.y.at /\ box'.y.at + BoxSize.h <= size.h
  BY <1>2, <1>3, Shapes, Bounced
<1>6. /\ sq'.x \in Move /\ 0 <= sq'.x.at /\ sq'.x.at + SqSize <= size.w
      /\ sq'.y \in Move /\ 0 <= sq'.y.at /\ sq'.y.at + SqSize <= size.h
  BY <1>2, <1>4, Shapes, Bounced
<1>7. BoxSize' = BoxSize /\ SqSize' = SqSize
  BY <1>1 DEF BoxSize, SqSize
<1>8. ElementsInside'
  BY <1>1, <1>5, <1>6, <1>7 DEF ElementsInside
<1>9. bar' \in 0..(Greatest(size.w - BarW, 1) - 1)
  <2>1. bar + BarStep \in Nat
    BY <1>2, PatternAssumption DEF PatternTypeOK
  <2>2. Greatest(size.w - BarW, 1) \in Nat \ {0}
    BY <1>2, PatternAssumption DEF Greatest
  <2>3. bar' = (bar + BarStep) % Greatest(size.w - BarW, 1)
    BY <1>1 DEF Advance, NextBar
  <2> QED
    BY <2>1, <2>2, <2>3, Modulo
<1>10. box' \in [x : Move, y : Move] /\ sq' \in [x : Move, y : Move]
  BY <1>1, <1>3, <1>4, <1>5, <1>6 DEF Advance
<1> QED
  BY <1>1, <1>8, <1>9, <1>10

(* The elements of the next state are rectangles of the same picture.         *)
LEMMA NewElements ==
    ASSUME PatternTypeOK, NextFrame
    PROVE  \A i \in 1..3 : Elements'[i] \in RectType /\ Within(Elements'[i], size)
<1>1. size' = size /\ size \in SizeType /\ size.h \in Int
  BY Advanced, Shapes DEF SizeType
<1>2. box'.x.at \in Int /\ box'.y.at \in Int /\ sq'.x.at \in Int /\ sq'.y.at \in Int
  BY Advanced DEF Move
<1>3. bar' \in Int /\ BarW \in Int
  BY Advanced, PatternAssumption
<1>4. BoxSize.w \in Int /\ BoxSize.h \in Int /\ SqSize \in Int
  BY Shapes
<1>5. BoxSize' = BoxSize /\ SqSize' = SqSize
  BY <1>1 DEF BoxSize, SqSize
<1>6. \A x, y, w, h : Clip(x, y, w, h)' = Clip(x, y, w, h)
  BY <1>1 DEF Clip
<1>7. Elements' = <<Clip(box'.x.at, box'.y.at, BoxSize.w, BoxSize.h),
                    Clip(sq'.x.at, sq'.y.at, SqSize, SqSize),
                    Clip(bar', 0, BarW, size.h)>>
  BY <1>1, <1>5, <1>6 DEF Elements, Clip
<1> QED
  BY <1>1, <1>2, <1>3, <1>4, <1>7, Clipped

-----------------------------------------------------------------------------
(* The rectangles of a frame.                                                *)

LEMMA FrameRects ==
    ASSUME PatternTypeOK, NextFrame
    PROVE  \A r \in rects' : r \in RectType /\ HasArea(r) /\ Within(r, size)
<1>1. rects' = {Whole(size)} \/ rects' = Damaged(Elements, Elements')
  BY DEF NextFrame
<1>2. CASE rects' = {Whole(size)}
  <2>1. size.w \in Nat \ {0} /\ size.h \in Nat \ {0}
    BY Shapes DEF SizeType
  <2> QED
    BY <1>2, <2>1 DEF Whole, Rect, HasArea, Within, RectType
<1>3. CASE rects' = Damaged(Elements, Elements')
  BY <1>3, Shapes, NewElements DEF Damaged
<1> QED
  BY <1>1, <1>2, <1>3

LEMMA TypeStep ==
    ASSUME PatternTypeOK, [NextFrame]_vars
    PROVE  PatternTypeOK'
<1>1. CASE UNCHANGED vars
  BY <1>1 DEF vars, pattern, PatternTypeOK, Pixels, Greatest
<1>2. CASE NextFrame
  <2>1. size' = size /\ first' = FALSE
    BY <1>2 DEF NextFrame
  <2>2. tick' \in Nat
    <3>1. CASE FullEvery = 0
      BY <1>2, <3>1 DEF NextFrame
    <3>2. CASE FullEvery # 0
      <4>1. tick + 1 \in Nat /\ FullEvery \in Nat \ {0}
        BY <3>2, PatternAssumption DEF PatternTypeOK
      <4>2. tick' = (tick + 1) % FullEvery
        BY <1>2, <3>2 DEF NextFrame
      <4>3. tick' \in 0..(FullEvery - 1)
        BY <4>1, <4>2, Modulo
      <4> QED
        BY <4>1, <4>3
    <3> QED
      BY <3>1, <3>2
  <2>3. canvas' \in [Pixels(size) -> 0..3]
    BY <1>2, PaintedType DEF NextFrame
  <2>4. rects' \subseteq RectType
    BY <1>2, FrameRects
  <2>5. /\ box' \in [x : Move, y : Move] /\ sq' \in [x : Move, y : Move]
        /\ bar' \in 0..(Greatest(size.w - BarW, 1) - 1)
    BY <1>2, Advanced
  <2> QED
    BY <2>1, <2>2, <2>3, <2>4, <2>5 DEF PatternTypeOK, RectType, Move, Pixels, Greatest
<1> QED
  BY <1>1, <1>2

LEMMA TypeInit ==
    ASSUME Init
    PROVE  PatternTypeOK
<1>1. size.w \in Nat \ {0} /\ size.h \in Nat \ {0} /\ size \in Sizes
  BY PatternAssumption DEF Init
<1>2. size.w \div 3 \in Int /\ size.h \div 3 \in Int /\ size.w \div 2 \in Int
      /\ size.h \div 2 \in Int
  BY <1>1
<1>3. BoxDX \in Int /\ BoxDY \in Int /\ SqDX \in Int /\ SqDY \in Int /\ BarW \in Nat
  BY PatternAssumption
<1>4. box \in [x : Move, y : Move] /\ sq \in [x : Move, y : Move]
  BY <1>2, <1>3 DEF Init, Axis, Move
<1>5. bar \in 0..(Greatest(size.w - BarW, 1) - 1)
  BY <1>1, <1>3 DEF Init, Greatest
<1>6. canvas \in [Pixels(size) -> 0..3]
  BY DEF Init
<1> QED
  BY <1>1, <1>4, <1>5, <1>6 DEF Init, PatternTypeOK, Move

(* PatternTypeOK: testsource.rs's fields keep their types, the bar its range,  *)
(* and the canvas shows nothing but the background and the three elements.    *)
THEOREM PatternTypeCorrect == PatternSpec => []PatternTypeOK
<1>1. Init => PatternTypeOK
  BY TypeInit
<1>2. PatternTypeOK /\ [NextFrame]_vars => PatternTypeOK'
  BY TypeStep
<1> QED
  BY <1>1, <1>2, PTL DEF PatternSpec

(* RectsInside: clip leaves no rectangle outside the picture, and an empty one *)
(* never reaches the frame.                                                 *)
THEOREM NoRectSkipped == PatternSpec => []RectsInside
<1>1. Init => RectsInside
  BY DEF Init, RectsInside
<1>2. PatternTypeOK /\ RectsInside /\ [NextFrame]_vars => RectsInside'
  <2> SUFFICES ASSUME PatternTypeOK, RectsInside, [NextFrame]_vars
               PROVE  RectsInside'
    OBVIOUS
  <2>1. CASE UNCHANGED vars
    BY <2>1 DEF vars, pattern, RectsInside
  <2>2. CASE NextFrame
    <3>1. size' = size
      BY <2>2 DEF NextFrame
    <3>2. \A r \in rects' : HasArea(r) /\ Within(r, size)
      BY <2>2, FrameRects
    <3> QED
      BY <3>1, <3>2 DEF RectsInside
  <2> QED
    BY <2>1, <2>2
<1> QED
  BY <1>1, <1>2, PatternTypeCorrect, PTL DEF PatternSpec

(* ElementsInside: whatever the speeds, also when a step is longer than the    *)
(* room an element has.                                                     *)
THEOREM NoElementLeaves == PatternSpec => []ElementsInside
<1>1. Init => ElementsInside
  BY DEF Init, ElementsInside
<1>2. PatternTypeOK /\ ElementsInside /\ [NextFrame]_vars => ElementsInside'
  <2> SUFFICES ASSUME PatternTypeOK, ElementsInside, [NextFrame]_vars
               PROVE  ElementsInside'
    OBVIOUS
  <2>1. CASE UNCHANGED vars
    BY <2>1 DEF vars, pattern, ElementsInside, BoxSize, SqSize
  <2>2. CASE NextFrame
    BY <2>2, Advanced
  <2> QED
    BY <2>1, <2>2
<1> QED
  BY <1>1, <1>2, PatternTypeCorrect, PTL DEF PatternSpec

-----------------------------------------------------------------------------
(* The picture.                                                              *)

(* Inside the rectangles, painting shows what is painted on top.              *)
LEMMA PaintedInside ==
    ASSUME PatternTypeOK, NEW rs, rs \subseteq RectType,
           NEW e, \A i \in 1..3 : e[i] \in RectType,
           NEW p \in Pixels(size), NEW r \in rs, Inside(p, r)
    PROVE  Painted(rs, e)[p] = Scene(e)[p]
<1>1. p \in Int \X Int
  BY Shapes DEF Pixels, SizeType
<1>2. ASSUME NEW i \in 1..3
      PROVE  (\E s \in rs : Inside(p, Intersect(s, e[i]))) <=> Inside(p, e[i])
  <2>1. Inside(p, Intersect(r, e[i])) <=> Inside(p, r) /\ Inside(p, e[i])
    BY <1>1, InBoth
  <2>2. \A s \in rs : Inside(p, Intersect(s, e[i])) => Inside(p, e[i])
    BY <1>1, InBoth
  <2> QED
    BY <2>1, <2>2
<1>3. {i \in 1..3 : \E s \in rs : Inside(p, Intersect(s, e[i]))}
        = {i \in 1..3 : Inside(p, e[i])}
  BY <1>2
<1> QED
  BY <1>3 DEF Painted, Scene

(* A pixel that is in none of the elements, old or new, stays background.      *)
LEMMA Untouched ==
    ASSUME NEW e, NEW f, NEW p \in Pixels(size),
           \A i \in 1..3 : ~Inside(p, e[i]) /\ ~Inside(p, f[i])
    PROVE  Scene(e)[p] = Scene(f)[p]
<1>1. {i \in 1..3 : Inside(p, e[i])} = {i \in 1..3 : Inside(p, f[i])}
  OBVIOUS
<1> QED
  BY <1>1 DEF Scene

(* PatternDrawn: painting the damage alone gives the whole picture, for every  *)
(* display, every size and speed of the elements and every overlap.  A pixel  *)
(* outside the damage is in no element before or after the step.              *)
THEOREM PictureIsScene == PatternSpec => []PatternDrawn
<1>1. Init => PatternDrawn
  BY DEF Init, PatternDrawn
<1>2. PatternTypeOK /\ PatternDrawn /\ [NextFrame]_vars => PatternDrawn'
  <2> SUFFICES ASSUME PatternTypeOK, PatternDrawn, [NextFrame]_vars
               PROVE  PatternDrawn'
    OBVIOUS
  <2>1. CASE UNCHANGED vars
    <3>1. Elements' = Elements /\ Pixels(size') = Pixels(size)
      BY <2>1 DEF vars, pattern, Elements, Clip, BoxSize, SqSize
    <3> QED
      BY <2>1, <3>1 DEF vars, pattern, PatternDrawn, Scene
  <2>2. CASE NextFrame
    <3>1. size' = size /\ canvas' = Painted(rects', Elements')
      BY <2>2 DEF NextFrame
    <3>2. rects' \subseteq RectType /\ \A i \in 1..3 : Elements'[i] \in RectType
      BY <2>2, FrameRects, NewElements
    <3>3. ASSUME NEW p \in Pixels(size)
          PROVE  canvas'[p] = Scene(Elements')[p]
      <4>1. CASE \E r \in rects' : Inside(p, r)
        BY <3>1, <3>2, <4>1, PaintedInside
      <4>2. CASE ~\E r \in rects' : Inside(p, r)
        <5>1. canvas'[p] = canvas[p]
          BY <3>1, <4>2 DEF Painted
        <5>2. p \in Int \X Int /\ Inside(p, Whole(size))
          BY Shapes DEF Pixels, SizeType, Inside, Whole, Rect
        <5>3. ~FullDue /\ rects' = Damaged(Elements, Elements')
          BY <2>2, <4>2, <5>2 DEF NextFrame
        <5>4. canvas = Scene(Elements)
          BY <5>3 DEF FullDue, PatternDrawn, PatternTypeOK
        <5>5. \A r \in RectType : Inside(p, r) => HasArea(r)
          BY <5>2 DEF Inside, HasArea, RectType
        <5>6. \A i \in 1..3 : Elements[i] \in RectType
          BY Shapes
        <5>7. \A i \in 1..3 : ~Inside(p, Elements[i]) /\ ~Inside(p, Elements'[i])
          BY <3>2, <4>2, <5>3, <5>5, <5>6 DEF Damaged
        <5>8. Scene(Elements)[p] = Scene(Elements')[p]
          BY <5>7, Untouched
        <5> QED
          BY <5>1, <5>4, <5>8
      <4> QED
        BY <4>1, <4>2
    <3>4. canvas' = Scene(Elements')
      <4>1. canvas' \in [Pixels(size) -> 0..3]
        BY <2>2, <3>1, PaintedType
      <4>2. Scene(Elements') \in [Pixels(size) -> 0..3]
        BY SceneType
      <4> QED
        BY <3>3, <4>1, <4>2
    <3>5. (canvas = Scene(Elements))'
      BY <3>1, <3>4 DEF Scene
    <3> QED
      BY <3>5 DEF PatternDrawn
  <2> QED
    BY <2>1, <2>2
<1> QED
  BY <1>1, <1>2, PatternTypeCorrect, PTL DEF PatternSpec

(* Fields, elements and picture of the pattern, on displays of every size.      *)
THEOREM PatternIsSafe == PatternSpec => []PatternSafe
  BY PatternTypeCorrect, PictureIsScene, NoElementLeaves, PTL DEF PatternSafe

-----------------------------------------------------------------------------
(* Numbers, and sets of rectangles that are taken apart from the last one.     *)

LEMMA LeastExists ==
    ASSUME NEW S \in SUBSET Nat, S # {}
    PROVE  \E i \in S : \A j \in S : i <= j
<1> DEFINE Less == OpToRel(<, Nat)
<1>1. \A x, y \in Nat : x < y => <<x, y>> \in Less
  BY DEF OpToRel
<1>2. IsWellFoundedOn(Less, Nat)
  BY NatLessThanWellFounded
<1> HIDE DEF Less
<1>3. PICK i \in S : \A j \in S : ~ (<<j, i>> \in Less)
  BY <1>2, WFMin
<1>4. i \in Nat
  OBVIOUS
<1>5. ASSUME NEW j \in S PROVE i <= j
  <2>1. j \in Nat /\ ~ (<<j, i>> \in Less)
    BY <1>3
  <2>2. ~ (j < i)
    BY <1>1, <1>4, <2>1
  <2> QED
    BY <1>4, <2>1, <2>2
<1> QED
  BY <1>5

LEMMA GreatestExists ==
    ASSUME NEW n \in Nat, NEW S \in SUBSET (0..n), S # {}
    PROVE  \E i \in S : \A j \in S : j <= i
<1> DEFINE Above == {b \in Nat : \A j \in S : j <= b}
<1>1. n \in Above
  OBVIOUS
<1>2. PICK b \in Above : \A c \in Above : b <= c
  <2> HIDE DEF Above
  <2>1. Above \subseteq Nat
    BY DEF Above
  <2> QED
    BY <1>1, <2>1, LeastExists
<1>3. b \in S
  <2> SUFFICES ASSUME b \notin S PROVE FALSE
    OBVIOUS
  <2>1. PICK j \in S : TRUE
    OBVIOUS
  <2>2. b - 1 \in Above
    BY <2>1
  <2> QED
    BY <1>2, <2>2
<1> QED
  BY <1>2, <1>3

(* A set of numbers that has 0 and with each number the next one has them all.  *)
LEMMA AllNumbers ==
    ASSUME NEW Q \in SUBSET Nat, 0 \in Q, \A n \in Q : n + 1 \in Q
    PROVE  Q = Nat
<1> SUFFICES ASSUME Nat \ Q # {} PROVE FALSE
  OBVIOUS
<1>1. PICK i \in Nat \ Q : \A j \in Nat \ Q : i <= j
  BY LeastExists
<1>2. i - 1 \in Nat /\ i - 1 \notin Nat \ Q
  BY <1>1
<1> QED
  BY <1>1, <1>2

(* Rectangles of a bounded picture.                                           *)
Box(m) == [x : 0..m, y : 0..m, w : 0..m, h : 0..m]

LEMMA BoxFinite ==
    ASSUME NEW m \in Nat
    PROVE  IsFiniteSet(Box(m))
<1> DEFINE I == 0..m
           A == (I \X I) \X (I \X I)
           f == [t \in A |-> Rect(t[1][1], t[1][2], t[2][1], t[2][2])]
<1>1. IsFiniteSet(I)
  BY FS_Interval
<1>2. IsFiniteSet(A)
  BY <1>1, FS_Product
<1>3. f \in Surjection(A, Box(m))
  <2>1. f \in [A -> Box(m)]
    BY DEF Rect, Box
  <2>2. ASSUME NEW r \in Box(m) PROVE \E t \in A : f[t] = r
    <3>1. <<<<r.x, r.y>>, <<r.w, r.h>>>> \in A /\ r = Rect(r.x, r.y, r.w, r.h)
      BY DEF Box, Rect
    <3>2. f[<<<<r.x, r.y>>, <<r.w, r.h>>>>] = r
      BY <3>1
    <3> QED
      BY <3>1, <3>2
  <2> QED
    BY <2>1, <2>2 DEF Surjection
<1> HIDE DEF f, A
<1> QED
  BY <1>2, <1>3, FS_Surjection

(* Of the rectangles of a picture one is the last in merge_vertical's order.    *)
LEMMA LastOf ==
    ASSUME NEW m \in Nat, NEW S \in SUBSET Box(m), S # {}
    PROVE  /\ SortedLast(S) \in S
           /\ \A s \in S : \/ s.x < SortedLast(S).x
                           \/ s.x = SortedLast(S).x /\ s.y <= SortedLast(S).y
<1> DEFINE X == {r.x : r \in S}
<1>1. X \in SUBSET (0..m) /\ X # {}
  BY DEF Box
<1>2. PICK x \in X : \A j \in X : j <= x
  <2> HIDE DEF X
  <2> QED
    BY <1>1, GreatestExists
<1> DEFINE Y == {r.y : r \in {q \in S : q.x = x}}
<1>3. Y \in SUBSET (0..m) /\ Y # {}
  BY DEF Box
<1>4. PICK y \in Y : \A j \in Y : j <= y
  <2> HIDE DEF Y
  <2> QED
    BY <1>3, GreatestExists
<1>5. PICK r \in S : r.x = x /\ r.y = y
  OBVIOUS
<1>6. \A s \in S : s.x < r.x \/ (s.x = r.x /\ s.y <= r.y)
  <2>1. \A s \in S : s.x \in Int /\ s.y \in Int
    BY DEF Box
  <2> QED
    BY <1>2, <1>4, <1>5, <2>1
<1> QED
  BY <1>6 DEF SortedLast

(* What holds of no rectangles, and of some if it does without their last one,  *)
(* holds of all.                                                            *)
LEMMA FromTheLast ==
    ASSUME NEW m \in Nat, NEW S \in SUBSET Box(m),
           NEW Q \in SUBSET (SUBSET S), {} \in Q,
           \A s \in SUBSET S : s # {} /\ s \ {SortedLast(s)} \in Q => s \in Q
    PROVE  S \in Q
<1> DEFINE N == {k \in Nat : \A s \in SUBSET S : Cardinality(s) = k => s \in Q}
<1>1. IsFiniteSet(S) /\ \A s \in SUBSET S : IsFiniteSet(s)
  BY BoxFinite, FS_Subset
<1>2. 0 \in N
  <2>1. \A s \in SUBSET S : Cardinality(s) = 0 => s = {}
    BY <1>1, FS_EmptySet
  <2> QED
    BY <2>1
<1>3. ASSUME NEW k \in N PROVE k + 1 \in N
  <2> SUFFICES ASSUME NEW s \in SUBSET S, Cardinality(s) = k + 1 PROVE s \in Q
    OBVIOUS
  <2>1. k \in Nat /\ \A q \in SUBSET S : Cardinality(q) = k => q \in Q
    OBVIOUS
  <2> HIDE DEF N
  <2>2. s # {} /\ s \in SUBSET Box(m) /\ IsFiniteSet(s)
    BY <1>1, <2>1, FS_EmptySet
  <2>3. SortedLast(s) \in s
    BY <2>2, LastOf
  <2> DEFINE q == s \ {SortedLast(s)}
  <2>4. Cardinality(q) = k
    <3>1. Cardinality(q) = Cardinality(s) - 1
      BY <2>2, <2>3, FS_RemoveElement
    <3>2. Cardinality(s) = k + 1
      OBVIOUS
    <3> HIDE DEF q
    <3> QED
      BY <2>1, <3>1, <3>2
  <2>5. q \in Q
    BY <2>1, <2>4
  <2> QED
    BY <2>2, <2>5
<1>4. N = Nat
  <2> HIDE DEF N
  <2>1. N \in SUBSET Nat
    BY DEF N
  <2> QED
    BY <1>2, <1>3, <2>1, AllNumbers
<1>5. Cardinality(S) \in N
  BY <1>1, <1>4, FS_CardinalityType
<1> QED
  BY <1>5

(* merge_vertical's pass: what it has made of all rectangles but the last one,  *)
(* and then of that one.                                                     *)
Merges(f, S) ==
    /\ f[{}] = <<>>
    /\ \A s \in SUBSET S : s # {} => f[s] = Join(f[s \ {SortedLast(s)}], SortedLast(s))

LEMMA MergeIs ==
    ASSUME NEW m \in Nat, NEW S \in SUBSET Box(m)
    PROVE  \E f : Merges(f, S) /\ MergeVertical(S) = Range(f[S])
<1> DEFINE Next1(g) == [s \in SUBSET S |->
                          IF s = {} THEN <<>>
                          ELSE LET x == SortedLast(s) IN Join(g[s \ {x}], x)]
           Good(g, k) == \A s \in SUBSET S : Cardinality(s) <= k => g[s] = Next1(g)[s]
           N == {k \in Nat : \E g : g = [s \in SUBSET S |-> g[s]] /\ Good(g, k)}
<1>1. IsFiniteSet(S) /\ \A s \in SUBSET S : IsFiniteSet(s) /\ Cardinality(s) \in Nat
  BY BoxFinite, FS_Subset, FS_CardinalityType
<1>2. 0 \in N
  <2> DEFINE g == [s \in SUBSET S |-> <<>>]
  <2>1. \A s \in SUBSET S : Cardinality(s) <= 0 => s = {}
    BY <1>1, FS_EmptySet
  <2>2. g = [s \in SUBSET S |-> g[s]] /\ Good(g, 0)
    BY <2>1
  <2> QED
    BY <2>2
<1>3. ASSUME NEW k \in N PROVE k + 1 \in N
  <2>1. PICK g : g = [s \in SUBSET S |-> g[s]] /\ Good(g, k)
    OBVIOUS
  <2> DEFINE h == Next1(g)
  <2>2. ASSUME NEW s \in SUBSET S, Cardinality(s) <= k + 1 PROVE h[s] = Next1(h)[s]
    <3>1. CASE s = {}
      BY <3>1
    <3>2. CASE s # {}
      <4> DEFINE x == SortedLast(s)
      <4>1. x \in s
        BY <3>2, LastOf
      <4>2. s \ {x} \in SUBSET S /\ Cardinality(s \ {x}) <= k
        BY <1>1, <2>2, <4>1, FS_RemoveElement
      <4>3. g[s \ {x}] = h[s \ {x}]
        BY <2>1, <4>2
      <4> QED
        BY <3>2, <4>2, <4>3
    <3> QED
      BY <3>1, <3>2
  <2>3. h = [s \in SUBSET S |-> h[s]] /\ Good(h, k + 1)
    BY <2>2
  <2>4. k + 1 \in Nat
    OBVIOUS
  <2> HIDE DEF h, Good
  <2> QED
    BY <2>3, <2>4
<1>4. N = Nat
  <2> HIDE DEF N
  <2>1. N \in SUBSET Nat
    BY DEF N
  <2> QED
    BY <1>2, <1>3, <2>1, AllNumbers
<1>5. PICK g : g = [s \in SUBSET S |-> g[s]] /\ Good(g, Cardinality(S))
  BY <1>1, <1>4
<1>6. \A s \in SUBSET S : Cardinality(s) <= Cardinality(S)
  BY <1>1, FS_Subset
<1>7. g = Next1(g)
  BY <1>5, <1>6
<1> DEFINE f == CHOOSE f : f = Next1(f)
<1>8. f = Next1(f)
  BY <1>7
<1>9. MergeVertical(S) = Range(f[S])
  BY DEF MergeVertical, MapThenFoldSet
<1>10. Merges(f, S)
  <2> HIDE DEF f
  <2> QED
    BY <1>8 DEF Merges
<1> QED
  BY <1>9, <1>10

-----------------------------------------------------------------------------
(* Merging.                                                                  *)

(* Rectangles that have an area each and no pixel in common.                   *)
Apart(S) == /\ \A r \in S : HasArea(r)
            /\ \A p \in Int \X Int : \A r, s \in S : Inside(p, r) /\ Inside(p, s) => r = s

LEMMA Sides ==
    ASSUME NEW r \in RectType
    PROVE  r.x \in Nat /\ r.y \in Nat /\ r.w \in Nat /\ r.h \in Nat
BY DEF RectType

(* What merge_vertical has made of the rectangles S: it covers the same pixels,  *)
(* each once, begins each rectangle where one of S begins, goes by column, then  *)
(* row, and has no two that could be one.                                      *)
Covers(out, S) == \A p \in Int \X Int :
    (\E i \in 1..Len(out) : Inside(p, out[i])) <=> (\E r \in S : Inside(p, r))

Begun(out, S) == \A i \in 1..Len(out) :
    HasArea(out[i]) /\ \E r \in S : r.x = out[i].x /\ r.y = out[i].y

Once(out) == \A p \in Int \X Int : \A i, j \in 1..Len(out) :
    Inside(p, out[i]) /\ Inside(p, out[j]) => i = j

ByColumn(out) == \A i, j \in 1..Len(out) : i < j =>
    \/ out[i].x < out[j].x
    \/ out[i].x = out[j].x /\ out[i].y + out[i].h <= out[j].y

NoneAdjoin(out) == \A i, j \in 1..Len(out) : ~Adjoin(out[i], out[j])

Pile(out, S) == /\ out \in Seq(RectType)
                /\ Covers(out, S) /\ Begun(out, S) /\ Once(out)
                /\ ByColumn(out) /\ NoneAdjoin(out)

(* All rectangles of a pile come before this one, and none has a pixel of it.   *)
Ahead(out, r) == \A i \in 1..Len(out) :
    /\ out[i] \in RectType /\ HasArea(out[i])
    /\ \A p \in Int \X Int : ~(Inside(p, r) /\ Inside(p, out[i]))
    /\ \/ out[i].x < r.x
       \/ out[i].x = r.x /\ out[i].y < r.y /\ out[i].y + out[i].h <= r.y

(* The last rectangle of some comes after all of what was made of the others.   *)
LEMMA LastIsAfter ==
    ASSUME NEW m \in Nat, NEW S \in SUBSET Box(m), S # {}, Apart(S),
           NEW r, r = SortedLast(S), NEW out, Pile(out, S \ {r})
    PROVE  r \in S /\ r \in RectType /\ HasArea(r) /\ Ahead(out, r)
<1>1. /\ r \in S
      /\ \A s \in S : s.x < r.x \/ (s.x = r.x /\ s.y <= r.y)
  BY LastOf
<1>2. \A s \in S : s \in RectType /\ HasArea(s)
  BY DEF Box, RectType, Apart
<1>3. \A i \in 1..Len(out) : out[i] \in RectType /\ HasArea(out[i])
  BY DEF Pile, Begun
<1>4. ASSUME NEW i \in 1..Len(out), NEW p \in Int \X Int, Inside(p, r) PROVE ~Inside(p, out[i])
  <2>1. \A s \in S \ {r} : ~Inside(p, s)
    BY <1>1, <1>4 DEF Apart
  <2> QED
    BY <2>1 DEF Pile, Covers
<1>5. ASSUME NEW i \in 1..Len(out)
      PROVE  \/ out[i].x < r.x
             \/ out[i].x = r.x /\ out[i].y < r.y /\ out[i].y + out[i].h <= r.y
  <2>1. /\ out[i].x \in Nat /\ out[i].y \in Nat /\ out[i].w \in Nat /\ out[i].h \in Nat
        /\ out[i].w > 0 /\ out[i].h > 0
    BY <1>3 DEF RectType, HasArea
  <2>2. /\ r.x \in Nat /\ r.y \in Nat /\ r.w \in Nat /\ r.h \in Nat /\ r.w > 0 /\ r.h > 0
    BY <1>1, <1>2 DEF RectType, HasArea
  <2>3. PICK s \in S : s.x = out[i].x /\ s.y = out[i].y
    BY DEF Pile, Begun
  <2>4. out[i].x < r.x \/ (out[i].x = r.x /\ out[i].y <= r.y)
    BY <1>1, <2>3
  <2> DEFINE p == <<r.x, r.y>>
  <2>5. p \in Int \X Int /\ Inside(p, r)
    BY <2>2 DEF Inside
  <2>6. ~Inside(p, out[i])
    BY <1>4, <2>5
  <2>7. out[i].x = r.x /\ out[i].y <= r.y => out[i].y + out[i].h <= r.y
    BY <2>1, <2>2, <2>6 DEF Inside
  <2> QED
    BY <2>1, <2>2, <2>4, <2>7
<1> QED
  BY <1>1, <1>2, <1>3, <1>4, <1>5 DEF Ahead

LEMMA JoinAppends ==
    ASSUME NEW m \in Nat, NEW S \in SUBSET Box(m), S # {}, Apart(S),
           NEW r, r = SortedLast(S), NEW out, Pile(out, S \ {r}),
           out # <<>> => LET last == out[Len(out)]
                         IN  ~(last.x = r.x /\ last.w = r.w /\ last.y + last.h = r.y)
    PROVE  Pile(Append(out, r), S)
<1>0. r \in S /\ r \in RectType /\ HasArea(r) /\ Ahead(out, r)
  BY LastIsAfter, Zenon
<1> DEFINE n == Len(out)
           e == Append(out, r)
<1>1. /\ r \in S /\ r \in RectType /\ HasArea(r)
      /\ \A i \in 1..n : /\ out[i] \in RectType /\ HasArea(out[i])
                         /\ \A p \in Int \X Int : ~(Inside(p, r) /\ Inside(p, out[i]))
                         /\ \/ out[i].x < r.x
                            \/ /\ out[i].x = r.x /\ out[i].y < r.y
                               /\ out[i].y + out[i].h <= r.y
  BY <1>0 DEF Ahead
<1>2. /\ e \in Seq(RectType) /\ Len(e) = n + 1 /\ n \in Nat /\ e[n+1] = r
      /\ \A i \in 1..n : e[i] = out[i]
  BY <1>1 DEF Pile
<1>3. n > 0 => ~(out[n].x = r.x /\ out[n].w = r.w /\ out[n].y + out[n].h = r.y)
  BY DEF Pile
<1> HIDE DEF e
<1>4. 1..Len(e) = 1..n \cup {n+1} /\ n+1 \notin 1..n
  BY <1>2
<1> HIDE DEF n
<1>5. Covers(e, S)
  <2>1. ASSUME NEW p \in Int \X Int
        PROVE  (\E i \in 1..Len(e) : Inside(p, e[i])) <=> (\E s \in S : Inside(p, s))
    <3>1. (\E i \in 1..n : Inside(p, out[i])) <=> (\E s \in S \ {r} : Inside(p, s))
      BY DEF Pile, Covers, n
    <3> QED
      BY <1>1, <1>2, <1>4, <3>1
  <2> QED
    BY <2>1 DEF Covers
<1>6. Begun(e, S)
  <2>1. \A i \in 1..n : HasArea(out[i]) /\ \E s \in S : s.x = out[i].x /\ s.y = out[i].y
    BY DEF Pile, Begun, n
  <2> QED
    BY <1>1, <1>2, <1>4, <2>1 DEF Begun
<1>7. Once(e)
  <2>1. \A p \in Int \X Int : \A i, j \in 1..n : Inside(p, out[i]) /\ Inside(p, out[j]) => i = j
    BY DEF Pile, Once, n
  <2> QED
    BY <1>1, <1>2, <1>4, <2>1 DEF Once
<1>8. \A i, j \in 1..n : i < j =>
        \/ out[i].x < out[j].x
        \/ out[i].x = out[j].x /\ out[i].y + out[i].h <= out[j].y
  BY DEF Pile, ByColumn, n
<1>9. ByColumn(e)
  <2>1. ASSUME NEW i \in 1..Len(e), NEW j \in 1..Len(e), i < j
        PROVE  \/ e[i].x < e[j].x
               \/ e[i].x = e[j].x /\ e[i].y + e[i].h <= e[j].y
    <3>1. i \in 1..n /\ e[i] = out[i]
      BY <1>2, <2>1
    <3>2. CASE j \in 1..n
      BY <1>2, <1>8, <2>1, <3>1, <3>2
    <3>3. CASE j = n+1
      BY <1>1, <1>2, <3>1, <3>3
    <3> QED
      BY <1>4, <3>2, <3>3
  <2> QED
    BY <2>1 DEF ByColumn
<1>10. NoneAdjoin(e)
  <2>1. \A i, j \in 1..n : ~Adjoin(out[i], out[j])
    BY DEF Pile, NoneAdjoin, n
  <2>2. ASSUME NEW i \in 1..n PROVE ~Adjoin(out[i], r) /\ ~Adjoin(r, out[i])
    <3> n \in 1..n
      BY <1>2
    <3>1. /\ out[i].x \in Nat /\ out[i].y \in Nat /\ out[i].h \in Nat
          /\ out[n].x \in Nat /\ out[n].y \in Nat /\ out[n].h \in Nat
          /\ r.x \in Nat /\ r.y \in Nat /\ r.h \in Nat
      BY <1>1, Sides
    <3>2. CASE i = n
      <4>1. out[n].x < r.x \/ (out[n].x = r.x /\ out[n].y < r.y)
        BY <1>1
      <4>2. ~Adjoin(out[n], r)
        BY <1>2, <1>3 DEF Adjoin
      <4>3. ~Adjoin(r, out[n])
        BY <3>1, <4>1 DEF Adjoin
      <4> QED
        BY <3>2, <4>2, <4>3
    <3>3. CASE i < n
      <4>1. \/ out[i].x < out[n].x
            \/ out[i].x = out[n].x /\ out[i].y + out[i].h <= out[n].y
        BY <1>8, <3>1, <3>3
      <4>2. out[n].x < r.x \/ (out[n].x = r.x /\ out[n].y < r.y)
        BY <1>1, <3>1
      <4>3. out[i].x < r.x \/ (out[i].x = r.x /\ out[i].y < r.y)
        BY <1>1
      <4> QED
        BY <3>1, <4>1, <4>2, <4>3 DEF Adjoin
    <3> QED
      BY <1>2, <3>2, <3>3
  <2>3. ~Adjoin(r, r)
    BY <1>1 DEF Adjoin, HasArea, RectType
  <2> QED
    BY <1>2, <1>4, <2>1, <2>2, <2>3 DEF NoneAdjoin
<1> QED
  BY <1>2, <1>5, <1>6, <1>7, <1>9, <1>10 DEF Pile, e

(* A rectangle with the one below it.                                         *)
LEMMA Extended ==
    ASSUME NEW l \in RectType, NEW r \in RectType,
           l.x = r.x, l.w = r.w, l.y + l.h = r.y
    PROVE  LET k == [l EXCEPT !.h = @ + r.h]
           IN  /\ k \in RectType /\ k.x = l.x /\ k.y = l.y /\ k.w = l.w /\ k.h = l.h + r.h
               /\ \A p \in Int \X Int : Inside(p, k) <=> Inside(p, l) \/ Inside(p, r)
<1> DEFINE h == l.h + r.h
           k == [l EXCEPT !.h = h]
<1>1. /\ l.x \in Nat /\ l.y \in Nat /\ l.w \in Nat /\ l.h \in Nat
      /\ r.x \in Nat /\ r.y \in Nat /\ r.w \in Nat /\ r.h \in Nat
  BY DEF RectType
<1>2. h \in Nat
  BY <1>1
<1>3. k \in RectType /\ k.x = l.x /\ k.y = l.y /\ k.w = l.w /\ k.h = h
  BY <1>2 DEF RectType
<1>4. \A p \in Int \X Int : p[1] \in Int /\ p[2] \in Int
  OBVIOUS
<1>5. k = [l EXCEPT !.h = @ + r.h]
  OBVIOUS
<1> HIDE DEF k
<1>6. \A p \in Int \X Int : Inside(p, k) <=> Inside(p, l) \/ Inside(p, r)
  BY <1>1, <1>3, <1>4 DEF Inside
<1> QED
  BY <1>3, <1>5, <1>6

LEMMA JoinExtends ==
    ASSUME NEW m \in Nat, NEW S \in SUBSET Box(m), S # {}, Apart(S),
           NEW r, r = SortedLast(S), NEW out, Pile(out, S \ {r}), out # <<>>,
           out[Len(out)].x = r.x, out[Len(out)].w = r.w,
           out[Len(out)].y + out[Len(out)].h = r.y
    PROVE  Pile([out EXCEPT ![Len(out)].h = @ + r.h], S)
<1>0. r \in S /\ r \in RectType /\ HasArea(r) /\ Ahead(out, r)
  BY LastIsAfter, Zenon
<1> DEFINE n == Len(out)
           k == [out[n] EXCEPT !.h = @ + r.h]
           e == [out EXCEPT ![n] = k]
<1>1. /\ r \in S /\ r \in RectType /\ HasArea(r)
      /\ \A i \in 1..n : /\ out[i] \in RectType /\ HasArea(out[i])
                         /\ \A p \in Int \X Int : ~(Inside(p, r) /\ Inside(p, out[i]))
                         /\ \/ out[i].x < r.x
                            \/ /\ out[i].x = r.x /\ out[i].y < r.y
                               /\ out[i].y + out[i].h <= r.y
  BY <1>0 DEF Ahead
<1>2. out \in Seq(RectType) /\ n \in Nat /\ n \in 1..n /\ out[n] \in RectType
  BY <1>1 DEF Pile
<1>3. /\ k \in RectType /\ k.x = out[n].x /\ k.y = out[n].y /\ k.w = out[n].w
      /\ k.h = out[n].h + r.h
      /\ \A p \in Int \X Int : Inside(p, k) <=> Inside(p, out[n]) \/ Inside(p, r)
  BY <1>1, <1>2, Extended
<1> HIDE DEF k
<1>4. /\ e \in Seq(RectType) /\ Len(e) = n /\ e[n] = k
      /\ \A i \in 1..n : i # n => e[i] = out[i]
  BY <1>2, <1>3
<1> HIDE DEF e, n
<1>5. ASSUME NEW i \in 1..n
      PROVE  /\ e[i] \in RectType /\ HasArea(e[i])
             /\ e[i].x = out[i].x /\ e[i].y = out[i].y /\ e[i].w = out[i].w
  <2>1. CASE i # n
    BY <1>1, <1>4, <2>1
  <2>2. CASE i = n
    <3>1. out[n].h \in Nat /\ r.h \in Nat /\ HasArea(out[n])
      BY <1>1, <1>2, Sides
    <3> QED
      BY <1>3, <1>4, <2>2, <3>1 DEF HasArea
  <2> QED
    BY <2>1, <2>2
<1>6. \A p \in Int \X Int : \A i \in 1..n :
        Inside(p, e[i]) <=> \/ Inside(p, out[i])
                            \/ i = n /\ Inside(p, r)
  BY <1>3, <1>4
<1>7. Covers(e, S)
  <2>1. ASSUME NEW p \in Int \X Int
        PROVE  (\E i \in 1..Len(e) : Inside(p, e[i])) <=> (\E s \in S : Inside(p, s))
    <3>1. (\E i \in 1..n : Inside(p, out[i])) <=> (\E s \in S \ {r} : Inside(p, s))
      BY DEF Pile, Covers, n
    <3> QED
      BY <1>1, <1>2, <1>4, <1>6, <3>1
  <2> QED
    BY <2>1 DEF Covers
<1>8. Begun(e, S)
  <2>1. \A i \in 1..n : \E s \in S : s.x = out[i].x /\ s.y = out[i].y
    BY DEF Pile, Begun, n
  <2> QED
    BY <1>4, <1>5, <2>1 DEF Begun
<1>9. Once(e)
  <2>1. \A p \in Int \X Int : \A i, j \in 1..n : Inside(p, out[i]) /\ Inside(p, out[j]) => i = j
    BY DEF Pile, Once, n
  <2> QED
    BY <1>1, <1>2, <1>4, <1>6, <2>1 DEF Once
<1>10. \A i, j \in 1..n : i < j =>
        \/ out[i].x < out[j].x
        \/ out[i].x = out[j].x /\ out[i].y + out[i].h <= out[j].y
  BY DEF Pile, ByColumn, n
<1>11. ByColumn(e)
  <2>1. ASSUME NEW i \in 1..n, NEW j \in 1..n, i < j
        PROVE  \/ e[i].x < e[j].x
               \/ e[i].x = e[j].x /\ e[i].y + e[i].h <= e[j].y
    <3>1. i # n
      BY <1>2, <2>1
    <3>2. e[i] = out[i] /\ e[j].x = out[j].x /\ e[j].y = out[j].y
      BY <1>4, <1>5, <3>1
    <3> QED
      BY <1>10, <2>1, <3>2
  <2> QED
    BY <1>4, <2>1 DEF ByColumn
<1>12. NoneAdjoin(e)
  <2>1. \A i, j \in 1..n : ~Adjoin(out[i], out[j])
    BY DEF Pile, NoneAdjoin, n
  <2>2. ASSUME NEW i \in 1..n, NEW j \in 1..n PROVE ~Adjoin(e[i], e[j])
    <3>1. CASE i # n
      <4>1. e[i] = out[i] /\ e[j].x = out[j].x /\ e[j].y = out[j].y /\ e[j].w = out[j].w
        BY <1>4, <1>5, <3>1
      <4> QED
        BY <2>1, <4>1 DEF Adjoin
    <3>2. CASE i = n
      <4>1. /\ e[i].x = r.x /\ e[i].y + e[i].h = r.y + r.h
            /\ e[j].x = out[j].x /\ e[j].y = out[j].y
        <5>1. out[n].y \in Nat /\ out[n].h \in Nat /\ r.h \in Nat
          BY <1>1, <1>2, Sides
        <5>2. out[n].x = r.x /\ out[n].y + out[n].h = r.y
          BY DEF n
        <5> QED
          BY <1>3, <1>4, <1>5, <3>2, <5>1, <5>2
      <4>2. out[j].y \in Nat /\ out[j].x \in Nat /\ r.x \in Nat /\ r.y \in Nat /\ r.h \in Nat
        BY <1>1, Sides
      <4>3. out[j].x = r.x => out[j].y < r.y
        BY <1>1, <4>2
      <4> QED
        BY <4>1, <4>2, <4>3 DEF Adjoin
    <3> QED
      BY <3>1, <3>2
  <2> QED
    BY <1>4, <2>2 DEF NoneAdjoin
<1> QED
  BY <1>4, <1>7, <1>8, <1>9, <1>11, <1>12 DEF Pile, e, k, n

(* merge_vertical, of rectangles that are apart.                               *)
LEMMA MergedIs ==
    ASSUME NEW m \in Nat, NEW S \in SUBSET Box(m), Apart(S)
    PROVE  \E out : Pile(out, S) /\ MergeVertical(S) = Range(out)
<1>1. PICK f : Merges(f, S) /\ MergeVertical(S) = Range(f[S])
  BY MergeIs
<1> DEFINE Q == {s \in SUBSET S : Pile(f[s], s)}
<1>2. {} \in Q
  <2>1. f[{}] = <<>>
    BY <1>1 DEF Merges
  <2>2. Pile(<<>>, {})
    BY DEF Pile, Covers, Begun, Once, ByColumn, NoneAdjoin
  <2> QED
    BY <2>1, <2>2
<1>3. ASSUME NEW s \in SUBSET S, s # {}, s \ {SortedLast(s)} \in Q PROVE s \in Q
  <2> DEFINE r == SortedLast(s)
             out == f[s \ {r}]
  <2>1. Pile(out, s \ {r}) /\ f[s] = Join(out, r)
    BY <1>1, <1>3 DEF Merges
  <2>2. s \in SUBSET Box(m) /\ Apart(s)
    BY DEF Apart
  <2> HIDE DEF out, r
  <2>3. r = SortedLast(s)
    BY DEF r
  <2>4. CASE /\ out # <<>> /\ out[Len(out)].x = r.x /\ out[Len(out)].w = r.w
             /\ out[Len(out)].y + out[Len(out)].h = r.y
    <3>1. Join(out, r) = [out EXCEPT ![Len(out)].h = @ + r.h]
      BY <2>4 DEF Join
    <3>2. Pile([out EXCEPT ![Len(out)].h = @ + r.h], s)
      BY <1>3, <2>1, <2>2, <2>3, <2>4, JoinExtends
    <3> QED
      BY <2>1, <3>1, <3>2
  <2>5. CASE ~ /\ out # <<>> /\ out[Len(out)].x = r.x /\ out[Len(out)].w = r.w
               /\ out[Len(out)].y + out[Len(out)].h = r.y
    <3>1. Join(out, r) = Append(out, r)
      BY <2>5 DEF Join
    <3>2. Pile(Append(out, r), s)
      BY <1>3, <2>1, <2>2, <2>3, <2>5, JoinAppends
    <3> QED
      BY <2>1, <3>1, <3>2
  <2> QED
    BY <2>4, <2>5
<1>4. S \in Q
  <2> HIDE DEF Q
  <2>1. Q \in SUBSET (SUBSET S)
    BY DEF Q
  <2> QED
    BY <1>2, <1>3, <2>1, FromTheLast
<1> QED
  BY <1>1, <1>4

-----------------------------------------------------------------------------
(* Tiles.                                                                    *)

LEMMA Product ==
    ASSUME NEW a \in Nat, NEW b \in Nat, NEW k \in Nat
    PROVE  /\ a * k \in Nat
           /\ a <= b => a * k <= b * k
           /\ a < b => a * k + k <= b * k
OBVIOUS

LEMMA Quotient ==
    ASSUME NEW n \in Nat, NEW k \in Nat \ {0}
    PROVE  n \div k \in Nat /\ (n \div k) * k <= n /\ n < (n \div k) * k + k
OBVIOUS

(* The tile a column or row is in.                                            *)
LEMMA TileOf ==
    ASSUME NEW n \in Nat, NEW t \in Nat
    PROVE  n \div TILE = t <=> t * TILE <= n /\ n < t * TILE + TILE
<1> DEFINE q == n \div TILE
<1>1. TILE \in Nat \ {0}
  BY DamageAssumption
<1>2. q \in Nat /\ q * TILE <= n /\ n < q * TILE + TILE
  BY <1>1, Quotient
<1> HIDE DEF q
<1>3. /\ t * TILE \in Nat /\ q * TILE \in Nat
      /\ t < q => t * TILE + TILE <= q * TILE
      /\ q < t => q * TILE + TILE <= t * TILE
  BY <1>1, <1>2, Product
<1>4. q = t <=> t * TILE <= n /\ n < t * TILE + TILE
  BY <1>1, <1>2, <1>3
<1> QED
  BY <1>4 DEF q

(* The tiles of an edge cover it, and each begins on it.                       *)
LEMMA Tiles ==
    ASSUME NEW n \in Nat \ {0}
    PROVE  /\ TilesIn(n) \in Nat \ {0} /\ n <= TilesIn(n) * TILE
           /\ \A t \in 0..(TilesIn(n) - 1) : t * TILE < n
           /\ \A i \in 0..(n - 1) : i \div TILE \in 0..(TilesIn(n) - 1)
<1> DEFINE q == (n + TILE - 1) \div TILE
<1>1. TILE \in Nat \ {0} /\ n + TILE - 1 \in Nat
  BY DamageAssumption
<1>2. q \in Nat /\ q * TILE <= n + TILE - 1 /\ n + TILE - 1 < q * TILE + TILE
  BY <1>1, Quotient
<1> HIDE DEF q
<1>3. q * TILE \in Nat /\ n <= q * TILE
  BY <1>1, <1>2, Product
<1>4. q # 0
  <2>1. 0 * TILE = 0
    BY <1>1
  <2> QED
    BY <1>3, <2>1
<1>5. ASSUME NEW t \in 0..(q - 1) PROVE t * TILE < n
  <2>1. t \in Nat /\ t < q
    BY <1>2
  <2>2. t * TILE \in Nat /\ t * TILE + TILE <= q * TILE
    BY <1>1, <1>2, <2>1, Product
  <2> QED
    BY <1>1, <1>2, <1>3, <2>2
<1>6. ASSUME NEW i \in 0..(n - 1) PROVE i \div TILE \in 0..(q - 1)
  <2> DEFINE d == i \div TILE
  <2>1. d \in Nat /\ d * TILE <= i
    BY <1>1, Quotient
  <2> HIDE DEF d
  <2>2. q <= d => q * TILE <= d * TILE
    BY <1>1, <1>2, <2>1, Product
  <2>3. d * TILE \in Nat
    BY <1>1, <2>1, Product
  <2>4. d \in 0..(q - 1)
    BY <1>2, <1>3, <2>1, <2>2, <2>3
  <2> QED
    BY <2>4 DEF d
<1> QED
  BY <1>2, <1>3, <1>4, <1>5, <1>6 DEF TilesIn, q

LEMMA TilePixels ==
    ASSUME NEW sz \in SizeType, NEW tx \in Nat, NEW ty \in Nat, NEW p \in Int \X Int
    PROVE  Inside(p, TileRect(sz, tx, ty)) <=>
             p \in Pixels(sz) /\ p[1] \div TILE = tx /\ p[2] \div TILE = ty
<1>1. /\ sz.w \in Nat \ {0} /\ sz.h \in Nat \ {0} /\ p[1] \in Int /\ p[2] \in Int
      /\ p = <<p[1], p[2]>> /\ TILE \in Nat \ {0}
  BY DamageAssumption DEF SizeType
<1> DEFINE x == tx * TILE
           y == ty * TILE
<1>2. x \in Nat /\ y \in Nat
  BY <1>1, Product
<1>3. /\ p[1] \in Nat => (p[1] \div TILE = tx <=> x <= p[1] /\ p[1] < x + TILE)
      /\ p[2] \in Nat => (p[2] \div TILE = ty <=> y <= p[2] /\ p[2] < y + TILE)
  BY TileOf
<1>4. p \in Pixels(sz) <=> p[1] \in 0..(sz.w - 1) /\ p[2] \in 0..(sz.h - 1)
  BY <1>1 DEF Pixels
<1>5. TileRect(sz, tx, ty) = Rect(x, y, Least(sz.w - x, TILE), Least(sz.h - y, TILE))
  BY DEF TileRect
<1> HIDE DEF x, y
<1> QED
  BY <1>1, <1>2, <1>3, <1>4, <1>5 DEF Inside, Rect, Least

(* The rectangle of the tiles from a to b, without b, in a row.                *)
RunRect(sz, a, b, ty) ==
    Rect(a * TILE, ty * TILE, Least(b * TILE, sz.w) - a * TILE, TileRect(sz, a, ty).h)

LEMMA RunPixels ==
    ASSUME NEW sz \in SizeType, NEW ty \in 0..(TilesIn(sz.h) - 1),
           NEW a \in Nat, NEW b \in Nat, a < b, b <= TilesIn(sz.w)
    PROVE  /\ RunRect(sz, a, b, ty) \in Box(sz.w + sz.h)
           /\ HasArea(RunRect(sz, a, b, ty))
           /\ \A p \in Int \X Int : Inside(p, RunRect(sz, a, b, ty)) <=>
                /\ p \in Pixels(sz)
                /\ p[1] \div TILE \in a..(b - 1) /\ p[2] \div TILE = ty
<1>1. /\ sz.w \in Nat \ {0} /\ sz.h \in Nat \ {0} /\ TILE \in Nat \ {0} /\ ty \in Nat
  BY DamageAssumption, Tiles DEF SizeType
<1> DEFINE x == a * TILE
           z == b * TILE
           y == ty * TILE
           r == RunRect(sz, a, b, ty)
<1>2. r = Rect(x, y, Least(z, sz.w) - x, Least(sz.h - y, TILE))
  BY DEF RunRect, TileRect, Rect
<1>3. x \in Nat /\ y \in Nat /\ z \in Nat /\ x + TILE <= z
  BY <1>1, Product
<1>4. x < sz.w /\ y < sz.h
  <2>1. a \in 0..(TilesIn(sz.w) - 1)
    <3>1. TilesIn(sz.w) \in Nat
      BY <1>1, Tiles
    <3> QED
      BY <3>1
  <2> QED
    BY <1>1, <2>1, Tiles
<1>5. ASSUME NEW p \in Int \X Int, p[1] \in Nat
      PROVE  p[1] \div TILE \in a..(b - 1) <=> x <= p[1] /\ p[1] < z
  <2> DEFINE d == p[1] \div TILE
             k == d * TILE
  <2>1. d \in Nat /\ k <= p[1] /\ p[1] < k + TILE
    BY <1>1, <1>5, Quotient
  <2>2. k \in Nat /\ (a <= d => x <= k) /\ (d < b => k + TILE <= z) /\ (b <= d => z <= k)
        /\ (d < a => k + TILE <= x)
    <3> HIDE DEF d
    <3> QED
      BY <1>1, <2>1, Product
  <2> HIDE DEF d, k, x, z
  <2>3. d \in a..(b - 1) <=> x <= p[1] /\ p[1] < z
    BY <1>1, <1>3, <1>5, <2>1, <2>2
  <2> QED
    BY <2>3 DEF d
<1>6. \A p \in Int \X Int : p[2] \in Nat =>
        (p[2] \div TILE = ty <=> y <= p[2] /\ p[2] < y + TILE)
  BY <1>1, TileOf
<1> HIDE DEF x, y, z
<1>7. ASSUME NEW p \in Int \X Int
      PROVE  Inside(p, r) <=> /\ p \in Pixels(sz)
                              /\ p[1] \div TILE \in a..(b - 1) /\ p[2] \div TILE = ty
  <2>1. p[1] \in Int /\ p[2] \in Int /\ p = <<p[1], p[2]>>
    OBVIOUS
  <2>2. p \in Pixels(sz) <=> p[1] \in 0..(sz.w - 1) /\ p[2] \in 0..(sz.h - 1)
    BY <1>1, <2>1 DEF Pixels
  <2>3. Inside(p, r) <=> /\ x <= p[1] /\ p[1] < x + (Least(z, sz.w) - x)
                         /\ y <= p[2] /\ p[2] < y + Least(sz.h - y, TILE)
    BY <1>2 DEF Inside, Rect
  <2>4. Inside(p, r) <=> /\ x <= p[1] /\ p[1] < z /\ p[1] < sz.w
                         /\ y <= p[2] /\ p[2] < y + TILE /\ p[2] < sz.h
    BY <1>1, <1>3, <2>1, <2>3 DEF Least
  <2> QED
    BY <1>1, <1>3, <1>5, <1>6, <2>1, <2>2, <2>4
<1>8. r \in Box(sz.w + sz.h) /\ HasArea(r)
  BY <1>1, <1>2, <1>3, <1>4 DEF Rect, Least, Box, HasArea
<1> QED
  BY <1>7, <1>8

(* A run: its tiles changed, and those before and after it did not, or there are *)
(* none.                                                                     *)
Run(sz, changed, ty, a, b) ==
    /\ a \in Nat /\ b \in Nat /\ a < b /\ b <= TilesIn(sz.w)
    /\ \A c \in a..(b - 1) : <<c, ty>> \in changed
    /\ <<a - 1, ty>> \notin changed /\ <<b, ty>> \notin changed

LEMMA RunsOfRow ==
    ASSUME NEW sz \in SizeType, NEW ty,
           NEW changed \in SUBSET ((0..(TilesIn(sz.w) - 1)) \X (0..(TilesIn(sz.h) - 1)))
    PROVE  /\ \A r \in RowRuns(changed, sz, ty) : \E a, b :
                Run(sz, changed, ty, a, b) /\ r = RunRect(sz, a, b, ty)
           /\ \A c : <<c, ty>> \in changed =>
                \E a, b : /\ Run(sz, changed, ty, a, b) /\ c \in a..(b - 1)
                          /\ RunRect(sz, a, b, ty) \in RowRuns(changed, sz, ty)
<1> DEFINE n == TilesIn(sz.w)
           row == {t[1] : t \in {u \in changed : u[2] = ty}}
           end(a) == CHOOSE b \in 1..n : b > a /\ b \notin row /\ a..(b - 1) \subseteq row
<1>1. n \in Nat \ {0}
  BY Tiles DEF SizeType
<1>2. row \subseteq 0..(n - 1) /\ \A c : c \in row <=> <<c, ty>> \in changed
  OBVIOUS
<1>3. RowRuns(changed, sz, ty) = {RunRect(sz, a, end(a), ty) : a \in {b \in row : b - 1 \notin row}}
  BY DEF RowRuns, RunRect
<1> HIDE DEF row
<1>4. ASSUME NEW a \in row
      PROVE  end(a) \in 1..n /\ end(a) > a /\ end(a) \notin row /\ a..(end(a) - 1) \subseteq row
  <2> DEFINE N == {b \in Nat : b > a /\ b \notin row}
  <2>1. n \in N
    BY <1>1, <1>2
  <2>2. PICK b \in N : \A c \in N : b <= c
    <3> HIDE DEF N
    <3>1. N \in SUBSET Nat
      BY DEF N
    <3> QED
      BY <2>1, <3>1, LeastExists
  <2>3. b \in 1..n /\ b > a /\ b \notin row
    BY <1>1, <1>2, <2>1, <2>2
  <2>4. a..(b - 1) \subseteq row
    BY <1>1, <1>2, <2>2
  <2> QED
    BY <2>3, <2>4
<1> HIDE DEF end
<1>5. ASSUME NEW a \in row, a - 1 \notin row PROVE Run(sz, changed, ty, a, end(a))
  <2>1. a \in Nat /\ end(a) \in Nat /\ a < end(a) /\ end(a) <= n
    BY <1>1, <1>2, <1>4
  <2> QED
    BY <1>2, <1>4, <1>5, <2>1 DEF Run
<1>6. ASSUME NEW c, <<c, ty>> \in changed
      PROVE  \E a \in row : a - 1 \notin row /\ c \in a..(end(a) - 1)
  <2> DEFINE B == {a \in Nat : a <= c /\ a..c \subseteq row}
  <2>1. c \in row /\ c \in Nat
    BY <1>2, <1>6
  <2>2. c \in B
    BY <2>1
  <2>3. PICK a \in B : \A d \in B : a <= d
    <3> HIDE DEF B
    <3>1. B \in SUBSET Nat
      BY DEF B
    <3> QED
      BY <2>2, <3>1, LeastExists
  <2>4. a \in Nat /\ a <= c /\ a \in row /\ a..c \subseteq row
    BY <2>1, <2>3
  <2>5. a - 1 \notin row
    <3> SUFFICES ASSUME a - 1 \in row PROVE FALSE
      OBVIOUS
    <3>1. a - 1 \in Nat /\ a - 1 <= c
      BY <1>1, <1>2, <2>1, <2>4
    <3>2. (a - 1)..c \subseteq row
      BY <2>1, <2>4, <3>1
    <3>3. a - 1 \in B
      BY <3>1, <3>2
    <3> QED
      BY <2>3, <2>4, <3>3
  <2>6. c < end(a)
    <3>1. end(a) \in Int /\ end(a) > a /\ end(a) \notin row
      BY <1>1, <1>4, <2>4
    <3> QED
      BY <2>1, <2>4, <3>1
  <2>7. c \in a..(end(a) - 1)
    BY <1>1, <1>4, <2>1, <2>4, <2>6
  <2> QED
    BY <2>4, <2>5, <2>7
<1>7. \A r \in RowRuns(changed, sz, ty) : \E a, b :
        Run(sz, changed, ty, a, b) /\ r = RunRect(sz, a, b, ty)
  BY <1>3, <1>5
<1>8. ASSUME NEW c, <<c, ty>> \in changed
      PROVE  \E a, b : /\ Run(sz, changed, ty, a, b) /\ c \in a..(b - 1)
                       /\ RunRect(sz, a, b, ty) \in RowRuns(changed, sz, ty)
  <2>1. PICK a \in row : a - 1 \notin row /\ c \in a..(end(a) - 1)
    BY <1>6, <1>8
  <2>2. RunRect(sz, a, end(a), ty) \in RowRuns(changed, sz, ty)
    BY <1>3, <2>1
  <2> QED
    BY <1>5, <2>1, <2>2
<1> QED
  BY <1>7, <1>8

-----------------------------------------------------------------------------
(* dirty_rects.                                                              *)

Positions(sz) == (0..(TilesIn(sz.w) - 1)) \X (0..(TilesIn(sz.h) - 1))

AllRuns(changed, sz) == UNION {RowRuns(changed, sz, ty) : ty \in 0..(TilesIn(sz.h) - 1)}

(* Two runs of a row with a tile in common are one.                            *)
LEMMA RunIsOne ==
    ASSUME NEW sz \in SizeType, NEW changed, NEW ty,
           NEW a, NEW b, Run(sz, changed, ty, a, b),
           NEW c, NEW d, Run(sz, changed, ty, c, d),
           NEW t \in a..(b - 1), t \in c..(d - 1)
    PROVE  a = c /\ b = d
<1>1. a \in Nat /\ b \in Nat /\ c \in Nat /\ d \in Nat /\ a < b /\ c < d
  BY DEF Run
<1>2. /\ \A i \in a..(b - 1) : <<i, ty>> \in changed
      /\ \A i \in c..(d - 1) : <<i, ty>> \in changed
      /\ <<a - 1, ty>> \notin changed /\ <<c - 1, ty>> \notin changed
      /\ <<b, ty>> \notin changed /\ <<d, ty>> \notin changed
  BY DEF Run
<1>3. a - 1 \notin c..(d - 1) /\ c - 1 \notin a..(b - 1)
      /\ b \notin c..(d - 1) /\ d \notin a..(b - 1)
  BY <1>2
<1> QED
  BY <1>1, <1>3

(* The runs cover the changed tiles, each pixel once.                          *)
LEMMA RunsAre ==
    ASSUME NEW sz \in SizeType, NEW changed \in SUBSET Positions(sz)
    PROVE  /\ AllRuns(changed, sz) \in SUBSET Box(sz.w + sz.h)
           /\ Apart(AllRuns(changed, sz))
           /\ \A p \in Int \X Int : (\E r \in AllRuns(changed, sz) : Inside(p, r)) <=>
                p \in Pixels(sz) /\ <<p[1] \div TILE, p[2] \div TILE>> \in changed
<1> DEFINE R == AllRuns(changed, sz)
<1>1. ASSUME NEW r \in R
      PROVE  \E ty \in 0..(TilesIn(sz.h) - 1) : \E a, b :
               Run(sz, changed, ty, a, b) /\ r = RunRect(sz, a, b, ty)
  <2>1. PICK ty \in 0..(TilesIn(sz.h) - 1) : r \in RowRuns(changed, sz, ty)
    BY DEF AllRuns
  <2> QED
    BY <2>1, RunsOfRow DEF Positions
<1>2. ASSUME NEW ty \in 0..(TilesIn(sz.h) - 1), NEW a, NEW b, Run(sz, changed, ty, a, b)
      PROVE  /\ RunRect(sz, a, b, ty) \in Box(sz.w + sz.h)
             /\ HasArea(RunRect(sz, a, b, ty))
             /\ \A p \in Int \X Int : Inside(p, RunRect(sz, a, b, ty)) <=>
                  /\ p \in Pixels(sz)
                  /\ p[1] \div TILE \in a..(b - 1) /\ p[2] \div TILE = ty
  BY <1>2, RunPixels DEF Run
<1> HIDE DEF R
<1>3. R \in SUBSET Box(sz.w + sz.h) /\ \A r \in R : HasArea(r)
  BY <1>1, <1>2
<1>4. ASSUME NEW p \in Int \X Int, NEW r \in R, NEW s \in R, Inside(p, r), Inside(p, s)
      PROVE  r = s
  <2>1. PICK ty \in 0..(TilesIn(sz.h) - 1) : \E a, b :
               Run(sz, changed, ty, a, b) /\ r = RunRect(sz, a, b, ty)
    BY <1>1
  <2>2. PICK a, b : Run(sz, changed, ty, a, b) /\ r = RunRect(sz, a, b, ty)
    BY <2>1
  <2>3. PICK uy \in 0..(TilesIn(sz.h) - 1) : \E c, d :
               Run(sz, changed, uy, c, d) /\ s = RunRect(sz, c, d, uy)
    BY <1>1
  <2>4. PICK c, d : Run(sz, changed, uy, c, d) /\ s = RunRect(sz, c, d, uy)
    BY <2>3
  <2>5. p[1] \div TILE \in a..(b - 1) /\ p[2] \div TILE = ty
    BY <1>2, <1>4, <2>2
  <2>6. p[1] \div TILE \in c..(d - 1) /\ p[2] \div TILE = uy
    BY <1>2, <1>4, <2>4
  <2>7. a = c /\ b = d
    BY <2>2, <2>4, <2>5, <2>6, RunIsOne
  <2> QED
    BY <2>2, <2>4, <2>5, <2>6, <2>7
<1>5. ASSUME NEW p \in Int \X Int, NEW r \in R, Inside(p, r)
      PROVE  p \in Pixels(sz) /\ <<p[1] \div TILE, p[2] \div TILE>> \in changed
  <2>1. PICK ty \in 0..(TilesIn(sz.h) - 1) : \E a, b :
               Run(sz, changed, ty, a, b) /\ r = RunRect(sz, a, b, ty)
    BY <1>1
  <2>2. PICK a, b : Run(sz, changed, ty, a, b) /\ r = RunRect(sz, a, b, ty)
    BY <2>1
  <2>3. /\ p \in Pixels(sz)
        /\ p[1] \div TILE \in a..(b - 1) /\ p[2] \div TILE = ty
    BY <1>2, <1>5, <2>2
  <2>4. \A i \in a..(b - 1) : <<i, ty>> \in changed
    BY <2>2 DEF Run
  <2> QED
    BY <2>3, <2>4
<1>6. ASSUME NEW p \in Int \X Int,
             p \in Pixels(sz) /\ <<p[1] \div TILE, p[2] \div TILE>> \in changed
      PROVE  \E r \in R : Inside(p, r)
  <2> DEFINE tx == p[1] \div TILE
             ty == p[2] \div TILE
  <2>1. <<tx, ty>> \in changed /\ ty \in 0..(TilesIn(sz.h) - 1)
    BY <1>6 DEF Positions
  <2> HIDE DEF tx, ty
  <2>2. PICK a, b : /\ Run(sz, changed, ty, a, b) /\ tx \in a..(b - 1)
                    /\ RunRect(sz, a, b, ty) \in RowRuns(changed, sz, ty)
    BY <2>1, RunsOfRow DEF Positions
  <2>3. RunRect(sz, a, b, ty) \in R
    BY <2>1, <2>2 DEF R, AllRuns
  <2>4. Inside(p, RunRect(sz, a, b, ty))
    BY <1>2, <1>6, <2>1, <2>2 DEF tx, ty
  <2> QED
    BY <2>3, <2>4
<1>7. AllRuns(changed, sz) = R
  BY DEF R
<1> QED
  BY <1>3, <1>4, <1>5, <1>6, <1>7 DEF Apart

(* A rectangle whose pixels are in the picture lies in it.                     *)
LEMMA PixelsWithin ==
    ASSUME NEW sz \in SizeType, NEW r \in RectType, HasArea(r),
           \A p \in Int \X Int : Inside(p, r) => p \in Pixels(sz)
    PROVE  Within(r, sz)
<1>1. r.x \in Nat /\ r.y \in Nat /\ r.w \in Nat /\ r.h \in Nat /\ r.w > 0 /\ r.h > 0
  BY Sides DEF HasArea
<1>2. sz.w \in Nat /\ sz.h \in Nat
  BY DEF SizeType
<1> DEFINE p == <<r.x + r.w - 1, r.y + r.h - 1>>
<1>3. p \in Int \X Int /\ Inside(p, r)
  BY <1>1 DEF Inside
<1>4. p \in Pixels(sz)
  BY <1>3
<1>5. r.x + r.w - 1 \in 0..(sz.w - 1) /\ r.y + r.h - 1 \in 0..(sz.h - 1)
  BY <1>4 DEF Pixels
<1> QED
  BY <1>1, <1>2, <1>5 DEF Within

(* Two rectangles with an area in common have a pixel in common.               *)
LEMMA CommonPixel ==
    ASSUME NEW a \in RectType, NEW b \in [x : Nat, y : Nat, w : Int, h : Int],
           HasArea(Intersect(a, b))
    PROVE  \E p \in Int \X Int : Inside(p, a) /\ Inside(p, b)
<1>1. a.x \in Nat /\ a.y \in Nat /\ a.w \in Nat /\ a.h \in Nat
  BY Sides
<1>2. b.x \in Nat /\ b.y \in Nat /\ b.w \in Int /\ b.h \in Int
  OBVIOUS
<1> DEFINE x == Greatest(a.x, b.x)
           y == Greatest(a.y, b.y)
           p == <<x, y>>
<1>3. /\ Least(a.x + a.w, b.x + b.w) > x
      /\ Least(a.y + a.h, b.y + b.h) > y
  BY DEF Intersect, HasArea, EmptyRect, Rect
<1>4. p \in Int \X Int
  BY <1>1, <1>2 DEF Greatest
<1>5. Inside(p, a) /\ Inside(p, b)
  BY <1>1, <1>2, <1>3 DEF Inside, Greatest, Least
<1> QED
  BY <1>4, <1>5

(* What dirty_rects makes of the changed tiles.                                *)
LEMMA DirtyTiles ==
    ASSUME NEW sz \in SizeType, NEW changed \in SUBSET Positions(sz)
    PROVE  LET D == MergeVertical(AllRuns(changed, sz))
           IN  /\ IsFiniteSet(D)
               /\ \A r \in D : r \in RectType /\ HasArea(r) /\ Within(r, sz)
               /\ \A p \in Int \X Int : (\E r \in D : Inside(p, r)) <=>
                    p \in Pixels(sz) /\ <<p[1] \div TILE, p[2] \div TILE>> \in changed
               /\ \A r, s \in D : r # s => ~HasArea(Intersect(r, s)) /\ ~Adjoin(r, s)
<1> DEFINE R == AllRuns(changed, sz)
           D == MergeVertical(R)
<1>1. /\ R \in SUBSET Box(sz.w + sz.h) /\ Apart(R)
      /\ \A p \in Int \X Int : (\E r \in R : Inside(p, r)) <=>
                p \in Pixels(sz) /\ <<p[1] \div TILE, p[2] \div TILE>> \in changed
  BY RunsAre
<1> HIDE DEF R
<1>2. sz.w + sz.h \in Nat
  BY DEF SizeType
<1>3. PICK out : Pile(out, R) /\ D = Range(out)
  BY <1>1, <1>2, MergedIs
<1>4. out \in Seq(RectType) /\ Len(out) \in Nat /\ D = {out[i] : i \in 1..Len(out)}
  BY <1>3 DEF Pile, Range
<1> HIDE DEF D
<1>5. IsFiniteSet(D)
  <2> DEFINE f == [i \in 1..Len(out) |-> out[i]]
  <2>1. f \in Surjection(1..Len(out), D)
    BY <1>4 DEF Surjection
  <2>2. IsFiniteSet(1..Len(out))
    BY <1>4, FS_Interval
  <2> HIDE DEF f
  <2> QED
    BY <2>1, <2>2, FS_Surjection
<1>6. \A p \in Int \X Int : (\E r \in D : Inside(p, r)) <=>
        p \in Pixels(sz) /\ <<p[1] \div TILE, p[2] \div TILE>> \in changed
  <2>1. \A p \in Int \X Int : (\E r \in D : Inside(p, r)) <=> (\E r \in R : Inside(p, r))
    BY <1>3, <1>4 DEF Pile, Covers
  <2> QED
    BY <1>1, <2>1
<1>7. \A r \in D : r \in RectType /\ HasArea(r)
  BY <1>3, <1>4 DEF Pile, Begun
<1>8. \A r \in D : Within(r, sz)
  BY <1>6, <1>7, PixelsWithin
<1>9. ASSUME NEW r \in D, NEW s \in D, r # s
      PROVE  ~HasArea(Intersect(r, s)) /\ ~Adjoin(r, s)
  <2>1. PICK i \in 1..Len(out) : r = out[i]
    BY <1>4
  <2>2. PICK j \in 1..Len(out) : s = out[j]
    BY <1>4
  <2>3. ~Adjoin(r, s)
    BY <1>3, <2>1, <2>2 DEF Pile, NoneAdjoin
  <2>4. ASSUME HasArea(Intersect(r, s)) PROVE FALSE
    <3>1. s \in [x : Nat, y : Nat, w : Int, h : Int]
      BY <1>7 DEF RectType
    <3>2. PICK p \in Int \X Int : Inside(p, r) /\ Inside(p, s)
      BY <1>7, <2>4, <3>1, CommonPixel
    <3>3. i = j
      BY <1>3, <2>1, <2>2, <3>2 DEF Pile, Once
    <3> QED
      BY <1>9, <2>1, <2>2, <3>3
  <2> QED
    BY <2>3, <2>4
<1>10. D = MergeVertical(AllRuns(changed, sz))
  BY DEF D, R
<1> QED
  BY <1>5, <1>6, <1>7, <1>8, <1>9, <1>10

(* dirty_rects, of two canvases of one size.                                   *)
LEMMA DirtyIs ==
    ASSUME NEW sz \in SizeType, NEW before, NEW after, DOMAIN after = Pixels(sz),
           NEW max \in Nat \ {0}
    PROVE  LET D == DirtyRects(before, after, sz, max)
               Differs(tile) == \E p \in Pixels(sz) :
                                  Inside(p, tile) /\ before[p] # after[p]
           IN  /\ Cardinality(D) \in 0..max /\ (Cardinality(D) = 0 <=> D = {})
               /\ \A r \in D : r \in RectType /\ HasArea(r) /\ Within(r, sz)
               /\ \A p \in Pixels(sz) : before[p] # after[p] => \E r \in D : Inside(p, r)
               /\ D # {Whole(sz)} =>
                    /\ \A r, s \in D : r # s => ~HasArea(Intersect(r, s)) /\ ~Adjoin(r, s)
                    /\ \A tx, ty \in Nat : \A r \in D :
                         HasArea(Intersect(r, TileRect(sz, tx, ty))) =>
                           Differs(TileRect(sz, tx, ty))
<1> DEFINE Differs(tile) == \E p \in Pixels(sz) : Inside(p, tile) /\ before[p] # after[p]
           changed == {t \in Positions(sz) : Differs(TileRect(sz, t[1], t[2]))}
           M == MergeVertical(AllRuns(changed, sz))
           D == DirtyRects(before, after, sz, max)
<1>1. D = IF Cardinality(M) > max THEN {Whole(sz)} ELSE M
  <2> DEFINE c == {t \in Positions(sz) : TileChanged(before, after, TileRect(sz, t[1], t[2]))}
  <2>1. changed = c
    BY DEF TileChanged
  <2>2. D = IF Cardinality(MergeVertical(AllRuns(c, sz))) > max
            THEN {Whole(sz)} ELSE MergeVertical(AllRuns(c, sz))
    BY DEF DirtyRects, Positions, AllRuns
  <2> HIDE DEF changed, c, D
  <2> QED
    BY <2>1, <2>2
<1>2. changed \in SUBSET Positions(sz)
  OBVIOUS
<1>3. \A t \in Positions(sz) : t \in changed <=> Differs(TileRect(sz, t[1], t[2]))
  OBVIOUS
<1> HIDE DEF changed
<1>4. /\ IsFiniteSet(M)
      /\ \A r \in M : r \in RectType /\ HasArea(r) /\ Within(r, sz)
      /\ \A p \in Int \X Int : (\E r \in M : Inside(p, r)) <=>
           p \in Pixels(sz) /\ <<p[1] \div TILE, p[2] \div TILE>> \in changed
      /\ \A r, s \in M : r # s => ~HasArea(Intersect(r, s)) /\ ~Adjoin(r, s)
  BY <1>2, DirtyTiles
<1> HIDE DEF M, D
<1>5. sz.w \in Nat \ {0} /\ sz.h \in Nat \ {0} /\ Pixels(sz) \subseteq Int \X Int
  BY DEF SizeType, Pixels
<1>6. /\ Whole(sz) \in RectType /\ HasArea(Whole(sz)) /\ Within(Whole(sz), sz)
      /\ \A p \in Pixels(sz) : Inside(p, Whole(sz))
  BY <1>5 DEF Whole, Rect, RectType, HasArea, Within, Pixels, Inside
<1>7. ASSUME NEW p \in Pixels(sz), before[p] # after[p]
      PROVE  \E r \in M : Inside(p, r)
  <2> DEFINE tx == p[1] \div TILE
             ty == p[2] \div TILE
  <2>1. p[1] \in 0..(sz.w - 1) /\ p[2] \in 0..(sz.h - 1)
    BY DEF Pixels
  <2>2. tx \in 0..(TilesIn(sz.w) - 1) /\ ty \in 0..(TilesIn(sz.h) - 1)
    BY <1>5, <2>1, Tiles
  <2>3. TilesIn(sz.w) \in Nat /\ TilesIn(sz.h) \in Nat
    BY <1>5, Tiles
  <2>4. tx \in Nat /\ ty \in Nat
    BY <2>2, <2>3
  <2>5. Inside(p, TileRect(sz, tx, ty))
    BY <1>5, <2>4, TilePixels
  <2>6. <<tx, ty>> \in Positions(sz) /\ Differs(TileRect(sz, tx, ty))
    BY <1>7, <2>2, <2>5 DEF Positions
  <2>7. <<tx, ty>> \in changed
    <3> HIDE DEF tx, ty, Differs
    <3> QED
      BY <1>3, <2>6
  <2> QED
    BY <1>4, <1>5, <2>7
<1>8. ASSUME NEW tx \in Nat, NEW ty \in Nat, NEW r \in M,
             HasArea(Intersect(r, TileRect(sz, tx, ty)))
      PROVE  Differs(TileRect(sz, tx, ty))
  <2>1. TileRect(sz, tx, ty) \in [x : Nat, y : Nat, w : Int, h : Int]
    <3>1. tx * TILE \in Nat /\ ty * TILE \in Nat /\ TILE \in Nat
      BY DamageAssumption, Product
    <3> QED
      BY <1>5, <3>1 DEF TileRect, Rect, Least
  <2>2. PICK p \in Int \X Int : Inside(p, r) /\ Inside(p, TileRect(sz, tx, ty))
    BY <1>4, <1>8, <2>1, CommonPixel
  <2>3. p[1] \div TILE = tx /\ p[2] \div TILE = ty
    BY <2>2, TilePixels
  <2>4. <<tx, ty>> \in changed
    BY <1>4, <2>2, <2>3
  <2> HIDE DEF Differs
  <2> QED
    BY <1>2, <1>3, <2>4
<1> HIDE DEF Differs
<1>9. Cardinality(M) \in Nat /\ (Cardinality(M) = 0 <=> M = {})
      /\ Cardinality({Whole(sz)}) = 1
  BY <1>4, FS_CardinalityType, FS_EmptySet, FS_Singleton
<1>10. /\ Cardinality(D) \in 0..max /\ (Cardinality(D) = 0 <=> D = {})
       /\ \A r \in D : r \in RectType /\ HasArea(r) /\ Within(r, sz)
       /\ \A p \in Pixels(sz) : before[p] # after[p] => \E r \in D : Inside(p, r)
       /\ D # {Whole(sz)} => D = M
  <2>1. CASE Cardinality(M) > max
    BY <1>1, <1>6, <1>9, <2>1
  <2>2. CASE ~(Cardinality(M) > max)
    <3>1. D = M /\ Cardinality(M) \in 0..max
      BY <1>1, <1>9, <2>2
    <3> QED
      BY <1>4, <1>7, <1>9, <3>1
  <2> QED
    BY <2>1, <2>2
<1> QED
  BY <1>4, <1>8, <1>10 DEF D, Differs

-----------------------------------------------------------------------------
(* The phone's texture.                                                      *)

(* What follows in this module says nothing of the pattern that PatternSpec     *)
(* does not: the steps of Pictures are its steps, or leave it.                 *)
THEOREM PicturesArePatterns == PicturesSpec => PatternSpec
<1>1. PicturesInit => Init
  BY DEF PicturesInit
<1>2. [PicturesNext]_allVars => [NextFrame]_vars
  BY DEF PicturesNext, PatternFrame, FirstFrame, Grab, allVars
<1> QED
  BY <1>1, <1>2, PTL DEF PicturesSpec, PatternSpec

LEMMA GrabIs ==
    ASSUME NEW g \in Grabs
    PROVE  /\ g.size \in Streams /\ g.size \in SizeType
           /\ g.canvas \in [Pixels(g.size) -> 0..3]
           /\ g = [size |-> g.size, canvas |-> g.canvas]
<1>1. PICK s \in Streams : g \in [size : {s}, canvas : Canvases(s)]
  BY DEF Grabs
<1>2. g.size = s /\ g.canvas \in Canvases(s) /\ g = [size |-> g.size, canvas |-> g.canvas]
  BY <1>1
<1>3. Canvases(s) \subseteq [Pixels(s) -> 0..3] /\ s \in SizeType
  BY PicturesAssumption DEF SizeType
<1> QED
  BY <1>2, <1>3

LEMMA GrabExists == \E g : g \in Grabs
<1>1. PICK c : c \in Canvases(Display)
  BY PicturesAssumption
<1>2. [size |-> Display, canvas |-> c] \in [size : {Display}, canvas : Canvases(Display)]
  BY <1>1
<1>3. [size |-> Display, canvas |-> c] \in Grabs
  BY <1>2, PicturesAssumption DEF Grabs
<1> QED
  BY <1>3

Shades == 0..3 \cup {Blank}

(* A frame whose rectangles lie in its own picture leaves a texture.            *)
LEMMA Uploaded ==
    ASSUME NEW d \in SizeType, NEW s \in SizeType, NEW t \in [Pixels(d) -> Shades],
           NEW rs, \A r \in rs : r \in RectType /\ Within(r, s),
           NEW c \in [Pixels(s) -> 0..3]
    PROVE  /\ Upload(t, d, rs, c) \in [Pixels(d) -> Shades]
           /\ d = s => \A p \in Pixels(d) :
                Upload(t, d, rs, c)[p] = IF \E r \in rs : Inside(p, r) THEN c[p] ELSE t[p]
<1>1. ASSUME NEW p \in Pixels(d), NEW r \in rs, Inside(p, r) PROVE c[p] \in 0..3
  <2>1. r.x + r.w <= s.w /\ r.y + r.h <= s.h
    BY DEF Within
  <2>2. /\ r.x \in Nat /\ r.y \in Nat /\ r.w \in Nat /\ r.h \in Nat
        /\ s.w \in Nat /\ s.h \in Nat /\ d.w \in Nat /\ d.h \in Nat
    BY Sides DEF SizeType
  <2>3. p[1] \in 0..(s.w - 1) /\ p[2] \in 0..(s.h - 1) /\ p = <<p[1], p[2]>>
    BY <1>1, <2>1, <2>2 DEF Pixels, Inside
  <2>4. p \in Pixels(s)
    BY <2>3 DEF Pixels
  <2> QED
    BY <2>4
<1>2. \A p \in Pixels(d) : Upload(t, d, rs, c)[p] =
        IF \E r \in rs : Within(r, d) /\ Inside(p, r) THEN c[p] ELSE t[p]
  BY DEF Upload
<1>3. Upload(t, d, rs, c) \in [Pixels(d) -> Shades]
  BY <1>1 DEF Upload, Shades
<1> QED
  BY <1>2, <1>3

(* The whole picture.                                                        *)
LEMMA WholeIs ==
    ASSUME NEW s \in SizeType
    PROVE  /\ Whole(s) \in RectType /\ Within(Whole(s), s)
           /\ \A p \in Pixels(s) : Inside(p, Whole(s))
BY DEF SizeType, Whole, Rect, RectType, Within, Pixels, Inside

(* The texture is the source's canvas: that of the pattern, or the one gnome     *)
(* compares with, which is the one grabbed last.                               *)
PictureInv ==
    /\ PicturesTypeOK
    /\ prev = desk
    /\ kind = "test" => display = size
    /\ kind = "test" /\ ~first => tex = canvas
    /\ kind = "gnome" /\ ~pending /\ prev.size = display => tex = prev.canvas

LEMMA PictureFacts ==
    ASSUME PicturesTypeOK
    PROVE  /\ display \in SizeType /\ tex \in [Pixels(display) -> Shades]
           /\ since \in Nat /\ GnomeFullEvery \in Nat \ {0}
BY PatternAssumption, PicturesAssumption DEF PicturesTypeOK, SizeType, Shades

LEMMA PatternStep ==
    ASSUME PatternTypeOK, PictureInv, PatternFrame
    PROVE  PictureInv'
<1>1. /\ kind = "test" /\ kind' = "test" /\ NextFrame /\ display = size /\ size' = size
      /\ UNCHANGED <<display, desk, prev, pending, since>> /\ ~first'
      /\ tex' = Upload(tex, display, rects', canvas')
  BY DEF PatternFrame, gnome, Send, NextFrame, PictureInv
<1>2. \A r \in rects' : r \in RectType /\ Within(r, size)
  BY <1>1, FrameRects
<1>3. canvas' \in [Pixels(size) -> 0..3] /\ canvas' = Painted(rects', Elements')
  BY <1>1, PaintedType DEF NextFrame
<1>4. size \in SizeType /\ tex \in [Pixels(display) -> Shades]
  BY Shapes, PictureFacts DEF PictureInv
<1>5. /\ tex' \in [Pixels(display) -> Shades]
      /\ \A p \in Pixels(size) :
           tex'[p] = IF \E r \in rects' : Inside(p, r) THEN canvas'[p] ELSE tex[p]
  BY <1>1, <1>2, <1>3, <1>4, Uploaded
<1>6. ASSUME NEW p \in Pixels(size) PROVE tex'[p] = canvas'[p]
  <2>1. CASE \E r \in rects' : Inside(p, r)
    BY <1>5, <2>1
  <2>2. CASE ~\E r \in rects' : Inside(p, r)
    <3>1. ~first
      <4>1. ASSUME first PROVE FALSE
        <5>1. rects' = {Whole(size)}
          BY <1>1, <4>1 DEF NextFrame, FullDue
        <5> QED
          BY <1>4, <2>2, <5>1, WholeIs
      <4> QED
        BY <4>1
    <3>2. tex = canvas
      BY <1>1, <3>1 DEF PictureInv
    <3>3. canvas'[p] = canvas[p]
      BY <1>3, <2>2 DEF Painted
    <3> QED
      BY <1>5, <2>2, <3>2, <3>3
  <2> QED
    BY <2>1, <2>2
<1>7. tex' = canvas'
  BY <1>1, <1>3, <1>5, <1>6
<1>8. PicturesTypeOK'
  BY <1>1, <1>5 DEF PictureInv, PicturesTypeOK, Shades, Grabs
<1> QED
  BY <1>1, <1>7, <1>8 DEF PictureInv

(* A frame of gnome's whole picture, of the size announced or another one.      *)
LEMMA WholeUploaded ==
    ASSUME PicturesTypeOK, NEW g \in Grabs
    PROVE  LET t == Upload(tex, display, {Whole(g.size)}, g.canvas)
           IN  /\ t \in [Pixels(display) -> Shades]
               /\ g.size = display => t = g.canvas
<1>1. /\ display \in SizeType /\ tex \in [Pixels(display) -> Shades]
      /\ g.size \in SizeType /\ g.canvas \in [Pixels(g.size) -> 0..3]
  BY PictureFacts, GrabIs
<1>2. \A r \in {Whole(g.size)} : r \in RectType /\ Within(r, g.size)
  BY <1>1, WholeIs
<1>3. /\ Upload(tex, display, {Whole(g.size)}, g.canvas) \in [Pixels(display) -> Shades]
      /\ g.size = display => \A p \in Pixels(display) :
           Upload(tex, display, {Whole(g.size)}, g.canvas)[p] = g.canvas[p]
  BY <1>1, <1>2, Uploaded, WholeIs
<1> QED
  BY <1>1, <1>3

LEMMA FirstStep ==
    ASSUME PictureInv, FirstFrame
    PROVE  PictureInv'
<1>1. /\ kind = "gnome" /\ kind' = "gnome" /\ pending' = FALSE
      /\ UNCHANGED <<display, desk, prev, since>>
      /\ tex' = Upload(tex, display, {Whole(prev.size)}, prev.canvas)
  BY DEF FirstFrame, Send
<1>2. prev \in Grabs
  BY DEF PictureInv, PicturesTypeOK
<1>3. /\ tex' \in [Pixels(display) -> Shades]
      /\ prev.size = display => tex' = prev.canvas
  BY <1>1, <1>2, WholeUploaded DEF PictureInv
<1>4. PicturesTypeOK'
  BY <1>1, <1>3 DEF PictureInv, PicturesTypeOK, Shades, Grabs
<1> QED
  BY <1>1, <1>3, <1>4 DEF PictureInv

(* What is compared out of the canvas grabbed last and the one before.          *)
LEMMA DirtyCovers ==
    ASSUME PictureInv, desk' \in Grabs, ~Resized
    PROVE  /\ \A r \in Dirty : r \in RectType /\ Within(r, prev.size)
           /\ \A p \in Pixels(prev.size) : prev.canvas[p] # desk'.canvas[p] =>
                \E r \in Dirty : Inside(p, r)
<1>1. /\ prev.size \in SizeType /\ desk'.size = prev.size
      /\ desk'.canvas \in [Pixels(prev.size) -> 0..3]
  BY GrabIs DEF PictureInv, PicturesTypeOK, Resized
<1>2. MaxRects \in Nat \ {0} /\ DOMAIN desk'.canvas = Pixels(prev.size)
  BY <1>1, PicturesAssumption
<1> DEFINE D == DirtyRects(prev.canvas, desk'.canvas, prev.size, MaxRects)
<1>3. \A r \in D : r \in RectType /\ HasArea(r) /\ Within(r, prev.size)
  BY <1>1, <1>2, DirtyIs
<1>4. \A p \in Pixels(prev.size) : prev.canvas[p] # desk'.canvas[p] => \E r \in D : Inside(p, r)
  BY <1>1, <1>2, DirtyIs
<1> QED
  BY <1>3, <1>4 DEF Dirty

LEMMA GrabStep ==
    ASSUME PictureInv, Grab
    PROVE  PictureInv'
<1>1. /\ kind = "gnome" /\ kind' = "gnome" /\ ~pending /\ ~pending' /\ desk' \in Grabs
      /\ UNCHANGED <<display, pending>>
  BY DEF Grab, PictureInv, PicturesTypeOK
<1>2. PicturesTypeOK /\ prev = desk /\ prev \in Grabs
  BY DEF PictureInv, PicturesTypeOK
<1>3. CASE SendFull
  <2>1. prev' = desk' /\ since' = 0
        /\ tex' = Upload(tex, display, {Whole(desk'.size)}, desk'.canvas)
    BY <1>3 DEF SendFull, Send
  <2>2. /\ tex' \in [Pixels(display) -> Shades]
        /\ desk'.size = display => tex' = desk'.canvas
    BY <1>1, <1>2, <2>1, WholeUploaded
  <2>3. since' \in 0..(GnomeFullEvery - 1)
    BY <1>2, <2>1, PictureFacts
  <2>4. PicturesTypeOK'
    BY <1>1, <1>2, <2>1, <2>2, <2>3 DEF PicturesTypeOK, Shades, Grabs
  <2> QED
    BY <1>1, <2>1, <2>2, <2>4 DEF PictureInv
<1>4. CASE ~Resized /\ ~FullNow /\ Dirty = {} /\ SendNothing
  <2>1. prev' = prev /\ tex' = tex /\ since' = since + 1
    BY <1>4 DEF SendNothing
  <2>2. \A p \in Pixels(prev.size) : prev.canvas[p] = desk'.canvas[p]
    BY <1>1, <1>4, DirtyCovers
  <2>3. desk'.size = prev.size
    BY <1>4 DEF Resized
  <2>4. desk' = prev
    BY <1>1, <1>2, <2>2, <2>3, GrabIs
  <2>5. since' \in 0..(GnomeFullEvery - 1)
    BY <1>2, <1>4, <2>1, PictureFacts DEF FullNow
  <2>6. PicturesTypeOK'
    BY <1>1, <1>2, <2>1, <2>4, <2>5 DEF PicturesTypeOK, Shades, Grabs
  <2> QED
    BY <1>1, <1>2, <2>1, <2>4, <2>6 DEF PictureInv
<1>5. CASE ~Resized /\ ~FullNow /\ SendDamage(Dirty)
  <2>1. prev' = desk' /\ since' = since + 1
        /\ tex' = Upload(tex, display, Dirty, desk'.canvas)
    BY <1>5 DEF SendDamage, Send
  <2>2. /\ \A r \in Dirty : r \in RectType /\ Within(r, prev.size)
        /\ \A p \in Pixels(prev.size) : prev.canvas[p] # desk'.canvas[p] =>
             \E r \in Dirty : Inside(p, r)
    BY <1>1, <1>5, DirtyCovers
  <2>3. /\ display \in SizeType /\ tex \in [Pixels(display) -> Shades]
        /\ prev.size \in SizeType /\ desk'.canvas \in [Pixels(prev.size) -> 0..3]
        /\ prev.canvas \in [Pixels(prev.size) -> 0..3] /\ desk'.size = prev.size
    BY <1>1, <1>2, <1>5, PictureFacts, GrabIs DEF Resized
  <2>4. /\ tex' \in [Pixels(display) -> Shades]
        /\ prev.size = display => \A p \in Pixels(display) :
             tex'[p] = IF \E r \in Dirty : Inside(p, r) THEN desk'.canvas[p] ELSE tex[p]
    BY <2>1, <2>2, <2>3, Uploaded
  <2>5. prev.size = display => tex' = desk'.canvas
    <3> SUFFICES ASSUME prev.size = display PROVE tex' = desk'.canvas
      OBVIOUS
    <3>1. tex = prev.canvas
      BY <1>1 DEF PictureInv
    <3>2. \A p \in Pixels(display) : tex'[p] = desk'.canvas[p]
      BY <2>2, <2>4, <3>1
    <3> QED
      BY <2>3, <2>4, <3>2
  <2>6. since' \in 0..(GnomeFullEvery - 1)
    BY <1>2, <1>5, <2>1, PictureFacts DEF FullNow
  <2>7. PicturesTypeOK'
    BY <1>1, <1>2, <2>1, <2>4, <2>6 DEF PicturesTypeOK, Shades, Grabs
  <2> QED
    BY <1>1, <2>1, <2>3, <2>5, <2>7 DEF PictureInv
<1> QED
  BY <1>3, <1>4, <1>5 DEF Grab

(* The inductive invariant of what the phone shows.                            *)
THEOREM PicturesInvariant == PicturesSpec => []PictureInv
<1>1. PicturesInit => PictureInv
  <2> SUFFICES ASSUME PicturesInit PROVE PictureInv
    OBVIOUS
  <2>1. /\ Init /\ prev = desk /\ pending = TRUE /\ since = 0
        /\ tex = [p \in Pixels(display) |-> Blank]
        /\ \/ kind = "test" /\ display = size /\ desk = CHOOSE g \in Grabs : TRUE
           \/ kind = "gnome" /\ display = Display /\ desk \in Grabs
    BY DEF PicturesInit, OpenTest, OpenGnome
  <2>2. desk \in Grabs /\ display \in Sizes \cup Streams
    BY <2>1, GrabExists, PicturesAssumption DEF Init
  <2>3. since \in 0..(GnomeFullEvery - 1)
    BY <2>1, PicturesAssumption
  <2>4. PicturesTypeOK
    BY <2>1, <2>2, <2>3 DEF PicturesTypeOK
  <2> QED
    BY <2>1, <2>4 DEF PictureInv, Init
<1>2. PictureInv /\ UNCHANGED allVars => PictureInv'
  BY DEF PictureInv, PicturesTypeOK, allVars, vars, gnome, Grabs, Pixels
<1>3. PatternTypeOK /\ PictureInv /\ [PicturesNext]_allVars => PictureInv'
  BY <1>2, PatternStep, FirstStep, GrabStep DEF PicturesNext
<1>4. PicturesSpec => []PatternTypeOK
  BY PicturesArePatterns, PatternTypeCorrect, PTL
<1> QED
  BY <1>1, <1>3, <1>4, PTL DEF PicturesSpec

(* Repainting and comparing leave nothing stale: for every size of display,     *)
(* stream and tile, every two canvases and every change of size, the texture     *)
(* is what the source shows; the full frames keep their period.                *)
THEOREM TextureIsExact == PicturesSpec => []PictureSafe
<1>1. PictureInv /\ PatternDrawn => PictureSafe
  BY DEF PictureInv, PatternDrawn, PictureSafe, TextureExact
<1>2. PicturesSpec => []PatternDrawn
  BY PicturesArePatterns, PictureIsScene, PTL
<1> QED
  BY <1>1, <1>2, PicturesInvariant, PTL

(* Of two canvases of one size that differ, dirty_rects makes at least one and   *)
(* at most max_rects rectangles, in the picture; and if it does not give up,     *)
(* they have no pixel in common, touch only tiles that changed and are merged.   *)
THEOREM DamageMinimal == PicturesSpec => DamageIsMinimal
<1> DEFINE A == kind = "gnome" /\ desk' # desk /\ ~Resized =>
                  \E rs \in {Dirty} :
                    /\ Cardinality(rs) \in 1..MaxRects
                    /\ \A r \in rs : HasArea(r) /\ Within(r, prev.size)
                    /\ rs # {Whole(prev.size)} => Minimal(rs)
<1>1. PictureInv /\ [PicturesNext]_allVars => [A]_allVars
  <2> SUFFICES ASSUME PictureInv, PicturesNext, kind = "gnome", desk' # desk, ~Resized
               PROVE  /\ Cardinality(Dirty) \in 1..MaxRects
                      /\ \A r \in Dirty : HasArea(r) /\ Within(r, prev.size)
                      /\ Dirty # {Whole(prev.size)} => Minimal(Dirty)
    OBVIOUS
  <2>1. desk' \in Grabs
    BY DEF PicturesNext, PatternFrame, FirstFrame, Grab, gnome
  <2>2. prev \in Grabs /\ prev = desk /\ desk'.size = prev.size
    BY DEF PictureInv, PicturesTypeOK, Resized
  <2>3. /\ prev.size \in SizeType /\ desk'.canvas \in [Pixels(prev.size) -> 0..3]
        /\ prev.canvas \in [Pixels(prev.size) -> 0..3]
        /\ MaxRects \in Nat \ {0} /\ DOMAIN desk'.canvas = Pixels(prev.size)
    BY <2>1, <2>2, GrabIs, PicturesAssumption
  <2>4. \E p \in Pixels(prev.size) : prev.canvas[p] # desk'.canvas[p]
    <3>1. prev.canvas # desk'.canvas
      BY <2>1, <2>2, GrabIs
    <3> QED
      BY <2>3, <3>1
  <2>5. /\ Cardinality(Dirty) \in 0..MaxRects /\ (Cardinality(Dirty) = 0 <=> Dirty = {})
        /\ \A r \in Dirty : r \in RectType /\ HasArea(r) /\ Within(r, prev.size)
        /\ \A p \in Pixels(prev.size) : prev.canvas[p] # desk'.canvas[p] =>
             \E r \in Dirty : Inside(p, r)
        /\ Dirty # {Whole(prev.size)} =>
             /\ \A r, s \in Dirty : r # s => ~HasArea(Intersect(r, s)) /\ ~Adjoin(r, s)
             /\ \A tx, ty \in Nat : \A r \in Dirty :
                  HasArea(Intersect(r, TileRect(prev.size, tx, ty))) =>
                    Changed(TileRect(prev.size, tx, ty))
    BY <2>3, DirtyIs DEF Dirty, Changed
  <2>6. Cardinality(Dirty) \in 1..MaxRects
    BY <2>3, <2>4, <2>5
  <2>7. Dirty # {Whole(prev.size)} => Minimal(Dirty)
    <3>1. prev.size.w \div TILE \in Nat /\ prev.size.h \div TILE \in Nat
      BY <2>3, DamageAssumption, Quotient DEF SizeType
    <3> QED
      BY <2>5, <3>1 DEF Minimal
  <2> QED
    BY <2>5, <2>6, <2>7
<1> QED
  BY <1>1, PicturesInvariant, PTL DEF PicturesSpec, DamageIsMinimal
=============================================================================
