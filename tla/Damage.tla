-------------------------------- MODULE Damage --------------------------------
(***************************************************************************)
(* Which rectangles of a picture changed (host/src/damage.rs): the picture    *)
(* is compared tile by tile, neighbours in a row become one rectangle, and    *)
(* rectangles of the same columns in consecutive rows are merged.            *)
(***************************************************************************)
EXTENDS Rects, Sequences, FiniteSets, Folds, Functions

CONSTANT TILE       \* edge of a tile, in pixels (32 in the code)

ASSUME DamageAssumption == TILE \in Nat \ {0}

TilesIn(n)  == (n + TILE - 1) \div TILE
TileRect(size, tx, ty) ==
    Rect(tx * TILE, ty * TILE, Least(size.w - tx * TILE, TILE),
                               Least(size.h - ty * TILE, TILE))

\* Fault: only the first row of a tile is compared.
TileChangedFault(prev, curr, r) ==
    \E p \in DOMAIN curr : Inside(p, r) /\ p[2] = r.y /\ prev[p] # curr[p]

TileChanged(prev, curr, r) ==
    \E p \in DOMAIN curr : Inside(p, r) /\ prev[p] # curr[p]

(* The runs of changed tiles in row ty, each as the rectangle it covers: from *)
(* its first column to the first unchanged one, or to the edge.              *)
RowRuns(changed, size, ty) ==
    LET row == {t[1] : t \in {u \in changed : u[2] = ty}}
        end(a) == CHOOSE b \in 1..TilesIn(size.w) :
                     b > a /\ b \notin row /\ a..(b - 1) \subseteq row
    IN  {Rect(a * TILE, ty * TILE, Least(end(a) * TILE, size.w) - a * TILE,
              TileRect(size, a, ty).h) : a \in {b \in row : b - 1 \notin row}}

\* Fault: the row below is looked for where the last rectangle begins.
JoinFault(out, r) ==
    LET last == out[Len(out)]
    IN  IF out # <<>> /\ last.x = r.x /\ last.w = r.w /\ last.y = r.y
        THEN [out EXCEPT ![Len(out)].h = @ + r.h]
        ELSE Append(out, r)

(* A rectangle extends the last one if it lies right below it.                *)
Join(out, r) ==
    LET last == out[Len(out)]
    IN  IF out # <<>> /\ last.x = r.x /\ last.w = r.w /\ last.y + last.h = r.y
        THEN [out EXCEPT ![Len(out)].h = @ + r.h]
        ELSE Append(out, r)

(* merge_vertical goes through the rectangles by column, then row.            *)
SortedLast(S) == CHOOSE r \in S :
                    \A s \in S : s.x < r.x \/ (s.x = r.x /\ s.y <= r.y)
MergeVertical(S) ==
    Range(MapThenFoldSet(LAMBDA r, out : Join(out, r), <<>>, LAMBDA r : r, SortedLast, S))

(* dirty_rects of two canvases of the same size: none if nothing changed, the *)
(* whole picture if there would be more than maxRects.                        *)
DirtyRects(prev, curr, size, maxRects) ==
    LET tiles   == (0..(TilesIn(size.w) - 1)) \X (0..(TilesIn(size.h) - 1))
        changed == {t \in tiles : TileChanged(prev, curr, TileRect(size, t[1], t[2]))}
        dirty   == MergeVertical(UNION {RowRuns(changed, size, ty) :
                                          ty \in 0..(TilesIn(size.h) - 1)})
    IN  IF Cardinality(dirty) > maxRects THEN {Whole(size)} ELSE dirty
=============================================================================
