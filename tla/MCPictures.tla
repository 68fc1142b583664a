------------------------------ MODULE MCPictures ------------------------------
(***************************************************************************)
(* Pictures with sizes small enough for TLC.  Every tile of a grabbed canvas  *)
(* is unmarked, or marked at its last pixel.                                 *)
(***************************************************************************)
EXTENDS Pictures

MCSizes   == {[w |-> 7, h |-> 5], [w |-> 4, h |-> 6], [w |-> 2, h |-> 3],
              [w |-> 1, h |-> 1]}
MCDisplay == [w |-> 3, h |-> 5]
MCStreams == {MCDisplay, [w |-> 5, h |-> 1]}
MCSqDX    == -1

Marked(s, tiles) ==
    LET last(t) == LET r == TileRect(s, t[1], t[2]) IN <<r.x + r.w - 1, r.y + r.h - 1>>
    IN  [p \in Pixels(s) |-> IF \E t \in tiles : p = last(t) THEN 1 ELSE 0]

MCCanvases(s) ==
    {Marked(s, T) : T \in SUBSET ((0..(TilesIn(s.w) - 1)) \X (0..(TilesIn(s.h) - 1)))}
=============================================================================
