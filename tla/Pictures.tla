------------------------------- MODULE Pictures -------------------------------
(***************************************************************************)
(* What the phone shows of the two frame sources when no frame is lost: the   *)
(* test pattern of TestSource, or gnome's monitor, whose grabbed canvases are *)
(* compared with the one sent last (to_client_frame in                      *)
(* host/src/gnome/source.rs).  open_source picks one of them; the renderer    *)
(* uploads the rectangles of their frames.  Resync has the lost frames.       *)
(***************************************************************************)
EXTENDS TestSource, Damage

CONSTANTS
    Streams,            \* sizes the captured stream may have
    Display,            \* the one announced to gnome's client
    Canvases(_),        \* bound: canvases of a size that are grabbed
    Blank,              \* what a new texture shows
    MaxRects,           \* limit on the rectangles of a frame (64)
    GnomeFullEvery      \* canvases grabbed from one full frame to the next

ASSUME PicturesAssumption ==
    /\ Streams \subseteq [w : Nat \ {0}, h : Nat \ {0}]
    /\ Display \in Streams
    /\ \A s \in Streams : Canvases(s) # {} /\ Canvases(s) \subseteq [Pixels(s) -> 0..3]
    /\ Blank \notin 0..3
    /\ MaxRects \in Nat \ {0} /\ GnomeFullEvery \in Nat \ {0}

VARIABLES
    kind,           \* the source: "test" or "gnome"
    display,        \* the size announced in DISPLAY_INFO
    desk,           \* gnome: what was grabbed last, and its size
    prev, pending,  \* gnome: compared against; it was not handed out yet
    since,          \* gnome: frames_since_full
    tex             \* the renderer's texture

gnome    == <<desk, prev, pending, since>>
allVars  == <<vars, kind, display, gnome, tex>>

Grabs == UNION {[size : {s}, canvas : Canvases(s)] : s \in Streams}

\* The source that is not open keeps one value.
OpenTest  == /\ kind = "test"
             /\ display = size
             /\ desk = CHOOSE g \in Grabs : TRUE
OpenGnome == /\ kind = "gnome"
             /\ size = CHOOSE s \in Sizes : TRUE
             /\ display = Display
             /\ desk \in Grabs

PicturesInit ==
    /\ Init
    /\ OpenTest \/ OpenGnome
    /\ prev = desk /\ pending = TRUE /\ since = 0
    /\ tex = [p \in Pixels(display) |-> Blank]

Send(rs, c) == tex' = Upload(tex, display, rs, c)

PatternFrame == /\ kind = "test"
                /\ NextFrame
                /\ Send(rects', canvas')
                /\ UNCHANGED <<kind, display, gnome>>

-----------------------------------------------------------------------------
(* gnome.  The first frame is the one grabbed by open.                       *)

FirstFrame == /\ kind = "gnome" /\ pending
              /\ pending' = FALSE
              /\ Send({Whole(prev.size)}, prev.canvas)
              /\ UNCHANGED <<vars, kind, display, desk, prev, since>>

Resized == desk'.size # prev.size

\* Fault: the full frame comes one canvas late.
FullNowFault == since + 1 > GnomeFullEvery

FullNow == since + 1 >= GnomeFullEvery

Dirty   == DirtyRects(prev.canvas, desk'.canvas, prev.size, MaxRects)

\* What is packed is nearly as much as the whole picture.
NearFull(rs) ==
    4 * MapThenFoldSet(+, 0, Area, LAMBDA S : CHOOSE r \in S : TRUE, rs)
      > 3 * Area(Whole(prev.size))

SendFull == /\ prev' = desk' /\ since' = 0
            /\ Send({Whole(desk'.size)}, desk'.canvas)

SendDamage(rs) == /\ prev' = desk' /\ since' = since + 1
                  /\ Send(rs, desk'.canvas)

\* The canvas is the one sent last: the next one is awaited.
SendNothing == since' = since + 1 /\ UNCHANGED <<prev, tex>>

Grab == /\ kind = "gnome" /\ ~pending
        /\ desk' \in Grabs
        /\ \/ (Resized \/ FullNow) /\ SendFull
           \/ /\ ~Resized /\ ~FullNow
              /\ \E rs \in {Dirty} :
                   \/ rs = {} /\ SendNothing
                   \/ rs # {} /\ ~NearFull(rs) /\ SendDamage(rs)
                   \/ NearFull(rs) /\ SendFull
        /\ UNCHANGED <<vars, kind, display, pending>>

PicturesNext == PatternFrame \/ FirstFrame \/ Grab

PicturesSpec == PicturesInit /\ [][PicturesNext]_allVars

-----------------------------------------------------------------------------
(* Properties.                                                               *)

PicturesTypeOK ==
    /\ kind \in {"test", "gnome"} /\ display \in Sizes \cup Streams
    /\ desk \in Grabs /\ prev \in Grabs /\ pending \in BOOLEAN
    /\ since \in 0..(GnomeFullEvery - 1)
    /\ tex \in [Pixels(display) -> 0..3 \cup {Blank}]

(* The phone shows what the source shows: the elements where they are, or the *)
(* canvas grabbed last, pixel by pixel, also after the stream had another     *)
(* size for a while.                                                        *)
TextureExact ==
    /\ kind = "test" /\ ~first => tex = Scene(Elements)
    /\ kind = "gnome" /\ ~pending /\ desk.size = display => tex = desk.canvas

(* The periods of full frames are kept, and the texture is exact.             *)
PictureSafe == PicturesTypeOK /\ TextureExact

(* Damage is minimal and what the other side accepts: the rectangles that are  *)
(* compared out of two canvases lie in the picture and are no more than the   *)
(* limit; unless they are the whole picture, no pixel is in two of them, none *)
(* holds a tile in which nothing changed, and no two of them could be one.    *)
Adjoin(a, b) == a.x = b.x /\ a.w = b.w /\ a.y + a.h = b.y
Changed(r)   == \E p \in Pixels(prev.size) :
                   Inside(p, r) /\ prev.canvas[p] # desk'.canvas[p]
Minimal(rs)  ==
    /\ \A r, s \in rs : r # s => ~HasArea(Intersect(r, s)) /\ ~Adjoin(r, s)
    /\ \A tx \in 0..(prev.size.w \div TILE), ty \in 0..(prev.size.h \div TILE) :
         LET tile == TileRect(prev.size, tx, ty)
         IN  (\E r \in rs : HasArea(Intersect(r, tile))) => Changed(tile)
DamageIsMinimal ==
    [][kind = "gnome" /\ desk' # desk /\ ~Resized =>
         \E rs \in {Dirty} :
           /\ Cardinality(rs) \in 1..MaxRects
           /\ \A r \in rs : HasArea(r) /\ Within(r, prev.size)
           /\ rs # {Whole(prev.size)} => Minimal(rs)]_allVars
=============================================================================
