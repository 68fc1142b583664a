-------------------------------- MODULE Resync --------------------------------
(***************************************************************************)
(* Does the phone show the desktop?  A frame source (the test pattern, or    *)
(* gnome's virtual monitor compared tile by tile with what was sent last)    *)
(* makes full frames and damage frames; any of them may be lost at the queue *)
(* to the writer; the client's renderer collects what arrives and applies it *)
(* to a texture.  Connections break and come back, the GL context is lost,   *)
(* the captured stream changes its size, gnome's grabber dies.               *)
(*                                                                         *)
(* The picture is one row of tiles.  host/src/gnome/source.rs, damage.rs and *)
(* testsource.rs make the frames, server.rs offers them, FrameRenderer.kt    *)
(* draws them.                                                              *)
(***************************************************************************)
EXTENDS Integers, Sequences, FiniteSets

CONSTANTS
    Widths,         \* widths, in tiles, the captured stream may have
    Shown,          \* width announced in DISPLAY_INFO
    Colours,        \* what a tile may show
    Black,          \* ... of which one is all a source without its grabber has
    Blank,          \* what a new texture shows
    Sources,        \* whether the source may be clocked: the pattern, not gnome
    FullEvery,      \* frames from one periodic full frame to the next
    MaxRects,       \* more damage rectangles than this become a full frame
    ChannelCap,     \* frames on their way: queue, writer, socket, client
    PendingCap,     \* frames the renderer keeps (8 in the code)
    MaxLosses,      \* bound: frames lost at the queue, and lost GL contexts
    MaxBreaks,      \* bound: broken connections
    MaxChanges,     \* bound: changes of gnome's desktop, 0 = none
    MaxResizes      \* bound: changes of the stream's width

ASSUME ResyncAssumption ==
    /\ Widths \subseteq Nat \ {0} /\ IsFiniteSet(Widths)
    /\ Shown \in Widths
    /\ Black \in Colours /\ Blank \notin Colours
    /\ Sources \subseteq BOOLEAN
    /\ FullEvery \in Nat \ {0}
    /\ MaxRects \in Nat \ {0}
    /\ ChannelCap \in Nat \ {0} /\ PendingCap \in Nat \ {0}
    /\ {MaxLosses, MaxBreaks, MaxChanges, MaxResizes} \subseteq Nat

VARIABLES
    clocked,        \* the source is the test pattern
    desk,           \* what the virtual monitor, or the pattern, shows
    news,           \* it changed since it was grabbed last
    grabber,        \* gnome's: runs, is dead, or its death was met by a read
    up, first,      \* connected; the source has not made its first frame
    prev, since,    \* gnome: canvas compared against; frames since a full one
    channel,        \* frames accepted by the queue, not yet received
    pending,        \* renderer: frames received and not drawn
    tex,            \* renderer: the texture
    lost,           \* history: tiles whose newest content the client will
                    \* not get from what was accepted
    losses, breaks, changes, resizes

sourceVars == <<clocked, prev, since>>
clientVars == <<pending, tex>>
bounds     == <<losses, breaks, changes, resizes>>
vars == <<desk, news, grabber, up, first, sourceVars, channel, clientVars, lost, bounds>>

Canvas(w)   == [1..w -> Colours]
AllCanvases == UNION {Canvas(w) : w \in Widths}
Width(c)    == Cardinality(DOMAIN c)
Display     == 1..Shown

-----------------------------------------------------------------------------
(* A frame is what its rectangles carry: the content of some of the tiles,    *)
(* or of all of them.  Neighbouring tiles are one rectangle.                 *)

DamageFrame(T, c) == [t \in T |-> c[t]]
FullFrame(c)      == c
Frames == UNION {[T -> Colours] : T \in SUBSET (UNION {1..w : w \in Widths})}

(* dirty_rects: the tiles that differ; a rectangle per run of neighbours.     *)
Dirty(a, b) == {t \in DOMAIN b : a[t] # b[t]}
Runs(T)     == Cardinality({t \in T : t - 1 \notin T})

(* Too many rectangles, or nearly everything: a full frame is cheaper.        *)
Large(T, w) == Runs(T) > MaxRects \/ 4 * Cardinality(T) > 3 * w

(* The tiles of a frame the renderer uploads: a rectangle that does not fit   *)
(* into the announced display is skipped.                                    *)
Drawn(f) == {t \in DOMAIN f : t <= Shown /\ ~ (t..(Shown + 1) \subseteq DOMAIN f)}

Covers(fs)    == UNION {Drawn(fs[i]) : i \in 1..Len(fs)}
LastOf(S)     == CHOOSE i \in S : \A j \in S : j <= i
Showing(fs, t) == LET by == {i \in 1..Len(fs) : t \in Drawn(fs[i])}
                  IN  IF by = {} THEN tex[t] ELSE fs[LastOf(by)][t]

Init ==
    /\ clocked \in Sources
    /\ desk \in Canvas(Shown) /\ news = FALSE /\ grabber = "runs"
    /\ up = FALSE /\ first = FALSE
    /\ prev = desk /\ since = 0
    /\ channel = <<>> /\ pending = <<>>
    /\ tex = [t \in Display |-> Blank]
    /\ lost = 1..Width(desk) \cup Display
    /\ losses = 0 /\ breaks = 0 /\ changes = 0 /\ resizes = 0

-----------------------------------------------------------------------------
(* The desktop (gnome).  What changes after the grabber's death is not seen;   *)
(* a canvas it left in the pipe is read first, which the change cannot tell.  *)

Desktop == /\ ~clocked
           /\ \/ grabber = "runs" /\ news' = TRUE
              \/ grabber # "runs" /\ ~news /\ UNCHANGED news
           /\ UNCHANGED <<grabber, up, first, sourceVars, channel, clientVars, lost,
                          losses, breaks>>

Change == /\ Desktop
          /\ changes < MaxChanges
          /\ changes' = changes + 1
          /\ \E t \in DOMAIN desk, c \in Colours :
               desk[t] # c /\ desk' = [desk EXCEPT ![t] = c]
          /\ UNCHANGED resizes

Resize == /\ Desktop
          /\ resizes < MaxResizes
          /\ resizes' = resizes + 1
          /\ desk' \in AllCanvases
          /\ Width(desk') # Width(desk)
          /\ UNCHANGED changes

(* The grabber ends, with what it had still to write or after it.             *)
GrabberDies == /\ up /\ ~clocked
               /\ grabber = "runs"
               /\ grabber' = "dead"
               /\ news' \in {news, FALSE}
               /\ UNCHANGED <<desk, up, first, sourceVars, channel, clientVars, lost,
                              bounds>>

-----------------------------------------------------------------------------
(* Connections.  A source is opened for each; gnome's first frame is grabbed  *)
(* while it is opened, by a grabber of its own, which is killed at the end.    *)
(* The client forgets the frames it has not drawn and keeps the texture.      *)

Connect == /\ ~up
           /\ up' = TRUE /\ first' = TRUE
           /\ prev' = desk /\ since' = 0
           /\ news' = FALSE /\ grabber' = "runs"
           /\ pending' = <<>>
           /\ lost' = DOMAIN desk \cup Display
           /\ UNCHANGED <<clocked, desk, channel, tex, bounds>>

Break == /\ up
         /\ breaks < MaxBreaks
         /\ breaks' = breaks + 1
         /\ up' = FALSE /\ first' = FALSE
         /\ channel' = <<>>
         /\ news' = FALSE
         /\ lost' = DOMAIN desk \cup Display
         /\ UNCHANGED <<desk, grabber, sourceVars, clientVars, losses, changes, resizes>>

-----------------------------------------------------------------------------
(* The source.  A frame is offered to the queue and lost if that is full.     *)

Offer(f) ==
    \/ /\ Len(channel) < ChannelCap
       /\ channel' = Append(channel, f)
       /\ lost' = (lost \cup DOMAIN f) \ Drawn(f)
       /\ UNCHANGED losses
    \/ /\ losses < MaxLosses
       /\ losses' = losses + 1
       /\ lost' = lost \cup DOMAIN f
       /\ UNCHANGED channel

(* gnome: the frame grabbed by open is handed out as it is.                   *)
FirstFrame == /\ up /\ first /\ ~clocked
              /\ first' = FALSE
              /\ Offer(FullFrame(prev))
              /\ UNCHANGED <<desk, news, grabber, up, sourceVars, clientVars, breaks,
                             changes, resizes>>

Grabbing == /\ up /\ ~first /\ ~clocked /\ news
            /\ news' = FALSE
            /\ UNCHANGED <<clocked, desk, grabber, up, first, clientVars, breaks,
                           changes, resizes>>

Due     == since + 1 >= FullEvery
Resized == Width(desk) # Width(prev)
Damage  == Dirty(prev, desk)

\* Fault: a canvas is skipped although something changed.
GrabNothingFault == /\ Grabbing
                    /\ ~Resized /\ ~Due
                    /\ since' = since + 1
                    /\ UNCHANGED <<prev, channel, lost, losses>>

(* to_client_frame: the canvas is unchanged, and the next one is awaited.     *)
GrabNothing == /\ Grabbing
               /\ ~Resized /\ ~Due /\ Damage = {}
               /\ since' = since + 1
               /\ UNCHANGED <<prev, channel, lost, losses>>

(* ... another size, the periodic full frame, or too much damage.             *)
GrabFull == /\ Grabbing
            /\ \/ Resized
               \/ ~Resized /\ Due
               \/ ~Resized /\ ~Due /\ Large(Damage, Width(desk))
            /\ prev' = desk
            /\ since' = 0
            /\ Offer(FullFrame(desk))

GrabDamage == /\ Grabbing
              /\ ~Resized /\ ~Due /\ Damage # {} /\ ~Large(Damage, Width(desk))
              /\ prev' = desk
              /\ since' = since + 1
              /\ Offer(DamageFrame(Damage, desk))

(* Nothing is left in the pipe of a dead grabber: a black frame of the size of *)
(* the last canvas, now and at every later call.  prev is what it was.        *)
BlankFrame == [t \in DOMAIN prev |-> Black]

\* Fault: the last canvas is offered again.
GrabBlankFault == /\ up /\ ~first /\ ~clocked /\ ~news
                  /\ grabber # "runs"
                  /\ grabber' = "blank"
                  /\ Offer(FullFrame(prev))
                  /\ UNCHANGED <<desk, news, up, first, sourceVars, clientVars, breaks,
                                 changes, resizes>>

GrabBlank == /\ up /\ ~first /\ ~clocked /\ ~news
             /\ grabber # "runs"
             /\ grabber' = "blank"
             /\ Offer(FullFrame(BlankFrame))
             /\ UNCHANGED <<desk, news, up, first, sourceVars, clientVars, breaks,
                            changes, resizes>>

\* Fault: full frames are made first and never again.
TickFault == /\ up /\ clocked
             /\ first' = FALSE
             /\ since' = (since + 1) % FullEvery
             /\ \E T \in SUBSET Display \ {{}} : \E c \in Canvas(Shown) :
                  /\ Dirty(desk, c) \subseteq T
                  /\ desk' = c
                  /\ IF first THEN Offer(FullFrame(c)) ELSE Offer(DamageFrame(T, c))
             /\ prev' = desk'
             /\ UNCHANGED <<clocked, news, grabber, up, clientVars, breaks, changes,
                            resizes>>

(* The test pattern moves at every tick, inside the rectangles it reports.    *)
(* "since" is the number of frames made, modulo the period.                   *)
Tick == /\ up /\ clocked
        /\ first' = FALSE
        /\ since' = (since + 1) % FullEvery
        /\ \E T \in SUBSET Display \ {{}} : \E c \in Canvas(Shown) :
             /\ Dirty(desk, c) \subseteq T
             /\ desk' = c
             /\ IF first \/ since' = 0 THEN Offer(FullFrame(c))
                                       ELSE Offer(DamageFrame(T, c))
        /\ prev' = desk'
        /\ UNCHANGED <<clocked, news, grabber, up, clientVars, breaks, changes,
                       resizes>>

Source == FirstFrame \/ GrabNothing \/ GrabFull \/ GrabDamage \/ GrabBlank \/ Tick

-----------------------------------------------------------------------------
(* The renderer.                                                             *)

\* Fault: nothing bounds the frames that wait to be drawn.
SubmitUnboundedFault(f) ==
    pending' = IF DOMAIN f = Display THEN <<f>> ELSE Append(pending, f)

\* Fault: every frame makes the ones before it superfluous.
SubmitLatestFault(f) == pending' = <<f>>

(* submit: a frame of the display's size makes those before it superfluous;   *)
(* beyond the cap the oldest is dropped.                                     *)
Submit(f) ==
    LET kept == IF DOMAIN f = Display THEN <<f>> ELSE Append(pending, f)
    IN  pending' = IF Len(kept) > PendingCap THEN Tail(kept) ELSE kept

Dropped == IF Len(pending) = PendingCap /\ Len(pending') = PendingCap
           THEN Drawn(Head(pending)) ELSE {}

Receive == /\ channel # <<>>
           /\ channel' = Tail(channel)
           /\ Submit(Head(channel))
           /\ lost' = lost \cup (Dropped \ Covers(pending' \o channel'))
           /\ UNCHANGED <<desk, news, grabber, up, first, sourceVars, tex, bounds>>

(* onDrawFrame uploads everything that is pending, in order.                  *)
Draw == /\ pending # <<>>
        /\ tex' = [t \in Display |-> Showing(pending, t)]
        /\ pending' = <<>>
        /\ UNCHANGED <<desk, news, grabber, up, first, sourceVars, channel, lost, bounds>>

DrawFull == Draw /\ \E i \in 1..Len(pending) : DOMAIN pending[i] = Display

(* The GL context was lost: the new texture is empty.                         *)
SurfaceLost == /\ losses < MaxLosses
               /\ losses' = losses + 1
               /\ tex' = [t \in Display |-> Blank]
               /\ lost' = lost \cup (Display \ Covers(pending \o channel))
               /\ UNCHANGED <<desk, news, grabber, up, first, sourceVars, channel,
                              pending, breaks, changes, resizes>>

Client == Receive \/ Draw

Next == \/ Change \/ Resize \/ GrabberDies
        \/ Connect \/ Break \/ Source \/ Client \/ SurfaceLost

Spec == Init /\ [][Next]_vars

(* The threads run.  A source that loses no more frames is one whose client   *)
(* keeps up: past MaxLosses it waits for room.  The GL thread, told of every   *)
(* frame, is not PendingCap frames late for every full one.                  *)
FairSpec == /\ Spec
            /\ WF_vars(Connect) /\ WF_vars(Source)
            /\ WF_vars(Receive) /\ WF_vars(Draw) /\ SF_vars(DrawFull)

-----------------------------------------------------------------------------
(* Properties.                                                               *)

TypeOK ==
    /\ clocked \in BOOLEAN
    /\ desk \in AllCanvases /\ prev \in AllCanvases
    /\ grabber \in {"runs", "dead", "blank"}
    /\ news \in BOOLEAN /\ up \in BOOLEAN /\ first \in BOOLEAN
    /\ since \in 0..FullEvery
    /\ channel \in Seq(Frames) /\ Len(channel) <= ChannelCap
    /\ pending \in Seq(Frames) /\ Len(pending) <= PendingCap
    /\ tex \in [Display -> Colours \cup {Blank}]
    /\ losses \in 0..MaxLosses /\ breaks \in 0..MaxBreaks
    /\ changes \in 0..MaxChanges /\ resizes \in 0..MaxResizes

(* What the source made of the picture last: the canvas it compared against,  *)
(* or black once it met the death of its grabber.                            *)
Made == IF grabber = "blank" THEN BlankFrame ELSE prev

(* Once what is on its way has been drawn, every tile shows what the source    *)
(* made of it last, unless its newest content was lost and no later frame     *)
(* that covers it was accepted.  Comparing, splitting off the damage,          *)
(* collecting and drawing leave no trace of their own: not of tiles left out,  *)
(* not of the order of drawing, not of frames cleared as superfluous; and      *)
(* when a grabber is dead nothing of its last canvas stays.                   *)
ExactButForLoss ==
    \A t \in Display \cap DOMAIN prev :
       up /\ t \notin lost => Showing(pending \o channel, t) = Made[t]

(* The pattern's last frame shows the pattern, on the announced display, and   *)
(* has no grabber that could die.                                            *)
PatternInStep == clocked => prev = desk /\ DOMAIN desk = Display /\ grabber = "runs"

(* Neither the frame of open nor a canvas comes after a black frame.          *)
BlackIsLast == grabber = "blank" => ~first /\ ~news

(* The queues stay within their bounds, and what is shown is exact.           *)
ShownSafe == TypeOK /\ PatternInStep /\ BlackIsLast /\ ExactButForLoss

(* A loss is repaired: if a tile's content was lost (at the full queue, at    *)
(* the renderer's cap, with the GL context), a later frame that covers it is  *)
(* accepted, for as long as the connection lives.  This is the purpose of     *)
(* the periodic full frames.                                                *)
RecoveryIsBounded == (up /\ lost # {}) ~> (~up \/ lost = {})

(* The clocked test pattern repairs every loss, also of a frame dropped by the *)
(* renderer: while a connection lasts, full frames are drawn again and again. *)
PatternRecovers == []<>(~clocked \/ ~up) \/ []<><<DrawFull>>_vars

(* When gnome's desktop comes to rest, every tile of it that was not lost      *)
(* comes to be shown, also after broken connections; when the grabber is dead, *)
(* which ends no connection, black is shown of every tile of its last canvas.  *)
DesktopShown == /\ grabber = "runs"
                /\ \A t \in Display \cap DOMAIN desk : t \notin lost => tex[t] = desk[t]
BlackShown   == /\ grabber = "blank"
                /\ \A t \in Display \cap DOMAIN prev : t \notin lost => tex[t] = Black
SettlesButForLoss == <>[](clocked \/ DesktopShown \/ BlackShown)
=============================================================================
