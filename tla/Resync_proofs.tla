---------------------------- MODULE Resync_proofs ----------------------------
(***************************************************************************)
(* Proofs about Resync, for every width, palette, period and capacity, and   *)
(* for every number of losses, of broken connections and of changes: what is *)
(* shown once everything on its way has been drawn is exact but for what was *)
(* lost.                                                                    *)
(***************************************************************************)
EXTENDS Resync, TLAPS, WellFoundedInduction, FiniteSetTheorems

-----------------------------------------------------------------------------
(* The last of the frames that draw a tile.                                  *)

(* A set of positions that is not empty has a last one: the least of the      *)
(* positions that no member exceeds.                                        *)
LEMMA LastExists ==
    ASSUME NEW n \in Nat, NEW S \in SUBSET (1..n), S # {}
    PROVE  \E i \in S : \A j \in S : j <= i
<1> DEFINE Less  == OpToRel(<, Nat)
           Above == {b \in Nat : \A j \in S : j <= b}
<1>1. \A a, b \in Nat : a < b => <<a, b>> \in Less
  BY DEF OpToRel
<1>2. IsWellFoundedOn(Less, Nat)
  BY NatLessThanWellFounded
<1>3. Above # {} /\ Above \subseteq Nat
  OBVIOUS
<1> HIDE DEF Less
<1>4. \E b \in Above : \A a \in Above : ~ (<<a, b>> \in Less)
  <2> HIDE DEF Above
  <2> QED
    BY <1>2, <1>3, WFMin
<1>5. PICK b \in Above : \A a \in Above : ~ (<<a, b>> \in Less)
  BY <1>4
<1>6. ASSUME b \notin S PROVE FALSE
  <2>1. b \in Nat /\ \A j \in S : j \in Nat /\ j <= b /\ j # b
    BY <1>6
  <2>2. PICK j \in S : TRUE
    OBVIOUS
  <2>3. b - 1 \in Above
    BY <2>1, <2>2
  <2>4. <<b - 1, b>> \in Less
    BY <1>1, <2>1, <2>3
  <2> QED
    BY <1>5, <2>3, <2>4
<1> QED
  BY <1>6

(* LastOf is that position.                                                  *)
LEMMA LastOfIsLast ==
    ASSUME NEW n \in Nat, NEW S \in SUBSET (1..n), S # {}
    PROVE  LastOf(S) \in S /\ \A j \in S : j <= LastOf(S)
BY LastExists DEF LastOf

(* ... and no other is.                                                      *)
LEMMA LastOfUnique ==
    ASSUME NEW n \in Nat, NEW S \in SUBSET (1..n), NEW i \in S, \A j \in S : j <= i
    PROVE  LastOf(S) = i
<1>1. LastOf(S) \in S /\ i <= LastOf(S)
  BY LastOfIsLast
<1>2. \A j \in S : j \in Int
  OBVIOUS
<1> DEFINE l == LastOf(S)
<1>3. i <= l /\ l <= i /\ l \in Int /\ i \in Int
  BY <1>1, <1>2
<1> HIDE DEF l
<1>4. l = i
  BY <1>3
<1> QED
  BY <1>4 DEF l

-----------------------------------------------------------------------------
(* Drawing a sequence of frames on a texture.                                *)

(* The frames of a sequence that draw a tile, and what the texture x shows of *)
(* the tile after all of them.                                              *)
By(fs, t) == {i \in 1..Len(fs) : t \in Drawn(fs[i])}
Shows(x, fs, t) == IF By(fs, t) = {} THEN x[t] ELSE fs[LastOf(By(fs, t))][t]

(* Showing is about the renderer's own texture.                              *)
LEMMA ShowingIsShows == \A fs, t : Showing(fs, t) = Shows(tex, fs, t)
BY DEF Showing, Shows, By


(* A tile is covered by a sequence if some frame of it draws the tile.        *)
LEMMA CoveredBySome == \A fs, t : t \in Covers(fs) <=> By(fs, t) # {}
BY DEF Covers, By

(* Of two sequences, one drawn after the other, the second decides what the   *)
(* tiles it covers show, whatever was shown before; the first decides the     *)
(* others.                                                                  *)
LEMMA TheLaterDecides ==
    ASSUME NEW a \in Seq(Frames), NEW b \in Seq(Frames), NEW t, NEW x, NEW y
    PROVE  Shows(x, a \o b, t) = IF t \in Covers(b) THEN Shows(y, b, t)
                                                    ELSE Shows(x, a, t)
<1> DEFINE S == By(a \o b, t)
<1>0. /\ Len(a) \in Nat /\ Len(b) \in Nat /\ Len(a \o b) = Len(a) + Len(b)
      /\ \A i \in 1..Len(a) : (a \o b)[i] = a[i]
      /\ \A i \in 1..Len(b) : (a \o b)[Len(a) + i] = b[i]
  OBVIOUS
<1>1. S \in SUBSET (1..Len(a \o b)) /\ Len(a \o b) \in Nat
  BY <1>0 DEF By
<1>2. CASE t \in Covers(b)
  <2>1. By(b, t) # {} /\ By(b, t) \in SUBSET (1..Len(b))
    BY <1>2, CoveredBySome DEF By
  <2> DEFINE j == LastOf(By(b, t))
  <2>2. j \in By(b, t) /\ \A i \in By(b, t) : i <= j
    BY <1>0, <2>1, LastOfIsLast
  <2>3. j \in 1..Len(b) /\ t \in Drawn(b[j])
    BY <2>2 DEF By
  <2> HIDE DEF j
  <2>4. Len(a) + j \in S
    BY <1>0, <2>3 DEF By
  <2>5. ASSUME NEW i \in S PROVE i <= Len(a) + j
    <3>1. i \in 1..(Len(a) + Len(b)) /\ t \in Drawn((a \o b)[i])
      BY <1>0, <2>5 DEF By
    <3>2. CASE i <= Len(a)
      BY <1>0, <2>3, <3>1, <3>2
    <3>3. CASE i > Len(a)
      <4>1. i - Len(a) \in 1..Len(b) /\ (a \o b)[Len(a) + (i - Len(a))] = b[i - Len(a)]
        BY <1>0, <3>1, <3>3
      <4>2. Len(a) + (i - Len(a)) = i
        BY <1>0, <3>1
      <4>3. i - Len(a) \in By(b, t)
        BY <3>1, <4>1, <4>2 DEF By
      <4> QED
        BY <1>0, <2>2, <2>3, <3>1, <4>3
    <3> QED
      BY <1>0, <3>1, <3>2, <3>3
  <2>6. LastOf(S) = Len(a) + j
    BY <1>1, <2>4, <2>5, LastOfUnique
  <2>7. Shows(x, a \o b, t) = (a \o b)[Len(a) + j][t]
    BY <2>4, <2>6 DEF Shows
  <2>8. Shows(y, b, t) = b[j][t]
    BY <2>1 DEF Shows, j
  <2> QED
    BY <1>0, <1>2, <2>3, <2>7, <2>8
<1>3. CASE t \notin Covers(b)
  <2>1. By(b, t) = {}
    BY <1>3, CoveredBySome
  <2>2. ASSUME NEW i \in S PROVE i \in By(a, t)
    <3>1. i \in 1..(Len(a) + Len(b)) /\ t \in Drawn((a \o b)[i])
      BY <1>0, <2>2 DEF By
    <3>2. ASSUME i > Len(a) PROVE FALSE
      <4>1. i - Len(a) \in 1..Len(b) /\ (a \o b)[Len(a) + (i - Len(a))] = b[i - Len(a)]
        BY <1>0, <3>1, <3>2
      <4>2. Len(a) + (i - Len(a)) = i
        BY <1>0, <3>1
      <4> QED
        BY <2>1, <3>1, <4>1, <4>2 DEF By
    <3>3. i \in 1..Len(a)
      BY <1>0, <3>1, <3>2
    <3> QED
      BY <1>0, <3>1, <3>3 DEF By
  <2>3. ASSUME NEW i \in By(a, t) PROVE i \in S
    BY <1>0, <2>3 DEF By
  <2>4. S = By(a, t)
    BY <2>2, <2>3
  <2>5. CASE S = {}
    BY <1>3, <2>4, <2>5 DEF Shows
  <2>6. CASE S # {}
    <3>1. LastOf(S) \in By(a, t)
      BY <1>1, <2>4, <2>6, LastOfIsLast
    <3>2. (a \o b)[LastOf(S)] = a[LastOf(S)]
      BY <1>0, <3>1 DEF By
    <3> QED
      BY <1>3, <2>4, <2>6, <3>2 DEF Shows
  <2> QED
    BY <2>5, <2>6
<1> QED
  BY <1>2, <1>3

(* Adding a frame at the end.                                                *)
LEMMA ShowsAppend ==
    ASSUME NEW fs \in Seq(Frames), NEW f \in Frames, NEW t, NEW x
    PROVE  Shows(x, Append(fs, f), t) = IF t \in Drawn(f) THEN f[t] ELSE Shows(x, fs, t)
<1> DEFINE one == <<f>>
<1>1. one \in Seq(Frames) /\ Append(fs, f) = fs \o one /\ one[1] = f
  OBVIOUS
<1>2. By(one, t) = IF t \in Drawn(f) THEN {1} ELSE {}
  BY DEF By
<1> HIDE DEF one
<1>3. t \in Covers(one) <=> t \in Drawn(f)
  BY <1>2, CoveredBySome
<1>4. Shows(x, fs \o one, t) = IF t \in Covers(one) THEN Shows(x, one, t)
                                                    ELSE Shows(x, fs, t)
  BY <1>1, TheLaterDecides
<1>5. CASE t \in Drawn(f)
  <2>1. LastOf({1}) = 1
    BY LastOfUnique, {1} \in SUBSET (1..1), 1 \in Nat
  <2>2. Shows(x, one, t) = f[t]
    BY <1>1, <1>2, <1>5, <2>1 DEF Shows
  <2> QED
    BY <1>1, <1>3, <1>4, <1>5, <2>2
<1> QED
  BY <1>1, <1>3, <1>4, <1>5

(* What a tile shows is a colour, or what the texture showed.                 *)
LEMMA ShowsColour ==
    ASSUME NEW fs \in Seq(Frames), NEW t, NEW x
    PROVE  Shows(x, fs, t) \in Colours \cup {x[t]}
<1>1. CASE By(fs, t) = {}
  BY <1>1 DEF Shows
<1>2. CASE By(fs, t) # {}
  <2>1. By(fs, t) \in SUBSET (1..Len(fs)) /\ Len(fs) \in Nat
    BY DEF By
  <2>2. PICK i \in By(fs, t) : i = LastOf(By(fs, t))
    BY <1>2, <2>1, LastOfIsLast
  <2>3. i \in 1..Len(fs) /\ t \in Drawn(fs[i])
    BY <2>2 DEF By
  <2>4. fs[i] \in Frames /\ t \in DOMAIN fs[i]
    BY <2>3 DEF Drawn
  <2>5. fs[i][t] \in Colours
    BY <2>4 DEF Frames
  <2> QED
    BY <1>2, <2>2, <2>5 DEF Shows
<1> QED
  BY <1>1, <1>2

(* A covered tile shows the same on every texture.                           *)
LEMMA CoveredForgets ==
    ASSUME NEW fs, NEW t \in Covers(fs), NEW x, NEW y
    PROVE  Shows(x, fs, t) = Shows(y, fs, t)
BY CoveredBySome DEF Shows

(* A frame of the display's size draws all of the display.                    *)
LEMMA FullDrawsAll ==
    ASSUME NEW f, DOMAIN f = Display PROVE Drawn(f) = Display
<1>1. Shown \in Nat
  BY ResyncAssumption
<1>2. \A t \in 1..Shown : Shown + 1 \in t..(Shown + 1)
  BY <1>1
<1>3. Shown + 1 \notin 1..Shown /\ \A t \in 1..Shown : t <= Shown
  BY <1>1
<1>4. \A t \in 1..Shown : t <= Shown /\ ~ (t..(Shown + 1) \subseteq 1..Shown)
  BY <1>2, <1>3
<1> QED
  BY <1>4 DEF Drawn, Display

-----------------------------------------------------------------------------
(* Frames.                                                                   *)

LEMMA CanvasFacts ==
    /\ \A c \in AllCanvases : c \in Frames /\ Width(c) \in Nat /\ DOMAIN c = 1..Width(c)
    /\ \A c \in AllCanvases : c \in [DOMAIN c -> Colours]
    /\ \A c \in Canvas(Shown) : c \in AllCanvases /\ DOMAIN c = Display
    /\ \A c \in AllCanvases : \A T \in SUBSET DOMAIN c : DamageFrame(T, c) \in Frames
<1>1. ASSUME NEW c \in AllCanvases
      PROVE  /\ c \in Frames /\ Width(c) \in Nat /\ DOMAIN c = 1..Width(c)
             /\ c \in [DOMAIN c -> Colours]
             /\ \A T \in SUBSET DOMAIN c : DamageFrame(T, c) \in Frames
  <2>1. PICK w \in Widths : c \in [1..w -> Colours]
    BY DEF AllCanvases, Canvas
  <2>2. w \in Nat \ {0}
    BY ResyncAssumption
  <2>3. Cardinality(1..w) = w
    BY <2>2, FS_Interval
  <2>4. DOMAIN c \in SUBSET (UNION {1..v : v \in Widths})
    BY <2>1
  <2>5. ASSUME NEW T \in SUBSET DOMAIN c PROVE DamageFrame(T, c) \in Frames
    <3>1. DamageFrame(T, c) \in [T -> Colours]
      BY <2>1 DEF DamageFrame
    <3>2. T \in SUBSET (UNION {1..v : v \in Widths})
      BY <2>4
    <3> QED
      BY <3>1, <3>2 DEF Frames
  <2>6. c \in Frames
    BY <2>1, <2>4 DEF Frames
  <2> QED
    BY <2>1, <2>2, <2>3, <2>5, <2>6 DEF Width
<1>2. ASSUME NEW c \in Canvas(Shown) PROVE c \in AllCanvases /\ DOMAIN c = Display
  BY ResyncAssumption DEF Canvas, AllCanvases, Display
<1> QED
  BY <1>1, <1>2

-----------------------------------------------------------------------------
(* The source.                                                               *)

(* A frame that is offered stays within the queue's and the losses' bounds.   *)
LEMMA OfferType ==
    ASSUME TypeOK, NEW f \in Frames, Offer(f)
    PROVE  /\ channel' \in Seq(Frames) /\ Len(channel') <= ChannelCap
           /\ losses' \in 0..MaxLosses
<1>1. ChannelCap \in Nat /\ MaxLosses \in Nat
  BY ResyncAssumption
<1>2. channel \in Seq(Frames) /\ Len(channel) <= ChannelCap /\ losses \in 0..MaxLosses
  BY DEF TypeOK
<1>3. CASE Len(channel) < ChannelCap /\ channel' = Append(channel, f) /\ losses' = losses
  BY <1>1, <1>2, <1>3
<1>4. CASE losses < MaxLosses /\ losses' = losses + 1 /\ channel' = channel
  BY <1>1, <1>2, <1>4
<1> QED
  BY <1>3, <1>4 DEF Offer

(* If what the source made is the frame's content where the frame has content *)
(* and what it was elsewhere, then what is shown stays exact but for losses,   *)
(* whether the frame is accepted or lost.                                    *)
LEMMA OfferExact ==
    ASSUME TypeOK, ExactButForLoss, NEW f \in Frames, Offer(f),
           up' = up, tex' = tex, pending' = pending,
           \A t \in Display \cap DOMAIN prev' :
              IF t \in DOMAIN f THEN Made'[t] = f[t]
                                ELSE t \in DOMAIN prev /\ Made'[t] = Made[t]
    PROVE  ExactButForLoss'
<1>1. SUFFICES ASSUME NEW t \in Display \cap DOMAIN prev', up, t \notin lost'
               PROVE  Shows(tex, pending \o channel', t) = Made'[t]
  BY ShowingIsShows DEF ExactButForLoss, Made, BlankFrame, Showing, Shows, By
<1>2. pending \in Seq(Frames) /\ channel \in Seq(Frames) /\ pending \o channel \in Seq(Frames)
  BY DEF TypeOK
<1>3. ASSUME t \notin DOMAIN f, t \notin lost
      PROVE  Shows(tex, pending \o channel, t) = Made'[t]
  BY <1>1, <1>3, ShowingIsShows DEF ExactButForLoss
<1>4. CASE channel' = Append(channel, f) /\ lost' = (lost \cup DOMAIN f) \ Drawn(f)
  <2>1. pending \o channel' = Append(pending \o channel, f)
    BY <1>2, <1>4
  <2>2. Shows(tex, pending \o channel', t) =
          IF t \in Drawn(f) THEN f[t] ELSE Shows(tex, pending \o channel, t)
    <3> DEFINE old == pending \o channel
    <3>1. old \in Seq(Frames)
      BY <1>2
    <3> HIDE DEF old
    <3>2. Shows(tex, Append(old, f), t) =
            IF t \in Drawn(f) THEN f[t] ELSE Shows(tex, old, t)
      BY <3>1, ShowsAppend
    <3> QED
      BY <2>1, <3>2 DEF old
  <2>3. CASE t \in Drawn(f)
    BY <1>1, <2>2, <2>3 DEF Drawn
  <2>4. CASE t \notin Drawn(f)
    BY <1>1, <1>3, <1>4, <2>2, <2>4
  <2> QED
    BY <2>3, <2>4
<1>5. CASE channel' = channel /\ lost' = lost \cup DOMAIN f
  BY <1>1, <1>3, <1>5
<1> QED
  BY <1>4, <1>5 DEF Offer

LEMMA SourceKeeps ==
    ASSUME ShownSafe, Source PROVE ShownSafe'
<1> USE DEF ShownSafe
<1>0. /\ FullEvery \in Nat \ {0} /\ since \in 0..FullEvery
      /\ prev \in AllCanvases /\ desk \in AllCanvases
      /\ prev \in Frames /\ desk \in Frames
  BY ResyncAssumption, CanvasFacts DEF TypeOK
<1>1. CASE FirstFrame
  <2>1. /\ Offer(prev) /\ prev' = prev /\ up' = up /\ tex' = tex /\ pending' = pending
        /\ first /\ grabber' = grabber
    BY <1>1 DEF FirstFrame, FullFrame, sourceVars, clientVars
  <2>2. Made' = prev
    BY <2>1 DEF Made, BlackIsLast
  <2>3. ExactButForLoss'
    BY <1>0, <2>1, <2>2, OfferExact
  <2>4. TypeOK' /\ PatternInStep' /\ BlackIsLast'
    BY <1>0, <1>1, <2>1, OfferType
    DEF FirstFrame, TypeOK, PatternInStep, BlackIsLast, sourceVars, clientVars
  <2> QED
    BY <2>3, <2>4
<1>2. CASE GrabNothing
  <2>1. since' = since + 1 /\ ~Due
    BY <1>2 DEF GrabNothing
  <2>2. since' \in 0..FullEvery
    BY <1>0, <2>1 DEF Due
  <2>3. TypeOK'
    BY <1>2, <2>2 DEF GrabNothing, Grabbing, TypeOK, clientVars
  <2>4. Made' = Made
    BY <1>2 DEF GrabNothing, Grabbing, Made, BlankFrame
  <2>5. ExactButForLoss' /\ PatternInStep' /\ BlackIsLast'
    BY <1>2, <2>4 DEF GrabNothing, Grabbing, ExactButForLoss, PatternInStep, BlackIsLast,
                      Showing, clientVars
  <2> QED
    BY <2>3, <2>5
<1>3. CASE GrabFull
  <2>1. /\ Offer(desk) /\ prev' = desk /\ desk' = desk /\ since' = 0
        /\ up' = up /\ tex' = tex /\ pending' = pending
        /\ news /\ grabber' = grabber
    BY <1>3 DEF GrabFull, Grabbing, FullFrame, clientVars
  <2>2. ExactButForLoss'
    <3>1. Made' = desk
      BY <2>1 DEF Made, BlackIsLast
    <3> QED
      BY <1>0, <2>1, <3>1, OfferExact
  <2>3. /\ ~clocked /\ clocked' = clocked /\ news' = FALSE /\ first' = first
        /\ breaks' = breaks /\ changes' = changes /\ resizes' = resizes
    BY <1>3 DEF GrabFull, Grabbing
  <2>4. /\ channel' \in Seq(Frames) /\ Len(channel') <= ChannelCap
        /\ losses' \in 0..MaxLosses /\ since' \in 0..FullEvery
    BY <1>0, <2>1, OfferType
  <2>5. TypeOK' /\ PatternInStep' /\ BlackIsLast'
    BY <1>0, <2>1, <2>3, <2>4 DEF TypeOK, PatternInStep, BlackIsLast
  <2> QED
    BY <2>2, <2>5
<1>4. CASE GrabDamage
  <2> DEFINE f == DamageFrame(Damage, desk)
  <2>1. /\ Offer(f) /\ prev' = desk /\ desk' = desk /\ since' = since + 1
        /\ up' = up /\ tex' = tex /\ pending' = pending /\ ~Resized /\ ~Due
        /\ news /\ grabber' = grabber
    BY <1>4 DEF GrabDamage, Grabbing, clientVars
  <2>2. Damage \in SUBSET DOMAIN desk
    BY DEF Damage, Dirty
  <2>3. f \in Frames /\ DOMAIN f = Damage /\ \A t \in Damage : f[t] = desk[t]
    BY <1>0, <2>2, CanvasFacts DEF DamageFrame
  <2>4. DOMAIN prev = DOMAIN desk
    BY <1>0, <2>1, CanvasFacts DEF Resized
  <2>5. \A t \in DOMAIN desk \ Damage : prev[t] = desk[t]
    BY DEF Damage, Dirty
  <2> HIDE DEF f
  <2>6. ExactButForLoss'
    <3>1. Made' = desk /\ Made = prev
      BY <2>1 DEF Made, BlackIsLast
    <3> QED
      BY <2>1, <2>3, <2>4, <2>5, <3>1, OfferExact
  <2>7. since' \in 0..FullEvery
    BY <1>0, <2>1 DEF Due
  <2>8. TypeOK' /\ PatternInStep' /\ BlackIsLast'
    BY <1>0, <1>4, <2>1, <2>3, <2>7, OfferType
    DEF GrabDamage, Grabbing, TypeOK, PatternInStep, BlackIsLast, clientVars
  <2> QED
    BY <2>6, <2>8
<1>5. CASE Tick
  <2>1. PICK T \in SUBSET Display \ {{}}, c \in Canvas(Shown) :
          /\ Dirty(desk, c) \subseteq T
          /\ desk' = c
          /\ IF first \/ since' = 0 THEN Offer(FullFrame(c))
                                    ELSE Offer(DamageFrame(T, c))
    BY <1>5 DEF Tick
  <2>2. /\ clocked /\ prev' = c /\ up' = up /\ tex' = tex /\ pending' = pending
        /\ since' = (since + 1) % FullEvery /\ first' = FALSE
        /\ clocked' = clocked /\ news' = news /\ breaks' = breaks
        /\ changes' = changes /\ resizes' = resizes /\ grabber' = grabber
    BY <1>5, <2>1 DEF Tick, clientVars
  <2>3. prev = desk /\ DOMAIN desk = Display /\ grabber = "runs"
    BY <2>2 DEF PatternInStep
  <2>4. c \in AllCanvases /\ DOMAIN c = Display
    BY CanvasFacts
  <2>5. PICK f \in Frames :
          /\ Offer(f)
          /\ \A t \in Display : IF t \in DOMAIN f THEN c[t] = f[t] ELSE c[t] = desk[t]
    <3>1. CASE first \/ since' = 0
      BY <2>1, <2>4, <3>1, CanvasFacts DEF FullFrame
    <3>2. CASE ~ (first \/ since' = 0)
      <4>1. DamageFrame(T, c) \in Frames
        BY <2>4, CanvasFacts
      <4>2. DOMAIN DamageFrame(T, c) = T /\ \A t \in T : DamageFrame(T, c)[t] = c[t]
        BY DEF DamageFrame
      <4>3. \A t \in Display \ T : c[t] = desk[t]
        BY <2>1, <2>4 DEF Dirty
      <4> QED
        BY <2>1, <3>2, <4>1, <4>2, <4>3
    <3> QED
      BY <3>1, <3>2
  <2>6. ExactButForLoss'
    <3>1. Made' = c /\ Made = desk
      BY <2>2, <2>3 DEF Made
    <3> QED
      BY <2>2, <2>3, <2>4, <2>5, <3>1, OfferExact
  <2>7. since' \in 0..FullEvery
    BY <1>0, <2>2
  <2>8. TypeOK'
    BY <2>1, <2>2, <2>4, <2>5, <2>7, OfferType DEF TypeOK
  <2>9. PatternInStep' /\ BlackIsLast'
    BY <2>1, <2>2, <2>3, <2>4 DEF PatternInStep, BlackIsLast
  <2> QED
    BY <2>6, <2>8, <2>9
<1>6. CASE GrabBlank
  <2>1. /\ Offer(BlankFrame) /\ prev' = prev /\ up' = up /\ tex' = tex
        /\ pending' = pending /\ grabber' = "blank" /\ ~clocked /\ ~first /\ ~news
        /\ UNCHANGED <<clocked, desk, news, first, since, breaks, changes, resizes>>
    BY <1>6 DEF GrabBlank, FullFrame, sourceVars, clientVars
  <2>2. BlankFrame \in Frames /\ DOMAIN BlankFrame = DOMAIN prev
    <3>1. PICK w \in Widths : prev \in [1..w -> Colours]
      BY <1>0 DEF AllCanvases, Canvas
    <3>2. BlankFrame \in [1..w -> Colours]
      BY <3>1, ResyncAssumption DEF BlankFrame
    <3>3. BlankFrame \in AllCanvases
      BY <3>2 DEF AllCanvases, Canvas
    <3> QED
      BY <3>3, CanvasFacts DEF BlankFrame
  <2>3. Made' = BlankFrame
    BY <2>1 DEF Made, BlankFrame
  <2>4. ExactButForLoss'
    BY <2>1, <2>2, <2>3, OfferExact
  <2>5. /\ channel' \in Seq(Frames) /\ Len(channel') <= ChannelCap
        /\ losses' \in 0..MaxLosses
    BY <2>1, <2>2, OfferType
  <2>6. TypeOK' /\ PatternInStep' /\ BlackIsLast'
    BY <2>1, <2>5 DEF TypeOK, PatternInStep, BlackIsLast
  <2> QED
    BY <2>4, <2>6
<1> QED
  BY <1>1, <1>2, <1>3, <1>4, <1>5, <1>6 DEF Source

-----------------------------------------------------------------------------
(* The renderer.                                                             *)

(* What the renderer keeps of the frames decides every tile as before, unless *)
(* the oldest frame was dropped with the tile's newest content.               *)
LEMMA ReceiveKeeps ==
    ASSUME ShownSafe, Receive PROVE ShownSafe'
<1> USE DEF ShownSafe
<1> DEFINE f == Head(channel)
           c == Tail(channel)
<1>1. /\ pending \in Seq(Frames) /\ Len(pending) <= PendingCap
      /\ channel \in Seq(Frames) /\ Len(channel) <= ChannelCap
      /\ PendingCap \in Nat \ {0} /\ ChannelCap \in Nat \ {0}
  BY ResyncAssumption DEF TypeOK
<1>2. /\ channel # <<>> /\ channel' = c /\ Submit(f)
      /\ lost' = lost \cup (Dropped \ Covers(pending' \o channel'))
      /\ UNCHANGED <<clocked, desk, news, grabber, up, first, prev, since, tex>>
      /\ UNCHANGED <<losses, breaks, changes, resizes>>
  BY DEF Receive, sourceVars, bounds
<1>3. f \in Frames /\ c \in Seq(Frames) /\ Len(c) <= ChannelCap
  BY <1>1, <1>2
<1>4. <<f>> \in Seq(Frames) /\ Append(pending, f) \in Seq(Frames)
  BY <1>1, <1>3
<1>5. /\ <<f>> \o c \in Seq(Frames) /\ pending \o channel = pending \o (<<f>> \o c)
      /\ Append(pending, f) \o c = pending \o (<<f>> \o c)
  <2>1. channel = <<f>> \o c
    BY <1>1, <1>2
  <2>2. Append(pending, f) = pending \o <<f>>
    BY <1>1, <1>3
  <2> HIDE DEF f, c
  <2>3. <<f>> \o c \in Seq(Frames)
    BY <1>3, <1>4
  <2>4. (pending \o <<f>>) \o c = pending \o (<<f>> \o c)
    BY <1>1, <1>3, <1>4
  <2> QED
    BY <2>1, <2>2, <2>3, <2>4
<1> HIDE DEF f, c
<1>6. \/ DOMAIN f = Display /\ pending' = <<f>>
      \/ pending' = Append(pending, f) /\ Len(pending) < PendingCap
      \/ /\ Len(pending) = PendingCap
         /\ pending' = Tail(Append(pending, f))
         /\ Len(pending') = PendingCap
  <2> DEFINE kept == IF DOMAIN f = Display THEN <<f>> ELSE Append(pending, f)
  <2>1. pending' = IF Len(kept) > PendingCap THEN Tail(kept) ELSE kept
    BY <1>2 DEF Submit
  <2>2. CASE DOMAIN f = Display
    <3>1. kept = <<f>> /\ Len(<<f>>) = 1
      BY <2>2
    <3> QED
      BY <1>1, <2>1, <2>2, <3>1
  <2>3. CASE DOMAIN f # Display
    <3>1. kept = Append(pending, f) /\ Len(kept) = Len(pending) + 1
      BY <1>1, <1>3, <2>3
    <3> HIDE DEF kept
    <3>2. CASE Len(pending) < PendingCap
      BY <1>1, <2>1, <3>1, <3>2
    <3>3. CASE Len(pending) = PendingCap
      <4>1. pending' = Tail(kept)
        BY <1>1, <2>1, <3>1, <3>3
      <4>2. Len(Tail(kept)) = PendingCap
        BY <1>1, <1>4, <3>1, <3>3
      <4> QED
        BY <3>1, <3>3, <4>1, <4>2
    <3> QED
      BY <1>1, <3>2, <3>3
  <2> QED
    BY <2>2, <2>3
<1>7. pending' \in Seq(Frames) /\ Len(pending') <= PendingCap
  <2>1. CASE DOMAIN f = Display /\ pending' = <<f>>
    BY <1>1, <1>4, <2>1
  <2>2. CASE pending' = Append(pending, f) /\ Len(pending) < PendingCap
    BY <1>1, <1>3, <2>2
  <2>3. CASE /\ Len(pending) = PendingCap
             /\ pending' = Tail(Append(pending, f))
             /\ Len(pending') = PendingCap
    BY <1>1, <1>3, <2>3
  <2> QED
    BY <1>6, <2>1, <2>2, <2>3
<1>8. TypeOK' /\ PatternInStep' /\ BlackIsLast'
  BY <1>1, <1>2, <1>3, <1>7 DEF TypeOK, PatternInStep, BlackIsLast
<1>9. ExactButForLoss'
  <2>1. SUFFICES ASSUME NEW t \in Display \cap DOMAIN prev, up, t \notin lost'
                 PROVE  Shows(tex, pending' \o c, t) = Shows(tex, pending \o channel, t)
    BY <1>2, ShowingIsShows DEF ExactButForLoss, Made, BlankFrame, Showing, Shows, By
  <2>2. CASE DOMAIN f = Display /\ pending' = <<f>>
    <3>1. t \in Drawn(f)
      BY <2>1, <2>2, FullDrawsAll
    <3>2. 1 \in 1..Len(<<f>> \o c) /\ (<<f>> \o c)[1] = f
      BY <1>3
    <3>3. t \in Covers(<<f>> \o c)
      BY <3>1, <3>2 DEF Covers
    <3>4. Shows(tex, pending \o (<<f>> \o c), t) = Shows(tex, <<f>> \o c, t)
      <4> DEFINE new == <<f>> \o c
      <4> HIDE DEF new
      <4>1. new \in Seq(Frames) /\ t \in Covers(new)
        BY <1>5, <3>3 DEF new
      <4>2. Shows(tex, pending \o new, t) = Shows(tex, new, t)
        BY <1>1, <4>1, TheLaterDecides
      <4> QED
        BY <4>2 DEF new
    <3> QED
      BY <1>5, <2>2, <3>4
  <2>3. CASE pending' = Append(pending, f)
    BY <1>5, <2>3
  <2>4. CASE /\ Len(pending) = PendingCap
             /\ pending' = Tail(Append(pending, f))
             /\ Len(pending') = PendingCap
    <3> DEFINE h    == <<Head(pending)>>
               rest == pending' \o c
    <3>1. Head(pending) \in Frames /\ h \in Seq(Frames) /\ rest \in Seq(Frames)
      BY <1>1, <1>3, <1>7, <2>4
    <3>2. pending \o channel = h \o rest
      <4>1. Append(pending, f) = h \o Tail(Append(pending, f))
        <5> DEFINE longer == Append(pending, f)
        <5>1. longer \in Seq(Frames) /\ longer # <<>> /\ Head(longer) = Head(pending)
          BY <1>1, <1>3, <2>4
        <5> HIDE DEF longer
        <5>2. longer = <<Head(longer)>> \o Tail(longer)
          BY <5>1
        <5> QED
          BY <5>1, <5>2 DEF longer
      <4>2. (h \o pending') \o c = h \o (pending' \o c)
        BY <1>3, <1>7, <3>1
      <4> QED
        BY <1>5, <2>4, <4>1, <4>2
    <3>3. Dropped = Drawn(Head(pending))
      BY <2>4 DEF Dropped
    <3>4. t \notin Drawn(Head(pending)) \/ t \in Covers(rest)
      BY <1>2, <2>1, <3>3
    <3>5. By(h, t) = IF t \in Drawn(Head(pending)) THEN {1} ELSE {}
      BY DEF By
    <3> HIDE DEF h, rest
    <3>6. Shows(tex, h \o rest, t) = IF t \in Covers(rest) THEN Shows(tex, rest, t)
                                                           ELSE Shows(tex, h, t)
      BY <3>1, TheLaterDecides
    <3>7. t \notin Covers(rest) => /\ Shows(tex, h, t) = tex[t]
                                   /\ Shows(tex, rest, t) = tex[t]
      BY <3>4, <3>5, CoveredBySome DEF Shows
    <3> QED
      BY <3>2, <3>6, <3>7 DEF rest
  <2> QED
    BY <1>6, <2>2, <2>3, <2>4
<1> QED
  BY <1>8, <1>9

(* Drawing what is pending shows at once what it would have shown later.      *)
LEMMA DrawKeeps ==
    ASSUME ShownSafe, Draw PROVE ShownSafe'
<1> USE DEF ShownSafe
<1>1. /\ tex' = [t \in Display |-> Shows(tex, pending, t)]
      /\ pending' = <<>> /\ channel' = channel /\ lost' = lost
      /\ UNCHANGED <<clocked, desk, news, grabber, up, first, prev, since>>
      /\ UNCHANGED <<losses, breaks, changes, resizes>>
  BY ShowingIsShows DEF Draw, sourceVars, bounds
<1>2. /\ pending \in Seq(Frames) /\ channel \in Seq(Frames)
      /\ tex \in [Display -> Colours \cup {Blank}] /\ PendingCap \in Nat
  BY ResyncAssumption DEF TypeOK
<1>3. tex' \in [Display -> Colours \cup {Blank}]
  BY <1>1, <1>2, ShowsColour
<1>4. <<>> \in Seq(Frames) /\ Len(<<>>) <= PendingCap
  BY <1>2
<1>5. TypeOK' /\ PatternInStep' /\ BlackIsLast'
  BY <1>1, <1>3, <1>4 DEF TypeOK, PatternInStep, BlackIsLast
<1>6. ExactButForLoss'
  <2>1. pending' \o channel' = channel
    BY <1>1, <1>2
  <2>2. \A t : Showing(pending \o channel, t)' = Shows(tex', pending' \o channel', t)
    BY DEF Showing, Shows, By
  <2>3. ASSUME NEW t \in Display
        PROVE  Shows(tex', channel, t) = Shows(tex, pending \o channel, t)
    <3>1. Shows(tex, pending \o channel, t) =
            IF t \in Covers(channel) THEN Shows(tex', channel, t)
                                     ELSE Shows(tex, pending, t)
      BY <1>2, TheLaterDecides
    <3>2. t \notin Covers(channel) => Shows(tex', channel, t) = tex'[t]
      BY CoveredBySome DEF Shows
    <3> QED
      BY <1>1, <3>1, <3>2
  <2>4. \A t \in Display :
          Showing(pending \o channel, t)' = Showing(pending \o channel, t)
    BY <2>1, <2>2, <2>3, ShowingIsShows
  <2> QED
    BY <1>1, <2>4 DEF ExactButForLoss, Made, BlankFrame
<1> QED
  BY <1>5, <1>6

(* A new texture shows only what is drawn on it from now on.                  *)
LEMMA SurfaceLostKeeps ==
    ASSUME ShownSafe, SurfaceLost PROVE ShownSafe'
<1> USE DEF ShownSafe
<1>1. /\ losses < MaxLosses /\ losses' = losses + 1
      /\ tex' = [t \in Display |-> Blank]
      /\ lost' = lost \cup (Display \ Covers(pending \o channel))
      /\ UNCHANGED <<clocked, desk, news, grabber, up, first, prev, since, channel, pending>>
      /\ UNCHANGED <<breaks, changes, resizes>>
  BY DEF SurfaceLost, sourceVars
<1>2. losses' \in 0..MaxLosses /\ tex' \in [Display -> Colours \cup {Blank}]
  BY <1>1, ResyncAssumption DEF TypeOK
<1>3. TypeOK' /\ PatternInStep' /\ BlackIsLast'
  BY <1>1, <1>2 DEF TypeOK, PatternInStep, BlackIsLast
<1>4. ExactButForLoss'
  <2>1. SUFFICES ASSUME NEW t \in Display, t \in Covers(pending \o channel)
                 PROVE  Shows(tex', pending \o channel, t) = Shows(tex, pending \o channel, t)
    BY <1>1, ShowingIsShows DEF ExactButForLoss, Made, BlankFrame, Showing, Shows, By
  <2> QED
    BY <2>1, CoveredForgets
<1> QED
  BY <1>3, <1>4

-----------------------------------------------------------------------------
(* The connections, the desktop and the grabber.                             *)

LEMMA DesktopKeeps ==
    ASSUME ShownSafe, Change \/ Resize PROVE ShownSafe'
<1> USE DEF ShownSafe
<1>1. /\ ~clocked /\ news' \in {TRUE, news}
      /\ grabber = "runs" \/ news' = news
      /\ UNCHANGED <<clocked, grabber, up, first, prev, since, channel, pending, tex, lost>>
      /\ UNCHANGED <<losses, breaks>>
  BY DEF Change, Resize, Desktop, sourceVars, clientVars
<1>2. desk' \in AllCanvases /\ changes' \in 0..MaxChanges /\ resizes' \in 0..MaxResizes
  <2>1. MaxChanges \in Nat /\ MaxResizes \in Nat
    BY ResyncAssumption
  <2>2. CASE Change
    <3>1. PICK t \in DOMAIN desk, c \in Colours : desk' = [desk EXCEPT ![t] = c]
      BY <2>2 DEF Change
    <3>2. PICK w \in Widths : desk \in [1..w -> Colours]
      BY DEF TypeOK, AllCanvases, Canvas
    <3>3. desk' \in [1..w -> Colours]
      BY <3>1, <3>2
    <3> QED
      BY <2>1, <2>2, <3>3 DEF Change, TypeOK, AllCanvases, Canvas
  <2>3. CASE Resize
    BY <2>1, <2>3 DEF Resize, TypeOK
  <2> QED
    BY <2>2, <2>3
<1>3. TypeOK' /\ PatternInStep' /\ BlackIsLast'
  <2>1. news' \in BOOLEAN
    BY <1>1 DEF TypeOK
  <2>2. TypeOK'
    BY <1>1, <1>2, <2>1 DEF TypeOK
  <2> QED
    BY <1>1, <2>2 DEF PatternInStep, BlackIsLast
<1>4. ExactButForLoss'
  BY <1>1 DEF ExactButForLoss, Made, BlankFrame, Showing
<1> QED
  BY <1>3, <1>4

LEMMA DeathKeeps ==
    ASSUME ShownSafe, GrabberDies PROVE ShownSafe'
<1> USE DEF ShownSafe
<1>1. /\ ~clocked /\ grabber = "runs" /\ grabber' = "dead" /\ news' \in {news, FALSE}
      /\ UNCHANGED <<clocked, desk, up, first, prev, since, channel, pending, tex, lost>>
      /\ UNCHANGED <<losses, breaks, changes, resizes>>
  BY DEF GrabberDies, sourceVars, clientVars, bounds
<1>2. news' \in BOOLEAN
  BY <1>1 DEF TypeOK
<1>3. TypeOK' /\ PatternInStep' /\ BlackIsLast'
  BY <1>1, <1>2 DEF TypeOK, PatternInStep, BlackIsLast
<1>4. Made' = prev /\ Made = prev
  BY <1>1 DEF Made
<1>5. ExactButForLoss'
  BY <1>1, <1>4 DEF ExactButForLoss, Showing
<1> QED
  BY <1>3, <1>5

LEMMA ConnectionKeeps ==
    ASSUME ShownSafe, Connect \/ Break PROVE ShownSafe'
<1> USE DEF ShownSafe
<1>1. Display \subseteq lost' /\ <<>> \in Seq(Frames) /\ Len(<<>>) = 0
  BY DEF Connect, Break
<1>2. ExactButForLoss'
  BY <1>1 DEF ExactButForLoss, Display
<1>3. FullEvery \in Nat /\ PendingCap \in Nat /\ ChannelCap \in Nat /\ MaxBreaks \in Nat
  BY ResyncAssumption
<1>4. CASE Connect
  <2>1. /\ up' = TRUE /\ first' = TRUE /\ prev' = desk /\ since' = 0 /\ news' = FALSE
        /\ pending' = <<>> /\ grabber' = "runs"
        /\ UNCHANGED <<clocked, desk, channel, tex, losses, breaks, changes, resizes>>
    BY <1>4 DEF Connect, bounds
  <2>2. /\ pending' \in Seq(Frames) /\ Len(pending') <= PendingCap
        /\ channel' \in Seq(Frames) /\ Len(channel') <= ChannelCap
    BY <1>1, <1>3, <2>1 DEF TypeOK
  <2>3. since' \in 0..FullEvery /\ breaks' \in 0..MaxBreaks
    BY <1>3, <2>1 DEF TypeOK
  <2>4. TypeOK' /\ PatternInStep' /\ BlackIsLast'
    BY <2>1, <2>2, <2>3 DEF TypeOK, PatternInStep, BlackIsLast
  <2> QED
    BY <1>2, <2>4
<1>5. CASE Break
  <2>1. /\ breaks < MaxBreaks /\ breaks' = breaks + 1
        /\ up' = FALSE /\ first' = FALSE /\ channel' = <<>> /\ news' = FALSE
        /\ UNCHANGED <<clocked, desk, grabber, prev, since, pending, tex>>
        /\ UNCHANGED <<losses, changes, resizes>>
    BY <1>5 DEF Break, sourceVars, clientVars
  <2>2. /\ pending' \in Seq(Frames) /\ Len(pending') <= PendingCap
        /\ channel' \in Seq(Frames) /\ Len(channel') <= ChannelCap
    BY <1>1, <1>3, <2>1 DEF TypeOK
  <2>3. since' \in 0..FullEvery /\ breaks' \in 0..MaxBreaks
    BY <1>3, <2>1 DEF TypeOK
  <2>4. TypeOK' /\ PatternInStep' /\ BlackIsLast'
    BY <2>1, <2>2, <2>3 DEF TypeOK, PatternInStep, BlackIsLast
  <2> QED
    BY <1>2, <2>4
<1> QED
  BY <1>4, <1>5

-----------------------------------------------------------------------------
(* Whatever the desktop does, whichever frames are lost at the queue, however  *)
(* often the connection breaks and the texture is lost, and whenever gnome's    *)
(* grabber dies: once what is on its way is drawn, each tile of the display     *)
(* shows what the source made of it last, the canvas compared against or the    *)
(* black of a dead grabber, unless its newest content was lost                  *)
(* (gnome/source.rs next_frame, to_client_frame and blank_frame, testsource.rs, *)
(* FrameRenderer.kt submit and onDrawFrame).                                   *)
THEOREM ShownIsSafe == Spec => []ShownSafe
<1>1. Init => ShownSafe
  <2> SUFFICES ASSUME Init PROVE ShownSafe
    OBVIOUS
  <2>1. desk \in AllCanvases /\ DOMAIN desk = Display /\ prev = desk
    BY CanvasFacts DEF Init
  <2>2. <<>> \in Seq(Frames) /\ Len(<<>>) = 0
    OBVIOUS
  <2>3. /\ FullEvery \in Nat /\ PendingCap \in Nat /\ ChannelCap \in Nat
        /\ {MaxLosses, MaxBreaks, MaxChanges, MaxResizes} \subseteq Nat
        /\ clocked \in BOOLEAN
    BY ResyncAssumption DEF Init
  <2>4. 0 \in 0..MaxLosses /\ 0 \in 0..MaxBreaks /\ 0 \in 0..MaxChanges
        /\ 0 \in 0..MaxResizes /\ 0 \in 0..FullEvery
    BY <2>3
  <2>5. TypeOK
    <3>1. desk \in AllCanvases /\ prev \in AllCanvases
      BY <2>1
    <3>2. clocked \in BOOLEAN /\ news \in BOOLEAN /\ up \in BOOLEAN /\ first \in BOOLEAN
          /\ grabber \in {"runs", "dead", "blank"}
      BY <2>3 DEF Init
    <3>3. since \in 0..FullEvery /\ losses \in 0..MaxLosses /\ breaks \in 0..MaxBreaks
          /\ changes \in 0..MaxChanges /\ resizes \in 0..MaxResizes
      BY <2>4 DEF Init
    <3>4. tex \in [Display -> Colours \cup {Blank}]
      BY DEF Init
    <3>5. channel \in Seq(Frames) /\ Len(channel) <= ChannelCap
          /\ pending \in Seq(Frames) /\ Len(pending) <= PendingCap
      BY <2>2, <2>3 DEF Init
    <3> QED
      BY <3>1, <3>2, <3>3, <3>4, <3>5 DEF TypeOK
  <2>6. PatternInStep /\ BlackIsLast /\ ExactButForLoss
    BY <2>1 DEF Init, PatternInStep, BlackIsLast, ExactButForLoss
  <2> QED
    BY <2>5, <2>6 DEF ShownSafe
<1>2. ShownSafe /\ [Next]_vars => ShownSafe'
  <2> SUFFICES ASSUME ShownSafe, [Next]_vars PROVE ShownSafe'
    OBVIOUS
  <2>1. CASE Change \/ Resize
    BY <2>1, DesktopKeeps
  <2>2. CASE Connect \/ Break
    BY <2>2, ConnectionKeeps
  <2>3. CASE Source
    BY <2>3, SourceKeeps
  <2>4. CASE Receive
    BY <2>4, ReceiveKeeps
  <2>5. CASE Draw
    BY <2>5, DrawKeeps
  <2>6. CASE SurfaceLost
    BY <2>6, SurfaceLostKeeps
  <2>7. CASE GrabberDies
    BY <2>7, DeathKeeps
  <2>8. CASE UNCHANGED vars
    BY <2>8 DEF ShownSafe, TypeOK, PatternInStep, BlackIsLast, ExactButForLoss, Made,
                BlankFrame, Showing, vars, sourceVars, clientVars, bounds
  <2> QED
    BY <2>1, <2>2, <2>3, <2>4, <2>5, <2>6, <2>7, <2>8 DEF Next, Client
<1> QED
  BY <1>1, <1>2, PTL DEF Spec
=============================================================================
