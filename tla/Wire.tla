-------------------------------- MODULE Wire ---------------------------------
(***************************************************************************)
(* The wire protocol: what the host (protocol/src/lib.rs) and the phone       *)
(* (Protocol.kt) make of a message and of the octets of one, and the format   *)
(* of the grabber's pipe, which the gnome source reads                       *)
(* (host/src/gnome/source.rs).  Each side has its own table of the widths it  *)
(* writes or reads, so that the sides can be compared.                       *)
(*                                                                         *)
(* A message is a record: its type, its numbers in the order of the wire,     *)
(* and the text, the rectangles and the pixels it may have.  Numbers are      *)
(* little-endian and keep their width; the octet has Base values.            *)
(***************************************************************************)
EXTENDS Integers, SequencesExt

CONSTANTS
    Base,           \* values of an octet (256)
    MaxPayload,     \* octets of a payload (64 MiB)
    MaxRects,       \* rectangles of a message (64)
    MaxString,      \* octets of a text (255)
    Scratch         \* octets the phone encodes a message into (296)

(* The values of a number of so many octets; none is wider than eight.        *)
Pow[k \in 0..8] == IF k = 0 THEN 1 ELSE Base * Pow[k - 1]

(* A payload's length is no negative number of the phone's, and a message of   *)
(* the phone is one the host takes.                                          *)
ASSUME WireAssumption ==
    /\ Base \in Nat /\ Base * Base > 11
    /\ MaxPayload \in Nat /\ 2 * MaxPayload < Pow[4]
    /\ MaxRects \in 0..(Pow[2] - 1)
    /\ MaxString = Base - 1
    /\ Scratch \in (13 + MaxString)..MaxPayload

Octets(v, width) == [i \in 1..width |-> (v \div Pow[i - 1]) % Base]

Unsigned(o) ==
    LET upTo[i \in 0..Len(o)] ==
            IF i = 0 THEN 0 ELSE upTo[i - 1] + o[i] * Pow[i - 1]
    IN upTo[Len(o)]

(* The phone's signed integers of the same width.                            *)
Signed(o) == LET v == Unsigned(o) IN
             IF 2 * v >= Pow[Len(o)] THEN v - Pow[Len(o)] ELSE v

Types == <<"HELLO", "HELLO_OK", "CONFIG", "DISPLAY_INFO", "FRAME",
           "DAMAGE_REGION", "PING", "PONG", "DISCONNECT", "RECONNECT", "FRAME_ACK">>
TypeId(t) == CHOOSE i \in DOMAIN Types : Types[i] = t

Textual == {"HELLO", "DISPLAY_INFO", "DISCONNECT"}
Boxed   == {"FRAME", "DAMAGE_REGION"}
Padded  == {"HELLO_OK"} \cup Boxed

(* The numbers of a message as written: the count of the rectangles and the    *)
(* reserved field follow its own.                                           *)
Extra(t) == (IF t \in Boxed THEN 1 ELSE 0) + (IF t \in Padded THEN 1 ELSE 0)
Numbers(m) == m.nums \o (IF m.type \in Boxed THEN <<Len(m.rects)>> ELSE <<>>)
                     \o (IF m.type \in Padded THEN <<0>> ELSE <<>>)

ByteLen(r) == r.w * r.h * 4
Area(rects) ==
    LET upTo[i \in 0..Len(rects)] ==
            IF i = 0 THEN 0 ELSE upTo[i - 1] + ByteLen(rects[i])
    IN upTo[Len(rects)]

-----------------------------------------------------------------------------
(* Encoding.                                                                 *)

(* Widths of the numbers the host writes, to_bytes ...                         *)
HostPuts == [
    HELLO |-> <<2, 4, 2, 2, 2>>, HELLO_OK |-> <<2, 4, 8, 2, 2>>, CONFIG |-> <<1, 1, 2, 2>>,
    DISPLAY_INFO |-> <<2, 2, 2, 1, 1>>, FRAME |-> <<8, 8, 1, 1, 2, 2>>,
    DAMAGE_REGION |-> <<8, 8, 2, 2>>, PING |-> <<8>>, PONG |-> <<8, 8>>,
    DISCONNECT |-> <<2>>, RECONNECT |-> <<8, 8>>, FRAME_ACK |-> <<8, 8>>]

(* ... and the phone, encodePayload.                                         *)
PhonePuts == [HELLO |-> <<2, 4, 2, 2, 2>>, PING |-> <<8>>, DISCONNECT |-> <<2>>,
    RECONNECT |-> <<8, 8>>, FRAME_ACK |-> <<8, 8>>]

(* Numbers one after another, each of its width.                               *)
Fields(v, widths) == FlattenSeq([i \in DOMAIN widths |-> Octets(v[i], widths[i])])

RectOctets(r) == Fields(<<r.x, r.y, r.w, r.h>>, <<2, 2, 2, 2>>)

Encoding(widths, m) ==
    Fields(Numbers(m), widths)
    \o (IF m.type \in Textual THEN Octets(Len(m.text), 1) \o m.text ELSE <<>>)
    \o FlattenSeq([i \in DOMAIN m.rects |-> RectOctets(m.rects[i])])
    \o m.body

(* The assertions of to_bytes; the phone's requirement and its buffer.        *)
HostWrites(m) == /\ Len(m.text) <= MaxString
                 /\ Len(Encoding(HostPuts[m.type], m)) <= MaxPayload
PhoneWrites(m) == /\ Len(m.text) <= MaxString
                  /\ Len(Encoding(PhonePuts[m.type], m)) <= Scratch

Magic   == 1
Version == 1
HeaderLen == 16

Header(t, len) == Fields(<<Magic, Version, TypeId(t), len, 0>>, <<4, 2, 2, 4, 4>>)
Framed(widths, m) == LET p == Encoding(widths, m) IN Header(m.type, Len(p)) \o p

-----------------------------------------------------------------------------
(* Decoding.                                                                 *)

Part(o, from, len) == SubSeq(o, from + 1, from + len)

HostHeaderOk(h) == /\ Unsigned(Part(h, 0, 4)) = Magic
                   /\ Unsigned(Part(h, 4, 2)) <= Version
                   /\ Unsigned(Part(h, 8, 4)) <= MaxPayload

PhoneHeaderOk(h) == /\ Unsigned(Part(h, 0, 4)) = Magic
                    /\ Signed(Part(h, 4, 2)) <= Version
                    /\ Signed(Part(h, 8, 4)) \in 0..MaxPayload

Body(h) == Unsigned(Part(h, 8, 4))
Type(h) == Unsigned(Part(h, 6, 2))

HostTakes == [
    HELLO |-> <<2, 4, 2, 2, 2>>, HELLO_OK |-> <<2, 4, 8, 2, 2>>, CONFIG |-> <<1, 1, 2, 2>>,
    DISPLAY_INFO |-> <<2, 2, 2, 1, 1>>, FRAME |-> <<8, 8, 1, 1, 2, 2>>,
    DAMAGE_REGION |-> <<8, 8, 2, 2>>, PING |-> <<8>>, PONG |-> <<8, 8>>,
    DISCONNECT |-> <<2>>, RECONNECT |-> <<8, 8>>, FRAME_ACK |-> <<8, 8>>]

PhoneTakes == [
    HELLO |-> <<2, 4, 2, 2, 2>>, HELLO_OK |-> <<2, 4, 8, 2, 2>>, CONFIG |-> <<1, 1, 2, 2>>,
    DISPLAY_INFO |-> <<2, 2, 2, 1, 1>>, FRAME |-> <<8, 8, 1, 1, 2, 2>>,
    DAMAGE_REGION |-> <<8, 8, 2, 2>>, PING |-> <<8>>, PONG |-> <<8, 8>>,
    DISCONNECT |-> <<2>>, RECONNECT |-> <<8, 8>>, FRAME_ACK |-> <<8, 8>>]

\* Fault: width and height in the other order.
RectAtFault(p, from) == LET u16(k) == Unsigned(Part(p, from + 2 * k, 2))
                        IN [x |-> u16(0), y |-> u16(1), w |-> u16(3), h |-> u16(2)]

RectAt(p, from) == LET u16(k) == Unsigned(Part(p, from + 2 * k, 2))
                   IN [x |-> u16(0), y |-> u16(1), w |-> u16(2), h |-> u16(3)]

\* Fault: the limit is one too low.
TooManyFault(count) == count >= MaxRects

TooMany(count) == count > MaxRects

NoMessage == [type |-> "none", nums |-> <<>>, text |-> <<>>, rects |-> <<>>, body |-> <<>>]
Failed(why) == [why |-> why, msg |-> NoMessage]

(* What both decoders do: the numbers, the limit on rectangles, the text, the   *)
(* rectangles, the rest.  "short" is a read beyond the payload's end.         *)
Parse(takes, t, p) ==
    LET w == takes[t]
        at[i \in 0..Len(w)] == IF i = 0 THEN 0 ELSE at[i - 1] + w[i]
        head  == at[Len(w)]
        all   == [i \in 1..Len(w) |-> Unsigned(Part(p, at[i - 1], w[i]))]
        count == IF t \in Boxed THEN all[Len(w) - 1] ELSE 0
        text  == IF t \in Textual THEN p[head + 1] ELSE 0
        used  == head + 8 * count + (IF t \in Textual THEN 1 + text ELSE 0)
    IN CASE head > Len(p)                         -> Failed("short")
         [] t \in Textual /\ head = Len(p)        -> Failed("short")
         [] TooMany(count)                        -> Failed("limit")
         [] t \in Textual /\ used > Len(p)        -> Failed("text")
         [] used > Len(p)                         -> Failed("short")
         [] t # "FRAME" /\ used < Len(p)          -> Failed("trailing")
         [] OTHER -> [why |-> "ok", msg |->
              [type  |-> t,
               nums  |-> SubSeq(all, 1, Len(w) - Extra(t)),
               text  |-> IF t \in Textual THEN Part(p, head + 1, text) ELSE <<>>,
               rects |-> [i \in 1..count |-> RectAt(p, head + 8 * (i - 1))],
               body  |-> SubSeq(p, used + 1, Len(p))]]

(* What the host's decoder checks besides, codecs, formats and the number of    *)
(* pixels of a raw frame; it answers every failure alike.                     *)
Registered(m) ==
    /\ m.type = "CONFIG"       => m.nums[1] <= 1 /\ m.nums[2] <= 1
    /\ m.type = "FRAME"        => m.nums[3] <= 1 /\ m.nums[4] <= 1
    /\ m.type = "DISPLAY_INFO" => m.nums[4] <= 1
RawFits(m) == m.type = "FRAME" /\ m.nums[3] = 0 => Area(m.rects) = Len(m.body)

HostDecode(id, p) ==
    IF id \notin DOMAIN Types THEN Failed("unknown")
    ELSE LET r == Parse(HostTakes, Types[id], p)
         IN IF r.why = "ok" /\ ~(RawFits(r.msg) /\ Registered(r.msg))
            THEN Failed("value") ELSE r

(* The phone takes only raw pixels, as many as the rectangles hold, added up    *)
(* in its 32-bit integers.                                                   *)
Packed(m) == m.type = "FRAME" => /\ m.nums[3] = 0
                                 /\ Area(m.rects) % Pow[4] = Len(m.body)

PhoneDecode(id, p) ==
    IF id \notin DOMAIN Types
    THEN Failed("unknown")
    ELSE LET r == Parse(PhoneTakes, Types[id], p)
         IN IF r.why = "ok" /\ ~Packed(r.msg) THEN Failed("packing") ELSE r

-----------------------------------------------------------------------------
(* The grabber's pipe: a canvas is a header of 32 octets and its pixels.       *)

PipeMagic == 2
PipeHeaderLen == 32

Piped(c) == Fields(<<PipeMagic, c.nums[1], c.nums[2], c.nums[3], c.nums[4],
                     c.nums[3] * 4, Len(c.body)>>, <<4, 8, 8, 2, 2, 4, 4>>) \o c.body

PipeHeaderOk(h) == /\ Unsigned(Part(h, 0, 4)) = PipeMagic
                   /\ Unsigned(Part(h, 28, 4)) <= MaxPayload

PipeDecode(h, p) ==
    LET w == Unsigned(Part(h, 20, 2))
        t == Unsigned(Part(h, 22, 2))
    IN IF Len(p) # w * t * 4 THEN Failed("size")
       ELSE [why |-> "ok", msg |->
               [type |-> "CANVAS", rects |-> <<>>, text |-> <<>>, body |-> p,
                nums |-> <<Unsigned(Part(h, 4, 8)), Unsigned(Part(h, 12, 8)), w, t>>]]
=============================================================================
