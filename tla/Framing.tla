------------------------------- MODULE Framing -------------------------------
(***************************************************************************)
(* One direction of a stream and the reader at its end: read_message of the   *)
(* host (protocol/src/lib.rs), read of the phone (Protocol.kt), and the gnome  *)
(* source at the grabber's pipe.  A read gives some of the octets that are on  *)
(* the way, the stream may end between any two of them, and the host waits    *)
(* for the first message of a client only so long (host/src/server.rs).       *)
(*                                                                         *)
(* What the octets mean is Wire's.  The stream itself is external.            *)
(***************************************************************************)
EXTENDS Wire

CONSTANTS
    Streams,        \* the streams to look at: a link and what is written on it
    Budget          \* how long a read waits in the handshake (10 s)

(* What is written on a link: messages of the types its writer knows, with     *)
(* numbers of their widths; canvases with all their pixels, counted up.  That  *)
(* no text is too long and no payload too large is not taken for granted.     *)
Octet == 0..(Base - 1)
Rects == [x : 0..(Pow[2] - 1), y : 0..(Pow[2] - 1), w : 0..(Pow[2] - 1), h : 0..(Pow[2] - 1)]
AnyMessage == [type : DOMAIN HostPuts \cup {"CANVAS"}, nums : Seq(Nat),
               text : Seq(Octet), rects : Seq(Rects), body : Seq(Octet)]

Within(nums, widths) == /\ Len(nums) = Len(widths)
                        /\ \A i \in DOMAIN nums : nums[i] < Pow[widths[i]]

Messages(puts) ==
    {m \in AnyMessage :
       /\ m.type \in DOMAIN puts
       /\ Within(m.nums, SubSeq(puts[m.type], 1, Len(puts[m.type]) - Extra(m.type)))
       /\ m.type \notin Textual => m.text = <<>>
       /\ m.type \notin Boxed => m.rects = <<>>
       /\ m.type = "FRAME" => Len(m.rects) < Pow[2]
       /\ m.type # "FRAME" => m.body = <<>>}

Canvases == {m \in AnyMessage :
               /\ m.type = "CANVAS" /\ Within(m.nums, <<8, 8, 2, 2>>)
               /\ m.text = <<>> /\ m.rects = <<>>
               /\ Len(m.body) = m.nums[3] * m.nums[4] * 4 /\ Len(m.body) < Pow[4]}

Scripts(l) == CASE l = "up"   -> Seq(Messages(PhonePuts))
                [] l = "pipe" -> Seq(Canvases)
                [] OTHER      -> Seq(Messages(HostPuts))

ASSUME FramingAssumption ==
    /\ Budget \in Nat \ {0}
    /\ \A s \in Streams : /\ s.link \in {"up", "down", "loop", "pipe"}
                          /\ s.script \in Scripts(s.link)

VARIABLES
    link,           \* "up" phone to host, "down" host to phone, "loop" host's
                    \* library at both ends, "pipe" grabber to gnome source
    script, sent,   \* messages to write; history: those written
    wire, shut,     \* octets on the way; the writer's end is closed
    cut,            \* history: octets were lost with the connection
    buf,            \* octets of the message being read
    got, end,       \* messages read; how reading ended
    idle            \* how long a read of the handshake has been waiting

writerVars == <<script, sent, shut, cut>>
readerVars == <<buf, got, end>>
vars == <<link, writerVars, wire, readerVars, idle>>

Init == /\ \E s \in Streams : link = s.link /\ script = s.script
        /\ sent = <<>> /\ wire = <<>> /\ shut = FALSE /\ cut = FALSE
        /\ buf = <<>> /\ got = <<>> /\ end = "open" /\ idle = 0

-----------------------------------------------------------------------------
(* The writer.                                                               *)

Writable(m) == CASE link = "up"   -> PhoneWrites(m)
                 [] link = "pipe" -> TRUE
                 [] OTHER         -> HostWrites(m)

OnWire(m) == CASE link = "up"   -> Framed(PhonePuts[m.type], m)
               [] link = "pipe" -> Piped(m)
               [] OTHER         -> Framed(HostPuts[m.type], m)

Write == /\ ~shut /\ script # <<>>
         /\ Writable(Head(script))
         /\ wire' = wire \o OnWire(Head(script))
         /\ sent' = Append(sent, Head(script))
         /\ script' = Tail(script)
         /\ UNCHANGED <<link, shut, cut, readerVars, idle>>

(* An assertion fails before anything is written: nothing follows.            *)
WritePanics == /\ ~shut /\ script # <<>>
               /\ ~Writable(Head(script))
               /\ script' = <<>>
               /\ UNCHANGED <<link, sent, shut, cut, wire, readerVars, idle>>

Close == /\ ~shut /\ script = <<>>
         /\ shut' = TRUE
         /\ UNCHANGED <<link, script, sent, cut, wire, readerVars, idle>>

(* The connection breaks; any number of octets are lost.                      *)
Cut == /\ ~shut
       /\ shut' = TRUE /\ cut' = TRUE /\ script' = <<>>
       /\ \E k \in 0..Len(wire) : wire' = SubSeq(wire, 1, k)
       /\ UNCHANGED <<link, sent, readerVars, idle>>

-----------------------------------------------------------------------------
(* The reader: a header, then the payload it announces.                       *)

HeadLen == IF link = "pipe" THEN PipeHeaderLen ELSE HeaderLen

HeaderOk == CASE link = "down" -> PhoneHeaderOk(buf)
              [] link = "pipe" -> PipeHeaderOk(buf)
              [] OTHER         -> HostHeaderOk(buf)

BodyLen == IF link = "pipe" THEN Unsigned(Part(buf, 28, 4)) ELSE Body(buf)

InHeader == Len(buf) < HeadLen
Wanted   == CASE InHeader -> HeadLen - Len(buf)
              [] ~InHeader /\ HeaderOk -> HeadLen + BodyLen - Len(buf)
              [] OTHER -> 0
Waiting  == end = "open" /\ Wanted > 0
Complete == ~InHeader /\ HeaderOk /\ Wanted = 0

\* Fault: the timeout of the handshake stays with all streams.
HandshakingFault == got = <<>> /\ end = "open"

Handshaking == link = "up" /\ got = <<>> /\ end = "open"

(* A read returns one octet, or all that were asked for or are there.         *)
ReadSome == /\ Waiting
            /\ wire # <<>>
            /\ \E n \in {1, IF Wanted < Len(wire) THEN Wanted ELSE Len(wire)} :
                 /\ buf' = buf \o SubSeq(wire, 1, n)
                 /\ wire' = SubSeq(wire, n + 1, Len(wire))
            /\ idle' = 0
            /\ UNCHANGED <<link, writerVars, got, end>>

(* An error ends the reading, but not that of the pipe: what comes next is     *)
(* read as a header.  A read beyond a payload's end is no IOException on the   *)
(* phone and ends the app.                                                   *)
Fail(why) == /\ UNCHANGED got
             /\ IF link = "pipe"
                THEN buf' = <<>> /\ UNCHANGED end
                ELSE /\ end' = IF link = "down" /\ why = "short" THEN "crash" ELSE "error"
                     /\ UNCHANGED buf

Refuse == /\ end = "open" /\ Len(buf) = HeadLen /\ ~HeaderOk
          /\ Fail("header")
          /\ UNCHANGED <<link, writerVars, wire, idle>>

Decoded == LET payload == SubSeq(buf, HeadLen + 1, Len(buf))
           IN CASE link = "down" -> PhoneDecode(Type(buf), payload)
                [] link = "pipe" -> PipeDecode(buf, payload)
                [] OTHER         -> HostDecode(Type(buf), payload)

Deliver == /\ end = "open" /\ Complete
           /\ LET r == Decoded
              IN IF r.why = "ok"
                 THEN got' = Append(got, r.msg) /\ buf' = <<>> /\ UNCHANGED end
                 ELSE Fail(r.why)
           /\ idle' = 0
           /\ UNCHANGED <<link, writerVars, wire>>

\* Fault: in the middle of a message a read of nothing is repeated.
AtEndFault == Waiting /\ shut /\ wire = <<>> /\ buf = <<>>

AtEnd == Waiting /\ shut /\ wire = <<>>

\* Fault: an end within a header is taken for the end of the stream.
ReadEndFault == /\ AtEnd
                /\ end' = IF InHeader THEN "clean" ELSE "error"
                /\ UNCHANGED <<link, writerVars, wire, buf, got, idle>>

(* The end is clean between two messages only.                               *)
ReadEnd == /\ AtEnd
           /\ end' = IF buf = <<>> /\ link # "pipe" THEN "clean" ELSE "error"
           /\ UNCHANGED <<link, writerVars, wire, buf, got, idle>>

Reader == ReadSome \/ Refuse \/ Deliver \/ ReadEnd

(* Time passes; octets on the way may be late.  The timeout is one of each read.*)
Tick == /\ Handshaking /\ Waiting
        /\ idle < Budget
        /\ idle' = idle + 1
        /\ UNCHANGED <<link, writerVars, wire, readerVars>>

\* Fault: a timeout is ignored and the read repeated.
TimesOutFault == /\ Handshaking /\ Waiting
                 /\ idle = Budget
                 /\ idle' = 0
                 /\ UNCHANGED <<link, writerVars, wire, readerVars>>

TimesOut == /\ Handshaking /\ Waiting
            /\ idle = Budget
            /\ end' = "error"
            /\ UNCHANGED <<link, writerVars, wire, buf, got, idle>>

Next == Write \/ WritePanics \/ Close \/ Cut \/ Reader \/ Tick \/ TimesOut

(* Readers run, and time passes.  Nobody has to write, or to close.           *)
Spec == Init /\ [][Next]_vars /\ WF_vars(Reader) /\ WF_vars(Tick \/ TimesOut)

-----------------------------------------------------------------------------
(* Properties.                                                               *)

TypeOK == /\ end \in {"open", "clean", "error", "crash"}
          /\ idle \in 0..Budget /\ (idle > 0 => link = "up")
          /\ shut \in BOOLEAN /\ cut \in BOOLEAN /\ (cut => shut)
          /\ wire \in Seq(Octet) /\ buf \in Seq(Octet)

(* A canvas above the limit is refused after its header, and its pixels are    *)
(* read as headers: what comes of them depends on the pixels.                *)
Readable(m) == link = "pipe" => Len(m.body) <= MaxPayload

(* However the octets arrive and wherever the stream breaks: what is read is   *)
(* what was written, field by field, in order and without a gap; from the     *)
(* grabber's pipe, up to the first canvas that is too large.                  *)
ReadAsWritten ==
    \A i \in DOMAIN got :
        (\A j \in 1..i : j \in DOMAIN sent => Readable(sent[j]))
            => i \in DOMAIN sent /\ got[i] = sent[i]

(* The messages both sides agreed on: what the host and the phone send.       *)
Agreed(m) == /\ Len(m.rects) <= MaxRects
             /\ Registered(m) /\ RawFits(m)
             /\ m.type = "FRAME" => m.nums[3] = 0

(* No reader fails on a message both sides agreed on: if reading ends in an    *)
(* error the connection broke, the client was silent for too long, or such a   *)
(* message was not one of those.  The phone's reader never crashes the app.   *)
AgreedIsUnderstood ==
    /\ end = "error" /\ link # "pipe" =>
          cut \/ idle = Budget \/ \E i \in DOMAIN sent : ~Agreed(sent[i])
    /\ end # "crash"

(* A stream that ends clean was read to the last message that arrived; a half   *)
(* of one is an error, never the end.                                        *)
CleanIsComplete == end = "clean" => buf = <<>> /\ (got = sent \/ cut)

(* What a reader may rest on when reading ends, and the bounds of its waiting.  *)
ReadingSafe == TypeOK /\ CleanIsComplete

(* When the stream has ended the reader does; the host is done with a client's  *)
(* handshake in any case, whatever the client sends or fails to.              *)
ReaderEnds == shut ~> end # "open"
HandshakeEnds == <>(link = "up" => got # <<>> \/ end # "open")
=============================================================================
