------------------------------ MODULE MCFraming ------------------------------
(* Streams for TLC: octets of 5 values, so 25 values of a u16.                *)
EXTENDS Framing

Msg(t, nums) == [type |-> t, nums |-> nums, text |-> <<>>, rects |-> <<>>, body |-> <<>>]
Texted(m, text) == [m EXCEPT !.text = text]
Box(x, y, w, h) == [x |-> x, y |-> y, w |-> w, h |-> h]
Pixels(n) == [i \in 1..(4 * n) |-> i % 3]
Frame(id, codec, rects, body) ==
    [Msg("FRAME", <<id, 9, codec, 0>>) EXCEPT !.rects = rects, !.body = body]
Canvas(id, w, h) == [Msg("CANVAS", <<id, 7, w, h>>) EXCEPT !.body = [i \in 1..(w * h * 4) |-> 0]]

Hello     == Texted(Msg("HELLO", <<1, 1, 15, 9, 6>>), <<2, 0, 1>>)
Reconnect == Msg("RECONNECT", <<65535, 258>>)
HelloOk   == Msg("HELLO_OK", <<1, 1, 40000, 2>>)
Info      == Texted(Msg("DISPLAY_INFO", <<15, 9, 6, 0, 1>>), <<1>>)
Config    == Msg("CONFIG", <<0, 0, 6, 1>>)
Bye       == Texted(Msg("DISCONNECT", <<4>>), <<>>)
TwoRects  == Frame(300, 0, <<Box(24, 0, 1, 2), Box(0, 3, 3, 1)>>, Pixels(5))
Whole     == Frame(1, 0, <<Box(0, 0, 3, 2)>>, Pixels(6))
Empty     == Frame(2, 0, <<>>, <<>>)
Regions(n) == [Msg("DAMAGE_REGION", <<5, 6>>) EXCEPT !.rects = [i \in 1..n |-> Box(i % 25, 1, 1, 1)]]

S(l, s) == [link |-> l, script |-> s]
MCStreams ==
    {S("up", <<Hello, Msg("PING", <<5>>)>>), S("up", <<Reconnect, Msg("FRAME_ACK", <<300, 9>>), Bye>>),
     S("up", <<Texted(Hello, <<1, 1, 1, 1, 1>>)>>),
     S("down", <<HelloOk, Info, Config>>), S("down", <<Whole, TwoRects>>),
     S("down", <<Msg("PONG", <<4, 65535>>), Empty, Texted(Bye, <<1, 2, 1>>)>>),
     S("down", <<Regions(2), Regions(3)>>), S("down", <<Regions(27)>>),
     S("down", <<Frame(3, 1, <<>>, <<1>>)>>), S("down", <<Frame(4, 0, <<Box(0, 0, 8, 8)>>, Pixels(64))>>),
     S("loop", <<Frame(3, 1, <<Box(0, 0, 2, 2)>>, <<1>>), Hello>>),
     S("loop", <<Msg("CONFIG", <<2, 0, 6, 1>>)>>), S("loop", <<Whole, HelloOk>>),
     S("pipe", <<Canvas(1, 3, 2), Canvas(2, 1, 1)>>),
     S("pipe", <<Canvas(1, 1, 1), Canvas(2, 9, 7)>>), S("pipe", <<Canvas(1, 8, 8), Canvas(2, 2, 1)>>)}
=============================================================================
