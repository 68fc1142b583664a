----------------------------- MODULE CommandLine -----------------------------
(***************************************************************************)
(* The command line of the host (host/src/args.rs): what one argument does to *)
(* the Args being built, and what is checked when all were read.             *)
(***************************************************************************)
EXTENDS Integers, Sequences, FiniteSetsExt

CONSTANT Number     \* the arguments that are numerals, with their values

Default == [mode |-> "Serve", source |-> "test", bind |-> "127.0.0.1", port |-> 8899,
            width |-> 1600, height |-> 900, fps |-> 60, full_every_secs |-> 2,
            stats |-> "", frame_ack |-> FALSE, frames |-> 600, hold_secs |-> 20,
            no_gst |-> FALSE]

(* Arguments that stand alone: the field they set, and to what.               *)
Flag == [opt \in {"--selftest", "--probe-gnome", "--frame-ack", "--no-gst"} |->
           CASE opt = "--selftest"    -> <<"mode", "SelfTest">>
             [] opt = "--probe-gnome" -> <<"mode", "ProbeGnome">>
             [] opt = "--frame-ack"   -> <<"frame_ack", TRUE>>
             [] opt = "--no-gst"      -> <<"no_gst", TRUE>>]

(* Arguments that take the next one as their value, whatever it looks like.    *)
Text == [opt \in {"--source", "--bind", "--stats"} |->
           CASE opt = "--source" -> "source"
             [] opt = "--bind"   -> "bind"
             [] opt = "--stats"  -> "stats"]

Numeric == [opt \in {"--port", "--width", "--height", "--fps", "--full-frame-every",
                     "--frames", "--hold"} |->
              CASE opt = "--port"             -> "port"
                [] opt = "--width"            -> "width"
                [] opt = "--height"           -> "height"
                [] opt = "--fps"              -> "fps"
                [] opt = "--full-frame-every" -> "full_every_secs"
                [] opt = "--frames"           -> "frames"
                [] opt = "--hold"             -> "hold_secs"]

Help == {"-h", "--help"}

Valued == DOMAIN Text \cup DOMAIN Numeric

(* parse_num: port, width and height have 16 bits; the other types are wider   *)
(* than any number tried.                                                    *)
ParsesAs(opt, v) == /\ v \in DOMAIN Number
                    /\ opt \in {"--port", "--width", "--height"} => Number[v] < 2^16

SetFlag(a, opt) == [a EXCEPT ![Flag[opt][1]] = Flag[opt][2]]

SetValue(a, opt, v) == IF opt \in DOMAIN Text THEN [a EXCEPT ![Text[opt]] = v]
                                              ELSE [a EXCEPT ![Numeric[opt]] = Number[v]]

Accepts(opt, v) == opt \in DOMAIN Numeric => ParsesAs(opt, v)

Legal(a) == /\ a.source \in {"test", "gnome"}
            /\ a.width \in 1..8192 /\ a.height \in 1..8192
            /\ a.fps \in 1..240

Clamped(a) == IF a.frames = 0 THEN [a EXCEPT !.frames = 1] ELSE a

-----------------------------------------------------------------------------
(* What a command line means, said of the whole of it: some places hold        *)
(* options, the others the value of the option before them.                   *)

IsOptions(argv, K) ==
    \A i \in 1..Len(argv) : i \in K <=> ~(i > 1 /\ i-1 \in K /\ argv[i-1] \in Valued)

Options(argv) == CHOOSE K \in SUBSET (1..Len(argv)) : IsOptions(argv, K)

(* The options that end the reading.                                         *)
Wrong(argv, i) ==
    \/ argv[i] \notin Help \cup DOMAIN Flag \cup Valued
    \/ argv[i] \in Valued /\ (i = Len(argv) \/ ~Accepts(argv[i], argv[i+1]))

Ending(argv) == {i \in Options(argv) : argv[i] \in Help \/ Wrong(argv, i)}

(* The last option that sets a field gives its value.                        *)
Sets(opt, f) == \/ opt \in DOMAIN Flag /\ Flag[opt][1] = f
                \/ opt \in DOMAIN Text /\ Text[opt] = f
                \/ opt \in DOMAIN Numeric /\ Numeric[opt] = f

Meant(argv, f) ==
    LET at == {i \in Options(argv) : Sets(argv[i], f)}
        last == Max(at)
    IN  CASE at = {} -> Default[f]
          [] at # {} /\ argv[last] \in DOMAIN Flag -> Flag[argv[last]][2]
          [] at # {} /\ argv[last] \in DOMAIN Text -> argv[last + 1]
          [] OTHER -> Number[argv[last + 1]]

Meaning(argv) == [f \in DOMAIN Default |-> Meant(argv, f)]
=============================================================================
