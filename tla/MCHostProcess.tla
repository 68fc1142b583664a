---------------------------- MODULE MCHostProcess ----------------------------
(* HostProcess for TLC.                                                      *)
EXTENDS HostProcess, TLC

MCNumber == "0" :> 0 @@ "240" :> 240 @@ "8193" :> 8193 @@ "65536" :> 65536

MCArgument == {"--help", "--selftest", "--probe-gnome", "--no-gst", "--stats", "--port",
               "--fps", "--height", "--frames", "--source", "gnome"} \cup DOMAIN MCNumber

Symmetry == Permutations(Thread)
=============================================================================
