----------------------------- MODULE HostProcess -----------------------------
(***************************************************************************)
(* The host's process from its command line to its exit (host/src/main.rs):   *)
(* reading the arguments, then serving (the start of server.rs, the           *)
(* statistics of Stats), the self test (selftest.rs) or the probe of a virtual *)
(* monitor (gnome/probe.rs).                                                 *)
(*                                                                         *)
(* The port, the log, the monitor and the probe's child outlive or are shared *)
(* with other processes: another host may hold the default port and write the  *)
(* log.  The process may be killed between any two steps.                    *)
(***************************************************************************)
EXTENDS CommandLine, Stats

CONSTANTS
    Argument,       \* the arguments to try
    MaxArguments,   \* bound: how many of them
    MaxPayload      \* the octets of a frame (64 MiB)

ASSUME ProcessAssumption == /\ Number \in [DOMAIN Number -> Nat]
                            /\ {MaxArguments, MaxPayload} \subseteq Nat

VARIABLES
    pc,             \* where main is
    argv,           \* history: the arguments read so far
    want,           \* the option whose value is next, if any
    a,              \* Args; once it serves, what serve was given
    code,           \* the exit status
    gnome,          \* it was built with the gnome feature
    held,           \* another host holds the default port, and writes the log
    taken,          \* history: what the process has taken of the machine
    monitor,        \* the probe's virtual monitor
    child,          \* its gst-launch: none, running, zombie
    report          \* the self test's percentiles, as places in the sorted times

parseVars == <<argv, want, a>>
around == <<gnome, held>>
machine == <<around, taken, monitor, child>>
vars == <<pc, parseVars, code, machine, report, statsVars>>

NoReport == [p50 |-> 0, p95 |-> 0, p99 |-> 0, max |-> 0]

Init == /\ pc = "parse" /\ argv = <<>> /\ want = "" /\ a = Default /\ code = "none"
        /\ gnome \in BOOLEAN /\ held \in BOOLEAN /\ taken = {}
        /\ monitor = FALSE /\ child = "none" /\ report = NoReport
        /\ StatsInit

Step(from, to) == /\ pc = from /\ pc' = to
                  /\ UNCHANGED code

(* The bus drops the session of a process that is gone, and mutter its monitor. *)
Exit(from, status) == /\ pc = from /\ pc' = "exited"
                      /\ code' = status
                      /\ monitor' = FALSE
                      /\ UNCHANGED <<parseVars, around, taken, child, report, statsVars>>

-----------------------------------------------------------------------------
(* parse: one argument at a time, and the checks at the end.                  *)

Reading == pc = "parse" /\ want = "" /\ Len(argv) < MaxArguments

Read(next, opt) == /\ argv' = Append(argv, next) /\ want' = opt
                   /\ UNCHANGED <<machine, report, statsVars>>

ReadFlag == /\ Reading
            /\ \E opt \in Argument \cap DOMAIN Flag :
                 Read(opt, "") /\ a' = SetFlag(a, opt)
            /\ UNCHANGED <<pc, code>>

ReadOption == /\ Reading
              /\ \E opt \in Argument \cap Valued : Read(opt, opt)
              /\ UNCHANGED <<pc, code, a>>

ReadValue ==
    /\ pc = "parse" /\ want # "" /\ Len(argv) < MaxArguments
    /\ \E v \in Argument : Read(v, "") /\ Accepts(want, v) /\ a' = SetValue(a, want, v)
    /\ UNCHANGED <<pc, code>>

Ends(next, status) == /\ argv' = Append(argv, next)
                      /\ pc' = "exited" /\ code' = status
                      /\ UNCHANGED <<want, a, machine, report, statsVars>>

ReadHelp == Reading /\ \E opt \in Argument \cap Help : Ends(opt, "0")

ReadUnknown == /\ Reading
               /\ \E opt \in Argument \ (Help \cup DOMAIN Flag \cup Valued) :
                    Ends(opt, "2")

ReadBadValue == /\ pc = "parse" /\ want # "" /\ Len(argv) < MaxArguments
                /\ \E v \in Argument : ~Accepts(want, v) /\ Ends(v, "2")

Refuse == Exit("parse", "2") /\ (want # "" \/ ~Legal(a))

\* Fault: an option whose value is missing is passed over.
AcceptFault == /\ Step("parse", "main")
               /\ Legal(a)
               /\ a' = Clamped(a)
               /\ UNCHANGED <<argv, want, machine, report, statsVars>>

Accept == /\ Step("parse", "main")
          /\ want = "" /\ Legal(a)
          /\ a' = Clamped(a)
          /\ UNCHANGED <<argv, want, machine, report, statsVars>>

Parse == ReadFlag \/ ReadOption \/ ReadValue \/ ReadHelp \/ ReadUnknown \/ ReadBadValue
         \/ Refuse \/ Accept

-----------------------------------------------------------------------------
(* main.                                                                     *)

(* What serve is given of it, as far as it matters here.                      *)
ServeConfig == [port |-> a.port, logs |-> a.stats # ""]

Begins == [SelfTest |-> "selftest", Serve |-> "bind", ProbeGnome |-> "session"]

Dispatch == /\ pc = "main" /\ (a.mode = "ProbeGnome" => gnome)
            /\ Step("main", Begins[a.mode])
            /\ argv' = <<>>
            /\ a' = IF a.mode = "Serve" THEN ServeConfig ELSE a
            /\ UNCHANGED <<want, machine, report, statsVars>>

NoProbe == Exit("main", "2") /\ a.mode = "ProbeGnome" /\ ~gnome

(* serve: the port first, and the log only then.                             *)
PortFree == ~(held /\ a.port = Default.port)

LogOpened == IF a.logs THEN taken \cup {"log"} ELSE taken

\* Fault: the log is created before the port is held.
BindFault == /\ Step("bind", "create")
             /\ taken' = LogOpened
             /\ UNCHANGED <<parseVars, around, monitor, child, report, statsVars>>

Bind == /\ Step("bind", "create") /\ PortFree
        /\ taken' = taken \cup {"port"}
        /\ UNCHANGED <<parseVars, around, monitor, child, report, statsVars>>

BindFails == Exit("bind", "1")

NewStats == /\ Step("create", "serve")
            /\ IF a.logs THEN CreateLog ELSE UNCHANGED <<logging, log>>
            /\ UNCHANGED <<parseVars, around, monitor, child, report, now, thread, failed,
                           failures, counters, stderr>>

Create == NewStats /\ taken' = LogOpened

CreateFails == Exit("create", "1") /\ a.logs

(* accept_loop, whose threads are those of Stats, ends only with an error.     *)
Serve == /\ pc = "serve" /\ StatsNext
         /\ UNCHANGED <<pc, parseVars, code, machine, report>>

AcceptFails == /\ pc = "serve" /\ pc' = "exited" /\ code' = "1"
               /\ StatsGone
               /\ UNCHANGED <<parseVars, machine, report, logged>>

Serving == Bind \/ BindFails \/ Create \/ CreateFails \/ Serve \/ AcceptFails

-----------------------------------------------------------------------------
(* The self test: all frames are made, their times sorted.                    *)

TooLarge == 4 * a.width * a.height > MaxPayload

(* pct: the place, from 1, rounded to the nearest; q is in hundredths.         *)
Pct(q) == ((a.frames - 1) * q + 50) \div 100 + 1

SelfTest == /\ Step("selftest", "tested") /\ ~TooLarge
            /\ report' = [p50 |-> Pct(50), p95 |-> Pct(95),
                          p99 |-> Pct(99), max |-> a.frames]
            /\ UNCHANGED <<parseVars, machine, statsVars>>

(* The first frame is a full one, which to_bytes refuses.                     *)
SelfTestPanics == Exit("selftest", "101") /\ TooLarge

SelfTestEnds == Exit("tested", "0")

(* The probe: session, consumer, hold, and all of it back.                    *)
ProbeStep(from, to) == /\ Step(from, to)
                       /\ UNCHANGED <<parseVars, around, taken, report, statsVars>>

StartSession == ProbeStep("session", "spawn") /\ monitor' = TRUE /\ UNCHANGED child

(* Among others: no PipeWireStreamAdded for 8 s, when the monitor is there.    *)
SessionFails == Exit("session", "1")

Spawn == /\ ProbeStep("spawn", "hold") /\ ~a.no_gst
         /\ child' = "running"
         /\ UNCHANGED monitor

(* It was not asked for, or could not be started: a warning.                   *)
NoSpawn == ProbeStep("spawn", "hold") /\ UNCHANGED <<monitor, child>>

Hold == /\ ProbeStep("hold", IF child = "none" THEN "stop" ELSE "kill")
        /\ UNCHANGED <<monitor, child>>

\* Fault: the child is killed and not waited for.
KillFault == ProbeStep("kill", "stop") /\ child' = "zombie" /\ UNCHANGED monitor

(* kill fails if it is dead; wait does not.                                   *)
Kill == ProbeStep("kill", "stop") /\ child' = "none" /\ UNCHANGED monitor

(* stop, once more when the session is dropped if it failed; a warning.        *)
StopSession == /\ ProbeStep("stop", "stopped")
               /\ monitor' \in {FALSE, monitor}
               /\ UNCHANGED child

ProbeEnds == Exit("stopped", "0")

Probe == \/ StartSession \/ SessionFails \/ Spawn \/ NoSpawn \/ Hold \/ Kill \/ StopSession
         \/ ProbeEnds

-----------------------------------------------------------------------------
(* From outside: gst-launch ends by itself, and stays a zombie of a process     *)
(* that lives; the process is killed.                                        *)

ChildDies == /\ child = "running"
             /\ child' = IF pc = "exited" THEN "none" ELSE "zombie"
             /\ UNCHANGED <<pc, parseVars, code, around, taken, monitor, report, statsVars>>

Killed == /\ pc # "exited" /\ pc' = "exited"
          /\ code' = "signal" /\ monitor' = FALSE
          /\ child' = IF child = "running" THEN "running" ELSE "none"
          /\ StatsGone
          /\ UNCHANGED <<parseVars, around, taken, report, logged>>

Next == \/ Parse \/ Dispatch \/ NoProbe \/ Serving
        \/ SelfTest \/ SelfTestPanics \/ SelfTestEnds \/ Probe
        \/ ChildDies \/ Killed

Spec == Init /\ [][Next]_vars

-----------------------------------------------------------------------------
(* Properties, with those of Stats.                                          *)

(* Options are read from left to right up to the first help or mistake, which  *)
(* decides; of a command line that is taken, every option has the value given  *)
(* to it last, and every other its default; and a self test has a frame.       *)
ReadAsMeant ==
    LET ending == Ending(argv)
    IN  /\ pc = "main" =>
             /\ ending = {} /\ Legal(Meaning(argv))
             /\ a = [Meaning(argv) EXCEPT !.frames = IF @ = 0 THEN 1 ELSE @]
        /\ pc = "exited" /\ code = "2" /\ taken = {} /\ argv # <<>> =>
             \/ ending # {} /\ argv[Min(ending)] \notin Help
             \/ ending = {} /\ ~Legal(Meaning(argv))
             \/ Meaning(argv).mode = "ProbeGnome" /\ ~gnome
        /\ pc = "exited" /\ code = "0" /\ argv # <<>> =>
             ending # {} /\ argv[Min(ending)] \in Help

(* A host that cannot have the port leaves alone the log of the host that has  *)
(* it: no two hosts of one port write one log.                               *)
LogNeedsPort == "log" \in taken => "port" \in taken /\ PortFree

(* What succeeds has left nothing behind, no port, log or monitor, and no child  *)
(* that lives or waits to be reaped, so a serving host never does; and the      *)
(* percentiles of a self test have places, which rise to that of the maximum.  *)
SuccessIsWhole ==
    code = "0" => /\ taken = {} /\ ~monitor /\ child = "none"
                  /\ report = NoReport \/ /\ 1 <= report.p50 /\ report.p50 <= report.p95
                                          /\ report.p95 <= report.p99
                                          /\ report.p99 <= report.max
=============================================================================
