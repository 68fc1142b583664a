-------------------------- MODULE HostProcess_proofs --------------------------
(***************************************************************************)
(* Proofs about the host's process: for every command line of every length,   *)
(* any numerals, any number of writer threads, of frames and of writes that   *)
(* fail.                                                                    *)
(***************************************************************************)
EXTENDS HostProcess, TLAPS, FiniteSetTheorems, WellFoundedInduction

Modes  == {"Serve", "SelfTest", "ProbeGnome"}
Fields == {"mode", "source", "bind", "port", "width", "height", "fps",
           "full_every_secs", "stats", "frame_ack", "frames", "hold_secs", "no_gst"}

(* An Args: its fields, the mode, and that the frames are a number.           *)
IsArgs(x) == /\ x = [f \in Fields |-> x[f]]
             /\ x.mode \in Modes /\ x.frames \in Nat

LEMMA DefaultIsArgs == DOMAIN Default = Fields /\ IsArgs(Default)
<1>1. DOMAIN Default = Fields /\ Default.mode \in Modes /\ Default.frames \in Nat
  BY DEF Default, Fields, Modes
<1>2. Default \in [Fields -> {Default[f] : f \in Fields}]
  BY <1>1 DEF Default, Fields
<1> QED
  BY <1>1, <1>2 DEF IsArgs

(* The fields that options set.                                              *)
LEMMA OptionFields ==
    /\ \A opt \in DOMAIN Flag : /\ Flag[opt][1] \in {"mode", "frame_ack", "no_gst"}
                                /\ Flag[opt][1] = "mode" => Flag[opt][2] \in Modes
    /\ \A opt \in DOMAIN Text : Text[opt] \in {"source", "bind", "stats"}
    /\ \A opt \in DOMAIN Numeric : Numeric[opt] \in Fields \ {"mode"}
BY DEF Flag, Text, Numeric, Modes, Fields

LEMMA SetFlagType ==
    ASSUME NEW x, IsArgs(x), NEW opt \in DOMAIN Flag
    PROVE  IsArgs(SetFlag(x, opt))
BY OptionFields DEF IsArgs, SetFlag, Fields

LEMMA SetValueType ==
    ASSUME NEW x, IsArgs(x), NEW opt \in Valued, NEW v, Accepts(opt, v)
    PROVE  IsArgs(SetValue(x, opt, v))
<1>1. CASE opt \in DOMAIN Text
  BY <1>1, OptionFields DEF IsArgs, SetValue, Fields
<1>2. CASE opt \notin DOMAIN Text
  <2>1. opt \in DOMAIN Numeric /\ v \in DOMAIN Number
    BY <1>2 DEF Valued, Accepts, ParsesAs
  <2>2. Number[v] \in Nat
    BY <2>1, ProcessAssumption
  <2> QED
    BY <1>2, <2>1, <2>2, OptionFields DEF IsArgs, SetValue, Fields
<1> QED
  BY <1>1, <1>2

-----------------------------------------------------------------------------
(* What the process takes of the machine, and what it leaves.                 *)

(* The port is taken first and only if it is free; nothing else is taken but    *)
(* by a host that serves.                                                   *)
PortHeld ==
    /\ pc \notin {"create", "serve", "exited"} => taken = {}
    /\ pc \in {"create", "serve"} => "port" \in taken
    /\ "log" \in taken => "port" \in taken
    /\ "port" \in taken => PortFree

(* The probe has its monitor from the session to the stop, its child while it   *)
(* holds and until it has killed it.                                         *)
ProbeHolds ==
    /\ pc # "exited" => code = "none"
    /\ monitor => pc \in {"spawn", "hold", "kill", "stop", "stopped"}
    /\ child # "none" => pc \in {"hold", "kill", "exited"}
    /\ code = "0" => child = "none"

(* A mode is tested of arguments that were taken, on a frame at least.        *)
ArgsRead ==
    /\ pc = "parse" => IsArgs(a) /\ want \in Valued \cup {""}
    /\ pc \in {"main", "selftest"} => IsArgs(a) /\ a.frames # 0

Places(r) == r = NoReport \/ /\ 1 <= r.p50 /\ r.p50 <= r.p95
                             /\ r.p95 <= r.p99 /\ r.p99 <= r.max

NothingTaken == code = "0" => taken = {}

MachineInv == PortHeld /\ ProbeHolds /\ ArgsRead /\ Places(report) /\ NothingTaken

LEMMA MachineKept ==
    MachineInv /\ UNCHANGED <<pc, code, taken, held, a, want, monitor, child, report>>
      => MachineInv'
<1> SUFFICES ASSUME MachineInv,
                    UNCHANGED <<pc, code, taken, held, a, want, monitor, child, report>>
             PROVE  MachineInv'
  OBVIOUS
<1>1. PortHeld' /\ NothingTaken'
  BY DEF MachineInv, PortHeld, PortFree, NothingTaken
<1>2. ProbeHolds'
  BY DEF MachineInv, ProbeHolds
<1>3. ArgsRead' /\ Places(report)'
  BY DEF MachineInv, ArgsRead, Places
<1> QED
  BY <1>1, <1>2, <1>3 DEF MachineInv

LEMMA ParseStep == MachineInv /\ Parse => MachineInv'
<1> SUFFICES ASSUME MachineInv, Parse PROVE MachineInv'
  OBVIOUS
<1> USE DEF MachineInv
<1>1. pc = "parse" /\ UNCHANGED <<taken, held, gnome, child, report>>
  BY DEF Parse, ReadFlag, ReadOption, ReadValue, ReadHelp, ReadUnknown, ReadBadValue,
     Refuse, Accept, Reading, Read, Ends, Exit, Step, machine, around
<1>2. \/ pc' = "parse" /\ UNCHANGED <<code, monitor>>
      \/ pc' = "main" /\ UNCHANGED <<code, monitor>>
      \/ pc' = "exited" /\ (UNCHANGED monitor \/ ~monitor')
  BY <1>1 DEF Parse, ReadFlag, ReadOption, ReadValue, ReadHelp, ReadUnknown, ReadBadValue,
     Refuse, Accept, Reading, Read, Ends, Exit, Step, machine
<1>3. PortHeld' /\ NothingTaken'
  BY <1>1, <1>2 DEF PortHeld, NothingTaken
<1>5. ProbeHolds'
  BY <1>1, <1>2 DEF ProbeHolds
<1>4. ArgsRead'
  <2>1. CASE ReadFlag
    <3>1. PICK opt \in DOMAIN Flag : a' = SetFlag(a, opt) /\ want' = "" /\ pc' = "parse"
      BY <2>1 DEF ReadFlag, Read, Reading
    <3> QED
      BY <1>1, <3>1, SetFlagType DEF ArgsRead
  <2>2. CASE ReadOption
    BY <1>1, <2>2 DEF ReadOption, Read, Reading, ArgsRead
  <2>3. CASE ReadValue
    <3>1. PICK v : Accepts(want, v) /\ a' = SetValue(a, want, v) /\ want' = ""
                   /\ pc' = "parse" /\ want # ""
      BY <2>3 DEF ReadValue, Read
    <3> QED
      BY <1>1, <3>1, SetValueType DEF ArgsRead
  <2>4. CASE Accept
    <3>1. a' = Clamped(a) /\ pc' = "main" /\ IsArgs(a)
      BY <1>1, <2>4 DEF Accept, Step, ArgsRead
    <3>2. IsArgs(a') /\ a'.frames # 0
      BY <3>1 DEF Clamped, IsArgs, Fields
    <3> QED
      BY <3>1, <3>2 DEF ArgsRead
  <2>5. CASE ReadHelp \/ ReadUnknown \/ ReadBadValue \/ Refuse
    BY <2>5 DEF ReadHelp, ReadUnknown, ReadBadValue, Refuse, Ends, Exit, ArgsRead
  <2> QED
    BY <2>1, <2>2, <2>3, <2>4, <2>5 DEF Parse
<1> QED
  BY <1>1, <1>3, <1>4, <1>5 DEF Places

LEMMA MainStep == MachineInv /\ (Dispatch \/ NoProbe) => MachineInv'
<1> SUFFICES ASSUME MachineInv, Dispatch \/ NoProbe PROVE MachineInv'
  OBVIOUS
<1> USE DEF MachineInv
<1>1. CASE Dispatch
  <2>1. /\ pc = "main" /\ pc' = Begins[a.mode] /\ a.mode \in Modes
        /\ UNCHANGED <<code, taken, held, child, monitor, report, want>>
    BY <1>1 DEF Dispatch, Step, machine, around, ArgsRead, IsArgs
  <2>2. /\ pc' \in {"selftest", "bind", "session"}
        /\ pc' = "selftest" => a.mode = "SelfTest" /\ a' = a
    BY <1>1, <2>1 DEF Begins, Modes, Dispatch
  <2> QED
    BY <2>1, <2>2 DEF PortHeld, ProbeHolds, ArgsRead, NothingTaken, Places
<1>2. CASE NoProbe
  BY <1>2 DEF NoProbe, Exit, around, PortHeld, ProbeHolds, ArgsRead, NothingTaken, Places
<1> QED
  BY <1>1, <1>2

LEMMA ServingStep == MachineInv /\ Serving => MachineInv'
<1> SUFFICES ASSUME MachineInv, Serving PROVE MachineInv'
  OBVIOUS
<1> USE DEF MachineInv
<1>1. CASE Bind
  BY <1>1 DEF Bind, Step, parseVars, around, PortFree, PortHeld, ProbeHolds, ArgsRead,
     NothingTaken, Places
<1>2. CASE BindFails \/ CreateFails
  <2>1. /\ pc \in {"bind", "create"} /\ pc' = "exited" /\ code' = "1" /\ ~monitor'
        /\ UNCHANGED <<taken, held, a, want, child, report>>
    BY <1>2 DEF BindFails, CreateFails, Exit, parseVars, around
  <2> QED
    BY <2>1 DEF PortFree, PortHeld, ProbeHolds, ArgsRead, NothingTaken, Places
<1>3. CASE Create
  <2>1. /\ pc = "create" /\ pc' = "serve" /\ taken' \in {taken, taken \cup {"log"}}
        /\ UNCHANGED <<code, held, a, want, monitor, child, report>>
    BY <1>3 DEF Create, NewStats, LogOpened, Step, parseVars, around
  <2> QED
    BY <2>1 DEF PortFree, PortHeld, ProbeHolds, ArgsRead, NothingTaken, Places
<1>4. CASE Serve
  BY <1>4, MachineKept DEF Serve, machine, parseVars, around
<1>5. CASE AcceptFails
  <2>1. /\ pc = "serve" /\ pc' = "exited" /\ code' = "1"
        /\ UNCHANGED <<taken, held, a, monitor, child, report>>
    BY <1>5 DEF AcceptFails, machine, parseVars, around
  <2> QED
    BY <2>1 DEF PortFree, PortHeld, ProbeHolds, ArgsRead, NothingTaken, Places
<1> QED
  BY <1>1, <1>2, <1>3, <1>4, <1>5 DEF Serving

(* The places of the percentiles, rounded, rise and stay within the frames.    *)
LEMMA PercentilePlaces ==
    ASSUME a.frames \in Nat, a.frames # 0
    PROVE  Places([p50 |-> Pct(50), p95 |-> Pct(95), p99 |-> Pct(99), max |-> a.frames])
BY DEF Places, Pct

LEMMA SelfTestStep ==
    MachineInv /\ (SelfTest \/ SelfTestPanics \/ SelfTestEnds) => MachineInv'
<1> SUFFICES ASSUME MachineInv, SelfTest \/ SelfTestPanics \/ SelfTestEnds PROVE MachineInv'
  OBVIOUS
<1> USE DEF MachineInv
<1>1. CASE SelfTest
  <2>1. Places(report')
    BY <1>1, PercentilePlaces DEF SelfTest, Step, ArgsRead, IsArgs
  <2> QED
    BY <1>1, <2>1 DEF SelfTest, Step, machine, parseVars, around, PortFree, PortHeld,
       ProbeHolds, ArgsRead, NothingTaken
<1>2. CASE SelfTestPanics \/ SelfTestEnds
  BY <1>2 DEF SelfTestPanics, SelfTestEnds, Exit, parseVars, around, PortFree, PortHeld,
     ProbeHolds, ArgsRead, NothingTaken, Places
<1> QED
  BY <1>1, <1>2

LEMMA ProbeActions == MachineInv /\ Probe => MachineInv'
<1> SUFFICES ASSUME MachineInv, Probe PROVE MachineInv'
  OBVIOUS
<1> USE DEF MachineInv
<1>1. /\ UNCHANGED <<taken, held, a, want, report>>
      /\ pc \notin {"parse", "main", "bind", "create", "serve", "exited"}
      /\ pc' \notin {"parse", "main", "bind", "create", "serve", "selftest"}
  BY DEF Probe, StartSession, SessionFails, Spawn, NoSpawn, Hold, Kill, StopSession,
     ProbeEnds, ProbeStep, Exit, Step, parseVars, around
<1>2. PortHeld' /\ ArgsRead' /\ Places(report)' /\ taken' = {}
  BY <1>1 DEF PortHeld, PortFree, ArgsRead, Places
<1>3. ProbeHolds'
  <2>1. CASE SessionFails \/ ProbeEnds
    BY <2>1 DEF SessionFails, ProbeEnds, Exit, ProbeHolds
  <2>2. CASE StartSession \/ Spawn \/ NoSpawn \/ Hold \/ Kill
    BY <2>2 DEF StartSession, Spawn, NoSpawn, Hold, Kill, ProbeStep, Step, ProbeHolds
  <2>3. CASE StopSession
    BY <2>3 DEF StopSession, ProbeStep, Step, ProbeHolds
  <2> QED
    BY <2>1, <2>2, <2>3 DEF Probe
<1> QED
  BY <1>2, <1>3 DEF NothingTaken

LEMMA OutsideStep == MachineInv /\ (ChildDies \/ Killed) => MachineInv'
<1> SUFFICES ASSUME MachineInv, ChildDies \/ Killed PROVE MachineInv'
  OBVIOUS
<1>1. /\ UNCHANGED <<taken, held, a, want, report>>
      /\ \/ UNCHANGED <<pc, code, monitor>> /\ child = "running"
         \/ pc' = "exited" /\ code' = "signal" /\ ~monitor'
  BY DEF ChildDies, Killed, parseVars, around
<1>2. PortHeld' /\ NothingTaken' /\ ArgsRead' /\ Places(report)'
  BY <1>1 DEF MachineInv, PortHeld, PortFree, NothingTaken, ArgsRead, Places
<1>3. ProbeHolds'
  BY <1>1 DEF MachineInv, ProbeHolds, ChildDies, Killed
<1> QED
  BY <1>2, <1>3 DEF MachineInv

THEOREM MachineInvariant == Spec => []MachineInv
<1>1. Init => MachineInv
  BY DefaultIsArgs DEF Init, MachineInv, PortHeld, ProbeHolds, ArgsRead, NothingTaken, Places
<1>2. MachineInv /\ UNCHANGED vars => MachineInv'
  BY MachineKept DEF vars, machine, parseVars, around
<1>3. MachineInv /\ [Next]_vars => MachineInv'
  BY <1>2, ParseStep, MainStep, ServingStep, SelfTestStep, ProbeActions, OutsideStep DEF Next
<1> QED
  BY <1>1, <1>3, PTL DEF Spec

(* No log is touched before the port is held, and no port is held that another *)
(* host holds: Stats::new comes after TcpListener::bind in serve.             *)
THEOREM LogAfterPort == Spec => []LogNeedsPort
<1>1. MachineInv => LogNeedsPort
  BY DEF MachineInv, PortHeld, LogNeedsPort
<1> QED
  BY <1>1, MachineInvariant, PTL

(* The exit status 0 means that port, log, monitor and child are given back,   *)
(* wherever the child died by itself, and that percentiles have places.        *)
THEOREM SuccessGivesBack == Spec => []SuccessIsWhole
<1>1. MachineInv => SuccessIsWhole
  BY DEF MachineInv, PortHeld, ProbeHolds, NothingTaken, Places, SuccessIsWhole
<1> QED
  BY <1>1, MachineInvariant, PTL

-----------------------------------------------------------------------------
(* The command line.  What a line means is said of the whole of it; what is read  *)
(* is read from the left: how the meaning grows with each argument.             *)

(* Of numbers there is a least one.                                          *)
LEMMA LeastExists ==
    ASSUME NEW S \in SUBSET Nat, S # {}
    PROVE  \E i \in S : \A j \in S : i <= j
<1> DEFINE Less == OpToRel(<, Nat)
<1>1. \A x, y \in Nat : x < y => <<x, y>> \in Less
  BY DEF OpToRel
<1>2. IsWellFoundedOn(Less, Nat)
  BY NatLessThanWellFounded
<1> HIDE DEF Less
<1>3. PICK i \in S : \A j \in S : ~ (<<j, i>> \in Less)
  BY <1>2, WFMin
<1>4. i \in Nat
  OBVIOUS
<1>5. ASSUME NEW j \in S PROVE i <= j
  <2>1. j \in Nat /\ ~ (<<j, i>> \in Less)
    BY <1>3
  <2>2. ~ (j < i)
    BY <1>1, <1>4, <2>1
  <2> QED
    BY <1>4, <2>1, <2>2
<1> QED
  BY <1>5

(* And of some that are bounded, a greatest one.                              *)
LEMMA GreatestExists ==
    ASSUME NEW n \in Nat, NEW S \in SUBSET (1..n), S # {}
    PROVE  Max(S) \in S /\ \A j \in S : j <= Max(S)
<1> DEFINE Above == {b \in Nat : \A j \in S : j <= b}
<1>1. n \in Above
  OBVIOUS
<1>2. PICK b \in Above : \A c \in Above : b <= c
  <2> HIDE DEF Above
  <2>1. Above \subseteq Nat
    BY DEF Above
  <2> QED
    BY <1>1, <2>1, LeastExists
<1>3. b \in S
  <2> SUFFICES ASSUME b \notin S PROVE FALSE
    OBVIOUS
  <2>1. PICK j \in S : TRUE
    OBVIOUS
  <2>2. b - 1 \in Above
    BY <2>1
  <2> QED
    BY <1>2, <2>2
<1> QED
  BY <1>2, <1>3 DEF Max

(* Which places hold options is determined from left to right.                *)
LEMMA OptionsUnique ==
    ASSUME NEW S, NEW s \in Seq(S),
           NEW J \in SUBSET (1..Len(s)), NEW K \in SUBSET (1..Len(s)),
           IsOptions(s, J), IsOptions(s, K)
    PROVE  J = K
<1> DEFINE Differ == {i \in 1..Len(s) : ~(i \in J <=> i \in K)}
<1> SUFFICES ASSUME Differ # {} PROVE FALSE
  OBVIOUS
<1>1. PICK i \in Differ : \A j \in Differ : i <= j
  <2>1. Differ \subseteq Nat
    OBVIOUS
  <2> HIDE DEF Differ
  <2> QED
    BY <2>1, LeastExists
<1>2. i > 1 => (i - 1 \in J <=> i - 1 \in K)
  BY <1>1
<1> QED
  BY <1>1, <1>2 DEF IsOptions

(* The places of a command line are told apart.                               *)
Parsed(s) == Options(s) \in SUBSET (1..Len(s)) /\ IsOptions(s, Options(s))

LEMMA OptionsAre ==
    ASSUME NEW S, NEW s \in Seq(S), NEW K \in SUBSET (1..Len(s)), IsOptions(s, K)
    PROVE  Parsed(s) /\ Options(s) = K
<1>1. Parsed(s)
  BY DEF Parsed, Options
<1> QED
  BY <1>1, OptionsUnique DEF Parsed

(* The next argument is an option unless the last one is and takes it.         *)
LEMMA OptionsAppend ==
    ASSUME NEW S, NEW s \in Seq(S), NEW x \in S, Parsed(s)
    PROVE  /\ Parsed(Append(s, x))
           /\ Options(Append(s, x)) =
                IF Len(s) \in Options(s) /\ s[Len(s)] \in Valued
                THEN Options(s) ELSE Options(s) \cup {Len(s) + 1}
<1> DEFINE t == Append(s, x)
           K == IF Len(s) \in Options(s) /\ s[Len(s)] \in Valued
                THEN Options(s) ELSE Options(s) \cup {Len(s) + 1}
<1>1. /\ t \in Seq(S) /\ Len(t) = Len(s) + 1 /\ Len(s) \in Nat
      /\ \A i \in 1..Len(s) : t[i] = s[i]
  OBVIOUS
<1>2. K \in SUBSET (1..Len(t))
  BY <1>1 DEF Parsed
<1>3. ASSUME NEW i \in 1..Len(t)
      PROVE  i \in K <=> ~(i > 1 /\ i-1 \in K /\ t[i-1] \in Valued)
  <2>1. CASE i = Len(s) + 1
    BY <1>1, <2>1 DEF Parsed
  <2>2. CASE i # Len(s) + 1
    <3>1. i \in 1..Len(s) /\ (i > 1 => i - 1 \in 1..Len(s) /\ t[i-1] = s[i-1])
      BY <1>1, <2>2
    <3>2. \A j \in 1..Len(s) : j \in K <=> j \in Options(s)
      BY <1>1
    <3> QED
      BY <3>1, <3>2 DEF Parsed, IsOptions
  <2> QED
    BY <2>1, <2>2
<1>4. IsOptions(t, K)
  BY <1>3 DEF IsOptions
<1> HIDE DEF t, K
<1>5. Parsed(t) /\ Options(t) = K
  BY <1>1, <1>2, <1>4, OptionsAre
<1> QED
  BY <1>5 DEF t, K

(* No option stands alone, takes a value, and ends the reading at once.        *)
LEMMA OptionKinds ==
    /\ Valued \cap (DOMAIN Flag \cup Help) = {} /\ DOMAIN Flag \cap Help = {}
    /\ DOMAIN Text \cap DOMAIN Numeric = {}
    /\ "" \notin Valued
BY DEF Valued, Flag, Text, Numeric, Help

(* A command line that was read without help, mistake or an open option.       *)
Complete(s) == Parsed(s) /\ Ending(s) = {}

(* Every option in it that takes a value has one.                             *)
LEMMA CompleteOptions ==
    ASSUME NEW S, NEW s \in Seq(S), Complete(s), NEW i \in Options(s)
    PROVE  /\ i \in 1..Len(s)
           /\ s[i] \in DOMAIN Flag \cup Valued
           /\ s[i] \in Valued => i < Len(s) /\ Accepts(s[i], s[i+1])
<1>1. i \in 1..Len(s)
  BY DEF Complete, Parsed
<1>2. s[i] \notin Help /\ ~Wrong(s, i)
  BY DEF Complete, Ending
<1> QED
  BY <1>1, <1>2 DEF Wrong

(* What comes after it does not change how it is read.                        *)
LEMMA EndingGrows ==
    ASSUME NEW S, NEW s \in Seq(S), NEW t \in Seq(S), Complete(s), Len(s) < Len(t),
           \A i \in 1..Len(s) : t[i] = s[i],
           Options(t) = Options(s) \cup {Len(s) + 1}
    PROVE  Ending(t) = IF t[Len(s) + 1] \in Help \/ Wrong(t, Len(s) + 1)
                       THEN {Len(s) + 1} ELSE {}
<1>1. ASSUME NEW i \in Options(s) PROVE t[i] \notin Help /\ ~Wrong(t, i)
  <2>1. /\ i \in 1..Len(s) /\ s[i] \in DOMAIN Flag \cup Valued
        /\ s[i] \in Valued => i < Len(s) /\ Accepts(s[i], s[i+1])
    BY CompleteOptions
  <2>2. t[i] = s[i] /\ (i < Len(s) => t[i+1] = s[i+1]) /\ i # Len(t)
    BY <2>1
  <2> QED
    BY <2>1, <2>2, OptionKinds DEF Wrong
<1> QED
  BY <1>1 DEF Ending

(* After a complete line comes an option: a flag completes it, one that takes a *)
(* value stays open, any other ends the reading.                              *)
LEMMA AppendOption ==
    ASSUME NEW S, NEW s \in Seq(S), NEW x \in S, Complete(s)
    PROVE  /\ Parsed(Append(s, x))
           /\ Options(Append(s, x)) = Options(s) \cup {Len(s) + 1}
           /\ Ending(Append(s, x)) = IF x \in DOMAIN Flag THEN {} ELSE {Len(s) + 1}
<1> DEFINE t == Append(s, x)
<1>1. /\ t \in Seq(S) /\ Len(t) = Len(s) + 1 /\ t[Len(s) + 1] = x
      /\ \A i \in 1..Len(s) : t[i] = s[i]
  OBVIOUS
<1>2. ~ (Len(s) \in Options(s) /\ s[Len(s)] \in Valued)
  BY CompleteOptions
<1>3. Parsed(t) /\ Options(t) = Options(s) \cup {Len(s) + 1}
  BY <1>2, OptionsAppend DEF Complete
<1> HIDE DEF t
<1>4. Ending(t) = IF x \in Help \/ Wrong(t, Len(t)) THEN {Len(s) + 1} ELSE {}
  BY <1>1, <1>3, EndingGrows
<1>5. x \in Help \/ Wrong(t, Len(t)) <=> x \notin DOMAIN Flag
  BY <1>1, OptionKinds DEF Wrong
<1> QED
  BY <1>3, <1>4, <1>5 DEF t

(* An option that takes a value takes what comes next, whatever it is.         *)
LEMMA AppendValue ==
    ASSUME NEW S, NEW s \in Seq(S), NEW x \in S \cap Valued, NEW v \in S, Complete(s)
    PROVE  LET t == Append(Append(s, x), v)
           IN  /\ Parsed(t) /\ Options(t) = Options(s) \cup {Len(s) + 1}
               /\ Ending(t) = IF Accepts(x, v) THEN {} ELSE {Len(s) + 1}
<1> DEFINE u == Append(s, x)
           t == Append(u, v)
<1>1. /\ u \in Seq(S) /\ Len(u) = Len(s) + 1 /\ u[Len(s) + 1] = x
      /\ \A i \in 1..Len(s) : u[i] = s[i]
  OBVIOUS
<1>2. Parsed(u) /\ Options(u) = Options(s) \cup {Len(s) + 1}
  BY AppendOption
<1> HIDE DEF u
<1>3. /\ t \in Seq(S) /\ Len(t) = Len(s) + 2 /\ t[Len(s) + 1] = x /\ t[Len(s) + 2] = v
      /\ \A i \in 1..Len(s) : t[i] = s[i]
  BY <1>1
<1>4. Parsed(t) /\ Options(t) = Options(s) \cup {Len(s) + 1}
  BY <1>1, <1>2, OptionsAppend
<1> HIDE DEF t
<1>5. Ending(t) = IF x \in Help \/ Wrong(t, Len(s) + 1) THEN {Len(s) + 1} ELSE {}
  BY <1>3, <1>4, EndingGrows
<1>6. x \in Help \/ Wrong(t, Len(s) + 1) <=> ~Accepts(x, v)
  <2>1. Len(s) + 1 # Len(t) /\ (Len(s) + 1) + 1 = Len(s) + 2
    BY <1>3
  <2>2. x \in Valued /\ x \notin Help
    BY OptionKinds
  <2>3. t[(Len(s) + 1) + 1] = v
    BY <1>3, <2>1
  <2> QED
    BY <1>3, <2>1, <2>2, <2>3, Zenon DEF Wrong
<1>7. Ending(t) = IF Accepts(x, v) THEN {} ELSE {Len(s) + 1}
  BY <1>5, <1>6
<1> QED
  BY <1>4, <1>7 DEF t, u

-----------------------------------------------------------------------------
(* What an option adds to the meaning.                                       *)

(* An option that does not set a field leaves it, one that does decides it.     *)
LEMMA MeantGrows ==
    ASSUME NEW S, NEW s \in Seq(S), NEW t \in Seq(S), Complete(s), Len(s) < Len(t),
           \A i \in 1..Len(s) : t[i] = s[i],
           Options(t) = Options(s) \cup {Len(s) + 1}, NEW f
    PROVE  LET x == t[Len(s) + 1]
           IN  Meant(t, f) = CASE ~Sets(x, f) -> Meant(s, f)
                               [] Sets(x, f) /\ x \in DOMAIN Flag -> Flag[x][2]
                               [] Sets(x, f) /\ x \in DOMAIN Text -> t[Len(s) + 2]
                               [] OTHER -> Number[t[Len(s) + 2]]
<1> DEFINE n == Len(s) + 1
           x == t[n]
           old == {i \in Options(s) : Sets(s[i], f)}
           new == {i \in Options(t) : Sets(t[i], f)}
<1>1. n \in Nat /\ old \in SUBSET (1..Len(s)) /\ Len(s) \in Nat
  BY DEF Complete, Parsed
<1>2. CASE ~Sets(x, f)
  <2>1. new = old
    BY <1>1, <1>2 DEF Complete, Parsed
  <2>2. CASE old = {}
    BY <2>1, <2>2, <1>2 DEF Meant
  <2>3. CASE old # {}
    <3> DEFINE last == Max(old)
    <3>1. last \in old
      BY <1>1, <2>3, GreatestExists
    <3>2. /\ last \in 1..Len(s) /\ s[last] \in DOMAIN Flag \cup Valued
          /\ s[last] \in Valued => last < Len(s)
      BY <3>1, CompleteOptions
    <3>3. t[last] = s[last] /\ (s[last] \in Valued => t[last + 1] = s[last + 1])
      BY <3>2
    <3>4. s[last] \in DOMAIN Flag \/ s[last] \in Valued
      BY <3>2
    <3> HIDE DEF last
    <3>5. Meant(t, f) = CASE t[last] \in DOMAIN Flag -> Flag[t[last]][2]
                          [] t[last] \notin DOMAIN Flag /\ t[last] \in DOMAIN Text -> t[last + 1]
                          [] t[last] \notin DOMAIN Flag /\ t[last] \notin DOMAIN Text -> Number[t[last + 1]]
      BY <2>1, <2>3, OptionKinds DEF Meant, last, Valued
    <3>6. Meant(s, f) = CASE s[last] \in DOMAIN Flag -> Flag[s[last]][2]
                          [] s[last] \notin DOMAIN Flag /\ s[last] \in DOMAIN Text -> s[last + 1]
                          [] s[last] \notin DOMAIN Flag /\ s[last] \notin DOMAIN Text -> Number[s[last + 1]]
      BY <2>3, OptionKinds DEF Meant, last, Valued
    <3> QED
      BY <1>2, <3>3, <3>4, <3>5, <3>6
  <2> QED
    BY <2>2, <2>3
<1>3. CASE Sets(x, f)
  <2>1. n \in new /\ new \in SUBSET (1..n) /\ \A i \in new : i <= n
    BY <1>1, <1>3 DEF Complete, Parsed
  <2>2. Max(new) = n
    <3> HIDE DEF new
    <3>1. Max(new) \in new /\ n <= Max(new)
      BY <1>1, <2>1, GreatestExists
    <3>2. Max(new) \in 1..n
      BY <2>1, <3>1
    <3> HIDE DEF n
    <3> QED
      BY <1>1, <3>1, <3>2
  <2>3. n + 1 = Len(s) + 2
    BY <1>1
  <2> QED
    BY <1>3, <2>1, <2>2, <2>3, OptionKinds DEF Meant, Valued
<1> QED
  BY <1>2, <1>3

LEMMA EmptyLine == Complete(<<>>) /\ Meaning(<<>>) = Default
<1>1. Parsed(<<>>) /\ Options(<<>>) = {}
  <2>1. <<>> \in Seq({}) /\ Len(<<>>) = 0 /\ {} \in SUBSET (1..Len(<<>>))
    OBVIOUS
  <2>2. IsOptions(<<>>, {})
    BY <2>1 DEF IsOptions
  <2> QED
    BY <2>1, <2>2, OptionsAre
<1>2. \A f : Meant(<<>>, f) = Default[f]
  BY <1>1 DEF Meant
<1>3. Default = [f \in DOMAIN Default |-> Default[f]]
  BY DefaultIsArgs DEF IsArgs
<1>4. Complete(<<>>)
  BY <1>1 DEF Complete, Ending
<1>5. Meaning(<<>>) = [f \in DOMAIN Default |-> Default[f]]
  BY <1>2 DEF Meaning
<1> QED
  BY <1>3, <1>4, <1>5

LEMMA MeaningFlag ==
    ASSUME NEW S, NEW s \in Seq(S), NEW x \in S \cap DOMAIN Flag, Complete(s)
    PROVE  Complete(Append(s, x)) /\ Meaning(Append(s, x)) = SetFlag(Meaning(s), x)
<1> DEFINE t == Append(s, x)
<1>1. /\ t \in Seq(S) /\ Len(s) < Len(t) /\ t[Len(s) + 1] = x
      /\ \A i \in 1..Len(s) : t[i] = s[i]
  OBVIOUS
<1>2. Complete(t) /\ Options(t) = Options(s) \cup {Len(s) + 1}
  BY AppendOption DEF Complete
<1> HIDE DEF t
<1>3. \A f : Sets(x, f) <=> Flag[x][1] = f
  BY OptionKinds DEF Sets, Valued
<1>4. ASSUME NEW f \in Fields
      PROVE  Meant(t, f) = IF Flag[x][1] = f THEN Flag[x][2] ELSE Meant(s, f)
  <2>1. Meant(t, f) = CASE ~Sets(x, f) -> Meant(s, f)
                        [] Sets(x, f) /\ x \in DOMAIN Flag -> Flag[x][2]
                        [] Sets(x, f) /\ x \in DOMAIN Text -> t[Len(s) + 2]
                        [] OTHER -> Number[t[Len(s) + 2]]
    BY <1>1, <1>2, MeantGrows
  <2> QED
    BY <1>3, <2>1, OptionKinds DEF Valued
<1>5. Flag[x][1] \in Fields
  BY OptionFields DEF Fields
<1>6. Meaning(s) = [f \in Fields |-> Meant(s, f)] /\ Meaning(t) = [f \in Fields |-> Meant(t, f)]
  BY DefaultIsArgs DEF Meaning
<1>7. Meaning(t) = [Meaning(s) EXCEPT ![Flag[x][1]] = Flag[x][2]]
  BY <1>4, <1>5, <1>6
<1> QED
  BY <1>2, <1>7 DEF t, SetFlag

LEMMA MeaningValue ==
    ASSUME NEW S, NEW s \in Seq(S), NEW x \in S \cap Valued, NEW v \in S, Complete(s),
           Accepts(x, v)
    PROVE  LET t == Append(Append(s, x), v)
           IN  Complete(t) /\ Meaning(t) = SetValue(Meaning(s), x, v)
<1> DEFINE t == Append(Append(s, x), v)
<1>1. /\ t \in Seq(S) /\ Len(s) < Len(t) /\ t[Len(s) + 1] = x /\ t[Len(s) + 2] = v
      /\ \A i \in 1..Len(s) : t[i] = s[i]
  OBVIOUS
<1>2. Complete(t) /\ Options(t) = Options(s) \cup {Len(s) + 1}
  BY AppendValue DEF Complete
<1> HIDE DEF t
<1> DEFINE field == IF x \in DOMAIN Text THEN Text[x] ELSE Numeric[x]
           value == IF x \in DOMAIN Text THEN v ELSE Number[v]
<1>3. \A f : Sets(x, f) <=> field = f
  BY OptionKinds DEF Sets, Valued
<1>4. ASSUME NEW f \in Fields
      PROVE  Meant(t, f) = IF field = f THEN value ELSE Meant(s, f)
  <2> HIDE DEF field
  <2> QED
    BY <1>1, <1>2, <1>3, MeantGrows, OptionKinds
<1>5. field \in Fields
  BY OptionFields DEF Fields, Valued
<1>6. Meaning(s) = [f \in Fields |-> Meant(s, f)] /\ Meaning(t) = [f \in Fields |-> Meant(t, f)]
  BY DefaultIsArgs DEF Meaning
<1>7. Meaning(t) = [Meaning(s) EXCEPT ![field] = value]
  <2> HIDE DEF field, value
  <2> QED
    BY <1>4, <1>5, <1>6
<1> QED
  BY <1>2, <1>7 DEF t, SetValue

(* A line that ends the reading at its last option.                           *)
LEMMA EndsAt ==
    ASSUME NEW n \in Nat, NEW s, Ending(s) = {n} PROVE Min(Ending(s)) = n
BY DEF Min

(* What is read so far has the meaning built so far, but for an option that     *)
(* waits for its value; and what was decided was decided by what was read.     *)
Reads == /\ argv \in Seq(Argument)
         /\ want = "" => Complete(argv) /\ a = Meaning(argv)
         /\ want # "" => /\ want \in Argument \cap Valued
                         /\ \E s \in Seq(Argument) : /\ Complete(s) /\ a = Meaning(s)
                                                     /\ argv = Append(s, want)

Decided(status) ==
    /\ status = "2" /\ argv # <<>> =>
         \/ Ending(argv) # {} /\ argv[Min(Ending(argv))] \notin Help
         \/ Ending(argv) = {} /\ ~Legal(Meaning(argv))
         \/ Meaning(argv).mode = "ProbeGnome" /\ ~gnome
    /\ status = "0" /\ argv # <<>> =>
         Ending(argv) # {} /\ argv[Min(Ending(argv))] \in Help

Accepted == /\ Ending(argv) = {} /\ Legal(Meaning(argv))
            /\ a = [Meaning(argv) EXCEPT !.frames = IF @ = 0 THEN 1 ELSE @]

CommandInv == /\ pc = "parse" => Reads
              /\ pc = "main" => Accepted
              /\ pc = "exited" => Decided(code)
              /\ pc \notin {"parse", "main", "exited"} => argv = <<>>

(* Appending: the length grows by one and the old elements keep their place.   *)
LEMMA AppendFacts ==
    ASSUME NEW S, NEW s \in Seq(S), NEW e \in S
    PROVE  /\ Append(s, e) \in Seq(S) /\ Len(s) \in Nat
           /\ Len(Append(s, e)) = Len(s) + 1
           /\ \A i \in 1..Len(s) : Append(s, e)[i] = s[i]
           /\ Append(s, e)[Len(s) + 1] = e
OBVIOUS

(* The reading of a line ends, and first at this argument.                    *)
EndsWith(s, x) == Ending(s) # {} /\ s[Min(Ending(s))] = x

(* An option that is no flag, read after a complete line, is its first ending.  *)
LEMMA LastOption ==
    ASSUME NEW S, NEW s \in Seq(S), NEW x \in S, Complete(s), x \notin DOMAIN Flag
    PROVE  EndsWith(Append(s, x), x)
<1> DEFINE t == Append(s, x)
<1>1. t[Len(s) + 1] = x /\ Len(s) + 1 \in Nat
  OBVIOUS
<1>2. Ending(t) = {Len(s) + 1}
  BY AppendOption
<1> HIDE DEF t
<1>3. Min(Ending(t)) = Len(s) + 1
  BY <1>1, <1>2, EndsAt
<1> QED
  BY <1>1, <1>2, <1>3 DEF t, EndsWith

(* So is an option whose value is not accepted.                               *)
LEMMA LastValue ==
    ASSUME NEW S, NEW s \in Seq(S), NEW x \in S \cap Valued, NEW v \in S, Complete(s),
           ~Accepts(x, v)
    PROVE  EndsWith(Append(Append(s, x), v), x)
<1> DEFINE t == Append(Append(s, x), v)
<1>1. t[Len(s) + 1] = x /\ Len(s) + 1 \in Nat
  OBVIOUS
<1>2. Ending(t) = {Len(s) + 1}
  BY AppendValue
<1> HIDE DEF t
<1>3. Min(Ending(t)) = Len(s) + 1
  BY <1>1, <1>2, EndsAt
<1> QED
  BY <1>1, <1>2, <1>3 DEF t, EndsWith

(* What a value that was read last makes of what was read.                    *)
LEMMA ReadsValue ==
    ASSUME Reads, want # "", NEW v \in Argument
    PROVE  /\ Append(argv, v) \in Seq(Argument)
           /\ Accepts(want, v) => /\ Complete(Append(argv, v))
                                  /\ Meaning(Append(argv, v)) = SetValue(a, want, v)
           /\ ~Accepts(want, v) =>
                /\ Ending(Append(argv, v)) # {}
                /\ Append(argv, v)[Min(Ending(Append(argv, v)))] \notin Help
<1>1. PICK s \in Seq(Argument) : Complete(s) /\ a = Meaning(s) /\ argv = Append(s, want)
  BY DEF Reads
<1>2. want \in Argument \cap Valued /\ want \notin Help
  BY OptionKinds DEF Reads
<1>3. Append(argv, v) \in Seq(Argument)
  BY AppendFacts DEF Reads
<1> DEFINE t == Append(Append(s, want), v)
<1>4. t = Append(argv, v)
  BY <1>1
<1>5. Accepts(want, v) => Complete(t) /\ Meaning(t) = SetValue(a, want, v)
  BY <1>1, <1>2, MeaningValue
<1>6. ~Accepts(want, v) => EndsWith(t, want)
  BY <1>1, <1>2, LastValue
<1> HIDE DEF t
<1> QED
  BY <1>2, <1>3, <1>4, <1>5, <1>6 DEF EndsWith

LEMMA ParseReads == MachineInv /\ CommandInv /\ Parse => CommandInv'
<1> SUFFICES ASSUME MachineInv, CommandInv, Parse PROVE CommandInv'
  OBVIOUS
<1>1. pc = "parse" /\ Reads /\ code = "none" /\ IsArgs(a) /\ want \in Valued \cup {""}
      /\ gnome' = gnome
  BY DEF Parse, ReadFlag, ReadOption, ReadValue, ReadHelp, ReadUnknown, ReadBadValue,
     Refuse, Accept, Reading, Read, Ends, Exit, Step, CommandInv, MachineInv, ProbeHolds,
     ArgsRead, machine, around
<1>2. CASE ReadFlag
  <2>1. PICK x \in Argument \cap DOMAIN Flag :
          /\ want = "" /\ want' = "" /\ argv' = Append(argv, x)
          /\ a' = SetFlag(a, x) /\ pc' = "parse"
    BY <1>2 DEF ReadFlag, Reading, Read
  <2>2. argv \in Seq(Argument) /\ Complete(argv) /\ a = Meaning(argv)
    BY <1>1, <2>1 DEF Reads
  <2>3. Complete(argv') /\ a' = Meaning(argv') /\ argv' \in Seq(Argument)
    BY <2>1, <2>2, MeaningFlag, AppendFacts
  <2> QED
    BY <2>1, <2>3 DEF CommandInv, Reads
<1>3. CASE ReadOption
  <2>1. PICK x \in Argument \cap Valued :
          /\ want = "" /\ want' = x /\ argv' = Append(argv, x) /\ a' = a /\ pc' = "parse"
    BY <1>1, <1>3 DEF ReadOption, Reading, Read
  <2>2. argv \in Seq(Argument) /\ Complete(argv) /\ a = Meaning(argv)
    BY <1>1, <2>1 DEF Reads
  <2>3. argv' \in Seq(Argument) /\ want' # "" /\ want' \in Argument \cap Valued
    BY <2>1, <2>2, OptionKinds, AppendFacts
  <2>4. Reads'
    BY <2>1, <2>2, <2>3 DEF Reads
  <2> QED
    BY <2>1, <2>4 DEF CommandInv
<1>4. CASE ReadValue
  <2>1. PICK v \in Argument :
          /\ want # "" /\ Accepts(want, v) /\ want' = "" /\ argv' = Append(argv, v)
          /\ a' = SetValue(a, want, v) /\ pc' = "parse"
    BY <1>1, <1>4 DEF ReadValue, Read
  <2> QED
    BY <1>1, <2>1, ReadsValue DEF CommandInv, Reads
<1>5. CASE ReadHelp \/ ReadUnknown
  <2>1. PICK x \in Argument \ (DOMAIN Flag \cup Valued) :
          /\ want = "" /\ argv' = Append(argv, x) /\ pc' = "exited"
          /\ \/ code' = "0" /\ x \in Help
             \/ code' = "2" /\ x \notin Help
    BY <1>5, OptionKinds DEF ReadHelp, ReadUnknown, Reading, Ends
  <2>2. EndsWith(argv', x)
    BY <1>1, <2>1, LastOption DEF Reads
  <2> QED
    BY <2>1, <2>2 DEF CommandInv, Decided, EndsWith
<1>6. CASE ReadBadValue
  <2>1. PICK v \in Argument :
          /\ want # "" /\ ~Accepts(want, v) /\ argv' = Append(argv, v)
          /\ pc' = "exited" /\ code' = "2"
    BY <1>6 DEF ReadBadValue, Ends
  <2>2. Ending(argv') # {} /\ argv'[Min(Ending(argv'))] \notin Help
    BY <1>1, <2>1, ReadsValue
  <2> QED
    BY <2>1, <2>2 DEF CommandInv, Decided
<1>7. CASE Refuse
  <2>1. pc' = "exited" /\ code' = "2" /\ argv' = argv /\ (want # "" \/ ~Legal(a))
    BY <1>7 DEF Refuse, Exit, parseVars
  <2>2. CASE want # ""
    <3>1. PICK s \in Seq(Argument) : Complete(s) /\ argv = Append(s, want)
      BY <1>1, <2>2 DEF Reads
    <3>2. want \in Argument \cap Valued /\ want \notin Help \cup DOMAIN Flag
      BY <1>1, <2>2, OptionKinds DEF Reads
    <3>3. Ending(argv) = {Len(s) + 1} /\ Len(s) + 1 \in Nat /\ argv[Len(s) + 1] = want
      BY <3>1, <3>2, AppendOption
    <3>4. Min(Ending(argv)) = Len(s) + 1
      BY <3>3, EndsAt
    <3> QED
      BY <2>1, <3>2, <3>3, <3>4 DEF CommandInv, Decided
  <2>3. CASE want = ""
    BY <1>1, <2>1, <2>3 DEF CommandInv, Decided, Reads, Complete
  <2> QED
    BY <2>2, <2>3
<1>8. CASE Accept
  <2>1. /\ pc' = "main" /\ want = "" /\ Legal(a) /\ a' = Clamped(a) /\ argv' = argv
        /\ a = Meaning(argv) /\ Ending(argv) = {}
    BY <1>1, <1>8 DEF Accept, Step, Reads, Complete
  <2>2. Clamped(a) = [a EXCEPT !.frames = IF @ = 0 THEN 1 ELSE @]
    BY <1>1 DEF Clamped, IsArgs, Fields
  <2> QED
    BY <2>1, <2>2 DEF CommandInv, Accepted
<1> QED
  BY <1>2, <1>3, <1>4, <1>5, <1>6, <1>7, <1>8 DEF Parse

LEMMA CommandStep == MachineInv /\ CommandInv /\ [Next]_vars => CommandInv'
<1> SUFFICES ASSUME MachineInv, CommandInv, [Next]_vars PROVE CommandInv'
  OBVIOUS
<1>1. CASE Parse
  BY <1>1, ParseReads
<1>2. CASE Dispatch
  <2>1. pc = "main" /\ pc' = Begins[a.mode] /\ a.mode \in Modes /\ argv' = <<>>
    BY <1>2 DEF Dispatch, Step, MachineInv, ArgsRead, IsArgs
  <2>2. pc' \in {"selftest", "bind", "session"}
    BY <2>1 DEF Begins, Modes
  <2> QED
    BY <2>1, <2>2 DEF CommandInv
<1>3. CASE NoProbe
  <2>1. /\ pc = "main" /\ pc' = "exited" /\ code' = "2" /\ UNCHANGED <<argv, gnome>>
        /\ a.mode = "ProbeGnome" /\ ~gnome
    BY <1>3 DEF NoProbe, Exit, parseVars, around
  <2>2. a.mode = Meaning(argv).mode
    BY <2>1, DefaultIsArgs DEF CommandInv, Accepted, Meaning, Fields
  <2> QED
    BY <2>1, <2>2 DEF CommandInv, Decided
<1>4. CASE Serving \/ SelfTest \/ SelfTestPanics \/ SelfTestEnds \/ Probe
  <2>1. /\ pc \notin {"parse", "main", "exited"} /\ pc' \notin {"parse", "main"}
        /\ argv' = argv
    BY <1>4 DEF Serving, Bind, BindFails, Create, CreateFails, NewStats, Serve, AcceptFails,
       SelfTest, SelfTestPanics, SelfTestEnds, Probe, StartSession, SessionFails, Spawn,
       NoSpawn, Hold, Kill, StopSession, ProbeEnds, ProbeStep, Exit, Step, parseVars
  <2> QED
    BY <2>1 DEF CommandInv, Decided
<1>5. CASE ChildDies
  <2>1. UNCHANGED <<pc, code, argv, want, a, gnome>>
    BY <1>5 DEF ChildDies, parseVars, around
  <2> QED
    BY <2>1 DEF CommandInv, Reads, Accepted, Decided
<1>6. CASE Killed
  BY <1>6 DEF Killed, CommandInv, Decided
<1>7. CASE UNCHANGED vars
  <2>1. UNCHANGED <<pc, code, argv, want, a, gnome>>
    BY <1>7 DEF vars, machine, parseVars, around
  <2> QED
    BY <2>1 DEF CommandInv, Reads, Accepted, Decided
<1> QED
  BY <1>1, <1>2, <1>3, <1>4, <1>5, <1>6, <1>7 DEF Next

(* For every sequence of arguments: the meaning of the whole line, which is    *)
(* said without reading it from the left, is what the loop of Args::parse and   *)
(* its checks make of it.                                                    *)
THEOREM LineIsRead == Spec => []ReadAsMeant
<1>1. Init => CommandInv
  <2>1. <<>> \in Seq(Argument)
    OBVIOUS
  <2> QED
    BY <2>1, EmptyLine DEF Init, CommandInv, Reads
<1>2. CommandInv => ReadAsMeant
  BY DEF CommandInv, Accepted, Decided, ReadAsMeant
<1> QED
  BY <1>1, <1>2, CommandStep, MachineInvariant, PTL DEF Spec

-----------------------------------------------------------------------------
(* The log and the counters.                                                 *)

ThreadPlaces == {"off", "idle", "stamped", "line", "end", "count"}
ThreadState  == [pc : ThreadPlaces, frame : BOOLEAN, time : Nat]
Line         == [of : Thread \cup {"killed"}, time : Nat, frame : BOOLEAN, ended : BOOLEAN]

StatsTypeOK ==
    /\ now \in Nat /\ thread \in [Thread -> ThreadState] /\ log \in Seq(Line)
    /\ inner \in [frames : Nat, window : Nat, start : Nat]
    /\ {summed, failed, uncounted, failures} \subseteq Nat

(* No time is later than now.                                                *)
TimesPassed == /\ \A t \in Thread : thread[t].time <= now
               /\ \A i \in 1..Len(log) : log[i].time <= now

(* One thread at most is at the file, and only if there is one.                *)
Writing(t) == thread[t].pc \in {"line", "end"}

FileHeld == /\ \A t, u \in Thread : Writing(t) /\ Writing(u) => t = u
            /\ \A t \in Thread : Writing(t) => logging
            /\ \A t \in Thread : thread[t].pc = "end" => log # <<>>

(* Between two events every line has its end.                                 *)
LinesEnded ==
    /\ LogWhole
    /\ failures = 0 /\ logging /\ (\A t \in Thread : thread[t].pc # "end") =>
         \A i \in 1..Len(log) : log[i].ended

(* A thread with an event to write would, if it was late for a line, be so for  *)
(* the first time, and not for a line of its own.                             *)
Behind(t, j) == log[j].of = t \/ \E i \in j+1..Len(log) : /\ log[i].of = t
                                                          /\ log[i].time < log[j].time

LateOnce ==
    /\ OvertakenOnce
    /\ \A t \in Thread : thread[t].pc \in {"stamped", "line"} =>
         \A j \in 1..Len(log) : Behind(t, j) => log[j].time <= thread[t].time

(* The threads that have a frame in the log that is not counted.              *)
Between == {t \in Thread : thread[t].pc \in {"count", "end"} /\ thread[t].frame}

Framed == {i \in 1..Len(log) : log[i].frame}

Balanced ==
    /\ summed + inner.window = inner.frames
    /\ \A t \in Thread : thread[t].pc = "count" => thread[t].frame
    /\ IsFiniteSet(Between)
    /\ logging => inner.frames + uncounted + Cardinality(Between)
                    = Cardinality(Framed) + failed

(* Before it serves, and after it ended, no thread runs; before, nothing was    *)
(* counted.                                                                 *)
Quiet ==
    /\ pc # "serve" => ~logging /\ \A t \in Thread : thread[t] = Without("off")
    /\ pc \notin {"serve", "exited"} =>
         /\ inner = [frames |-> 0, window |-> 0, start |-> 0]
         /\ summed = 0 /\ failed = 0 /\ uncounted = 0 /\ failures = 0

StatsInv == /\ StatsTypeOK /\ TimesPassed /\ FileHeld /\ LinesEnded /\ LateOnce
            /\ Balanced /\ Quiet

(* A thread that moves keeps its event until it is idle or off; the others      *)
(* stay where they are.                                                      *)
LEMMA Moved ==
    ASSUME thread \in [Thread -> ThreadState], NEW t \in Thread, NEW from,
           NEW to \in ThreadPlaces, Goto(t, from, to)
    PROVE  /\ thread[t].pc = from
           /\ thread' \in [Thread -> ThreadState]
           /\ \A u \in Thread \ {t} : thread'[u] = thread[u]
           /\ thread'[t].pc = to
           /\ to \in {"idle", "off"} => ~thread'[t].frame /\ thread'[t].time = 0
           /\ to \notin {"idle", "off"} => /\ thread'[t].frame <=> thread[t].frame
                                           /\ thread'[t].time = thread[t].time
<1>1. thread[t] \in ThreadState /\ thread[t].pc = from
  BY DEF Goto, At
<1>2. CASE to \in {"idle", "off"}
  <2>1. thread' = [thread EXCEPT ![t] = Without(to)] /\ Without(to) \in ThreadState
    BY <1>2 DEF Goto, Leave, Without, ThreadState
  <2> QED
    BY <1>1, <1>2, <2>1 DEF Without
<1>3. CASE to \notin {"idle", "off"}
  <2> DEFINE r == [thread[t] EXCEPT !.pc = to]
  <2>1. thread' = [thread EXCEPT ![t] = r]
    BY <1>3 DEF Goto, Leave
  <2>2. /\ r \in ThreadState /\ r.pc = to /\ r.time = thread[t].time
        /\ r.frame <=> thread[t].frame
    BY <1>1 DEF ThreadState
  <2> HIDE DEF r
  <2> QED
    BY <1>1, <1>3, <2>1, <2>2
<1> QED
  BY <1>2, <1>3

(* The time of an event is that at which it was taken.                        *)
LEMMA Stamped ==
    ASSUME thread \in [Thread -> ThreadState], now \in Nat, NEW t \in Thread, Stamp(t)
    PROVE  /\ thread[t].pc = "idle"
           /\ thread' \in [Thread -> ThreadState]
           /\ \A u \in Thread \ {t} : thread'[u] = thread[u]
           /\ thread'[t].pc = "stamped" /\ thread'[t].time = now
BY DEF Stamp, Taken, At, ThreadState, ThreadPlaces

(* The steps of a thread that leave the log, that end its last line, and that   *)
(* append to it.                                                             *)
Leaves(t) == \/ Connect(t) \/ Stamp(t) \/ NoLog(t) \/ LockFile(t) \/ EndFails(t)
             \/ Count(t) \/ Summarise(t) \/ PrintPanics(t) \/ LockPanics(t)

ThreadStep(t) == Leaves(t) \/ EndLine(t) \/ WriteLine(t) \/ LineFails(t)

(* Where each step takes a thread.                                            *)
LEMMA Moves ==
    ASSUME NEW t \in Thread
    PROVE  /\ Connect(t)   => Goto(t, "off", "idle")
           /\ NoLog(t)     => Goto(t, "stamped", Next1(t)) /\ ~logging
           /\ LockFile(t)  => Goto(t, "stamped", "line") /\ logging /\ FileFree
           /\ WriteLine(t) => Goto(t, "line", "end")
           /\ EndLine(t)   => Goto(t, "end", Next1(t))
           /\ LineFails(t) => Goto(t, "line", Next1(t))
           /\ EndFails(t)  => Goto(t, "end", Next1(t))
           /\ Count(t) \/ Summarise(t)        => Goto(t, "count", "idle")
           /\ PrintPanics(t) \/ LockPanics(t) => Goto(t, "count", "off")
           /\ Next1(t) \in {"count", "idle"}
           /\ {"off", "idle", "line", "end", "count"} \subseteq ThreadPlaces
BY DEF Connect, NoLog, LockFile, WriteLine, EndLine, LineFails, EndFails, Count, Summarise,
   PrintPanics, LockPanics, Next1, ThreadPlaces

(* What all of it amounts to: an event is new and of now, or was there; the     *)
(* file is taken when it is free.                                            *)
LEMMA ThreadsMove ==
    ASSUME StatsTypeOK, NEW t \in Thread, ThreadStep(t)
    PROVE  /\ thread' \in [Thread -> ThreadState]
           /\ \A u \in Thread \ {t} : thread'[u] = thread[u]
           /\ thread'[t].time \in {0, now, thread[t].time}
           /\ thread'[t].pc \in {"stamped", "line"} =>
                \/ thread'[t].time = now
                \/ /\ thread[t].pc \in {"stamped", "line"}
                   /\ thread'[t].time = thread[t].time
           /\ thread'[t].pc \in {"line", "end"} =>
                \/ thread[t].pc \in {"line", "end"}
                \/ logging /\ FileFree
<1>1. thread \in [Thread -> ThreadState] /\ now \in Nat
  BY DEF StatsTypeOK
<1>2. CASE Stamp(t)
  BY <1>1, <1>2, Stamped
<1>3. CASE ~Stamp(t)
  <2>1. PICK from \in ThreadPlaces, to \in ThreadPlaces :
          /\ Goto(t, from, to)
          /\ to = "line" => from = "stamped" /\ logging /\ FileFree
          /\ to = "end" => from = "line"
          /\ to # "stamped"
    <3>1. "stamped" \in ThreadPlaces /\ Next1(t) \in ThreadPlaces
      BY Moves DEF ThreadPlaces
    <3> QED
      BY <1>3, <3>1, Moves, Zenon DEF ThreadStep, Leaves
  <2> QED
    BY <1>1, <2>1, Moved
<1> QED
  BY <1>2, <1>3

(* What a step does to the log, and where it leaves the thread.                *)
LEMMA LineEnds ==
    ASSUME StatsTypeOK, NEW t \in Thread, EndLine(t) \/ EndFails(t)
    PROVE  /\ thread[t].pc = "end"
           /\ thread'[t].pc = IF thread[t].frame THEN "count" ELSE "idle"
           /\ thread'[t].frame <=> thread[t].frame
<1>1. thread \in [Thread -> ThreadState] /\ thread[t].frame \in BOOLEAN
  BY DEF StatsTypeOK, ThreadState
<1>2. Goto(t, "end", Next1(t)) /\ Next1(t) \in ThreadPlaces
  BY Moves
<1>3. thread[t].pc = "end" /\ thread'[t].pc = Next1(t)
  BY <1>1, <1>2, Moved
<1>4. CASE thread[t].frame
  BY <1>1, <1>2, <1>3, <1>4, Moved DEF Next1
<1>5. CASE ~thread[t].frame
  BY <1>1, <1>2, <1>3, <1>5, Moved DEF Next1
<1> QED
  BY <1>4, <1>5

LEMMA LineLeft ==
    ASSUME StatsTypeOK, NEW t \in Thread, LineFails(t)
    PROVE  /\ thread[t].pc = "line"
           /\ thread'[t].pc = IF thread[t].frame THEN "count" ELSE "idle"
           /\ thread'[t].frame <=> thread[t].frame
<1>1. thread \in [Thread -> ThreadState] /\ thread[t].frame \in BOOLEAN
  BY DEF StatsTypeOK, ThreadState
<1>2. Goto(t, "line", Next1(t)) /\ Next1(t) \in ThreadPlaces
  BY Moves
<1>3. thread[t].pc = "line" /\ thread'[t].pc = Next1(t)
  BY <1>1, <1>2, Moved
<1>4. CASE thread[t].frame
  BY <1>1, <1>2, <1>3, <1>4, Moved DEF Next1
<1>5. CASE ~thread[t].frame
  BY <1>1, <1>2, <1>3, <1>5, Moved DEF Next1
<1> QED
  BY <1>4, <1>5

LEMMA LineWritten ==
    ASSUME StatsTypeOK, NEW t \in Thread, WriteLine(t)
    PROVE  /\ thread[t].pc = "line" /\ thread'[t].pc = "end"
           /\ thread'[t].frame <=> thread[t].frame
<1>1. thread \in [Thread -> ThreadState]
  BY DEF StatsTypeOK
<1> QED
  BY <1>1, Moves, Moved

(* The line of a thread, whole or in part.                                    *)
LEMMA LineType ==
    ASSUME StatsTypeOK, NEW t \in Thread
    PROVE  /\ LineOf(t) \in Line /\ LineOf(t).of = t /\ LineOf(t).time = thread[t].time
           /\ LineOf(t).frame <=> thread[t].frame
           /\ LET part == [LineOf(t) EXCEPT !.frame = FALSE]
              IN  part \in Line /\ part.of = t /\ part.time = thread[t].time /\ ~part.frame
<1>1. thread[t] \in ThreadState
  BY DEF StatsTypeOK
<1> QED
  BY <1>1 DEF LineOf, Line, ThreadState

(* Ending a line changes nothing else of it.                                  *)
LEMMA LineEnded ==
    ASSUME NEW s \in Seq(Line), s # <<>>
    PROVE  LET e == [s EXCEPT ![Len(s)].ended = TRUE]
           IN  /\ e \in Seq(Line) /\ Len(e) = Len(s) /\ e[Len(s)].ended
               /\ \A i \in 1..Len(s) : /\ e[i].of = s[i].of /\ e[i].time = s[i].time
                                       /\ e[i].frame <=> s[i].frame
                                       /\ i # Len(s) => e[i] = s[i]
<1> DEFINE n == Len(s)
           l == [s[n] EXCEPT !.ended = TRUE]
           e == [s EXCEPT ![n] = l]
<1>1. n \in Nat /\ n \in 1..n /\ s[n] \in Line
  OBVIOUS
<1>2. /\ l \in Line /\ l.of = s[n].of /\ l.time = s[n].time /\ l.ended
      /\ l.frame <=> s[n].frame
  BY <1>1 DEF Line
<1> HIDE DEF l
<1>3. e \in Seq(Line) /\ Len(e) = n /\ e[n] = l /\ \A i \in 1..n : i # n => e[i] = s[i]
  BY <1>1, <1>2
<1> HIDE DEF e, n
<1>4. /\ e \in Seq(Line) /\ Len(e) = n /\ e[n].ended
      /\ \A i \in 1..n : /\ e[i].of = s[i].of /\ e[i].time = s[i].time
                         /\ e[i].frame <=> s[i].frame
                         /\ i # n => e[i] = s[i]
  BY <1>2, <1>3
<1> QED
  BY <1>4 DEF e, n, l

(* No line is another one, or one of the thread's event is appended.           *)
SameLines == /\ log' \in Seq(Line) /\ Len(log') = Len(log)
             /\ \A i \in 1..Len(log) : /\ log'[i].of = log[i].of
                                       /\ log'[i].time = log[i].time
                                       /\ log'[i].frame <=> log[i].frame

Appends(t) == /\ thread[t].pc = "line" /\ thread'[t].pc \in {"end", "count", "idle"}
              /\ \E l \in Line : /\ l.of = t /\ l.time = thread[t].time
                                 /\ log' = Append(log, l)

LEMMA LogMoves ==
    ASSUME StatsTypeOK, FileHeld, NEW t \in Thread, ThreadStep(t)
    PROVE  SameLines \/ Appends(t)
<1>1. log \in Seq(Line)
  BY DEF StatsTypeOK
<1>2. CASE log' = log
  BY <1>1, <1>2 DEF SameLines
<1>3. CASE EndLine(t)
  <2>1. log # <<>> /\ log' = [log EXCEPT ![Len(log)].ended = TRUE]
    BY <1>3, LineEnds DEF FileHeld, EndLine
  <2> QED
    BY <1>1, <2>1, LineEnded DEF SameLines
<1>4. CASE WriteLine(t)
  <2>1. log' = Append(log, LineOf(t))
    BY <1>4 DEF WriteLine
  <2> QED
    BY <1>4, <2>1, LineType, LineWritten DEF Appends
<1>5. CASE LineFails(t)
  <2>1. \/ log' = log
        \/ log' = Append(log, [LineOf(t) EXCEPT !.frame = FALSE])
    BY <1>5 DEF LineFails
  <2>2. thread[t].pc = "line" /\ thread'[t].pc \in {"end", "count", "idle"}
    BY <1>5, LineLeft
  <2> QED
    BY <1>2, <2>1, <2>2, LineType DEF Appends
<1>6. CASE Leaves(t)
  BY <1>2, <1>6 DEF Leaves, Connect, Stamp, NoLog, LockFile, EndFails, Count, Summarise,
     PrintPanics, LockPanics, logVars
<1> QED
  BY <1>3, <1>4, <1>5, <1>6 DEF ThreadStep

(* No step of a thread moves the clock, or opens or closes the log.            *)
LEMMA ClockStays ==
    ASSUME NEW t \in Thread, ThreadStep(t)
    PROVE  now' = now /\ (logging' <=> logging)
BY DEF ThreadStep, Leaves, Connect, Stamp, NoLog, LockFile, EndFails, Count, Summarise,
   PrintPanics, LockPanics, EndLine, WriteLine, LineFails, logVars

(* One more frame, and one more in its window.                                *)
LEMMA CountedIs ==
    ASSUME inner \in [frames : Nat, window : Nat, start : Nat]
    PROVE  /\ Counted \in [frames : Nat, window : Nat, start : Nat]
           /\ Counted.frames = inner.frames + 1 /\ Counted.window = inner.window + 1
           /\ Counted.start = inner.start
<1>1. inner.frames \in Nat /\ inner.window \in Nat /\ inner.start \in Nat
  OBVIOUS
<1> DEFINE f == inner.frames + 1
           w == inner.window + 1
<1>2. f \in Nat /\ w \in Nat
  BY <1>1
<1>3. Counted = [inner EXCEPT !.frames = f, !.window = w]
  BY DEF Counted
<1> HIDE DEF f, w
<1>4. /\ Counted \in [frames : Nat, window : Nat, start : Nat]
      /\ Counted.frames = f /\ Counted.window = w /\ Counted.start = inner.start
  BY <1>2, <1>3
<1> QED
  BY <1>4 DEF f, w

LEMMA CountersType ==
    ASSUME StatsTypeOK, NEW t \in Thread, ThreadStep(t)
    PROVE  /\ inner' \in [frames : Nat, window : Nat, start : Nat]
           /\ {summed, failed, uncounted, failures}' \subseteq Nat
<1>1. inner \in [frames : Nat, window : Nat, start : Nat] /\ now \in Nat
      /\ {summed, failed, uncounted, failures} \subseteq Nat
  BY DEF StatsTypeOK
<1>2. CASE Count(t) \/ Summarise(t) \/ PrintPanics(t) \/ LockPanics(t)
  <2>1. Counted \in [frames : Nat, window : Nat, start : Nat]
    BY <1>1, CountedIs
  <2>2. UNCHANGED <<failed, failures>>
    BY <1>2 DEF Count, Summarise, PrintPanics, LockPanics, logVars
  <2>3. CASE Count(t) \/ PrintPanics(t)
    BY <1>1, <2>1, <2>2, <2>3 DEF Count, PrintPanics
  <2>4. CASE Summarise(t)
    <3>1. inner' = [Counted EXCEPT !.window = 0, !.start = now]
      BY <2>4 DEF Summarise
    <3>2. inner' \in [frames : Nat, window : Nat, start : Nat]
      BY <1>1, <2>1, <3>1
    <3>3. summed' \in Nat /\ uncounted' = uncounted
      BY <1>1, <2>1, <2>4 DEF Summarise
    <3> QED
      BY <1>1, <2>2, <3>2, <3>3
  <2>5. CASE LockPanics(t)
    BY <1>1, <2>2, <2>5 DEF LockPanics
  <2> QED
    BY <1>2, <2>3, <2>4, <2>5
<1>3. CASE Connect(t) \/ Stamp(t) \/ NoLog(t) \/ LockFile(t) \/ EndFails(t) \/ EndLine(t)
           \/ WriteLine(t) \/ LineFails(t)
  BY <1>1, <1>3 DEF Connect, Stamp, NoLog, LockFile, EndFails, EndLine, WriteLine,
     LineFails, counters, logVars
<1> QED
  BY <1>2, <1>3 DEF ThreadStep, Leaves

LEMMA TypeStep ==
    ASSUME StatsTypeOK, FileHeld, NEW t \in Thread, ThreadStep(t)
    PROVE  StatsTypeOK'
<1>1. log' \in Seq(Line)
  BY LogMoves, AppendFacts DEF StatsTypeOK, SameLines, Appends
<1> QED
  BY <1>1, ThreadsMove, ClockStays, CountersType DEF StatsTypeOK

LEMMA TimesStep ==
    ASSUME StatsTypeOK, TimesPassed, FileHeld, NEW t \in Thread, ThreadStep(t)
    PROVE  TimesPassed'
<1>1. now \in Nat /\ now' = now /\ log \in Seq(Line)
  BY ClockStays DEF StatsTypeOK
<1>2. \A u \in Thread : thread'[u].time <= now
  BY <1>1, ThreadsMove DEF TimesPassed
<1>3. \A i \in 1..Len(log') : log'[i].time <= now
  <2>1. CASE SameLines
    BY <2>1 DEF SameLines, TimesPassed
  <2>2. CASE Appends(t)
    <3>1. PICK l \in Line : l.time = thread[t].time /\ log' = Append(log, l)
      BY <2>2 DEF Appends
    <3> QED
      BY <1>1, <3>1, AppendFacts DEF TimesPassed
  <2> QED
    BY <2>1, <2>2, LogMoves
<1> QED
  BY <1>1, <1>2, <1>3 DEF TimesPassed

LEMMA FileStep ==
    ASSUME StatsTypeOK, FileHeld, NEW t \in Thread, ThreadStep(t)
    PROVE  FileHeld'
<1>1. logging' <=> logging
  BY ClockStays
<1>2. /\ \A u \in Thread \ {t} : thread'[u] = thread[u]
      /\ thread'[t].pc \in {"line", "end"} =>
           \/ thread[t].pc \in {"line", "end"}
           \/ logging /\ FileFree
  BY ThreadsMove
<1>3. /\ \A u, v \in Thread : Writing(u)' /\ Writing(v)' => u = v
      /\ \A u \in Thread : Writing(u)' => logging'
  BY <1>1, <1>2 DEF FileHeld, Writing, FileFree
<1>4. ASSUME NEW u \in Thread, thread'[u].pc = "end" PROVE log' # <<>>
  <2>1. log \in Seq(Line)
    BY DEF StatsTypeOK
  <2>2. CASE SameLines /\ log # <<>>
    BY <2>1, <2>2 DEF SameLines
  <2>3. CASE Appends(t)
    BY <2>1, <2>3, AppendFacts DEF Appends
  <2>4. CASE u # t
    <3>1. log # <<>>
      BY <1>2, <1>4, <2>4 DEF FileHeld
    <3> QED
      BY <2>2, <2>3, <3>1, LogMoves
  <2>5. CASE u = t
    <3>1. thread \in [Thread -> ThreadState]
      BY DEF StatsTypeOK
    <3>2. WriteLine(t)
      <4> SUFFICES ASSUME ~WriteLine(t) PROVE FALSE
        OBVIOUS
      <4>1. ~Stamp(t)
        BY <1>4, <2>5, <3>1, Stamped DEF StatsTypeOK
      <4>2. PICK to \in {"idle", "line", "count", "off"} : \E from : Goto(t, from, to)
        BY <4>1, Moves, Zenon DEF ThreadStep, Leaves
      <4>3. thread'[t].pc = to
        BY <3>1, <4>2, Moved DEF ThreadPlaces
      <4> QED
        BY <1>4, <2>5, <4>2, <4>3
    <3>3. log' = Append(log, LineOf(t)) /\ LineOf(t) \in Line
      BY <3>2, LineType DEF WriteLine
    <3> QED
      BY <2>1, <3>3, AppendFacts
  <2> QED
    BY <2>4, <2>5
<1> QED
  BY <1>3, <1>4 DEF FileHeld

LEMMA LinesStep ==
    ASSUME StatsTypeOK, FileHeld, LinesEnded, NEW t \in Thread, ThreadStep(t)
    PROVE  LinesEnded'
<1>1. /\ log \in Seq(Line) /\ Len(log) \in Nat /\ failures \in Nat
      /\ thread \in [Thread -> ThreadState]
  BY AppendFacts DEF StatsTypeOK
<1>2. (logging' <=> logging) /\ \A u \in Thread \ {t} : thread'[u] = thread[u]
  BY ThreadsMove, ClockStays
<1>3. CASE EndFails(t) \/ LineFails(t)
  <2>1. failures' # 0
    BY <1>1, <1>3 DEF EndFails, LineFails
  <2> QED
    BY <2>1 DEF LinesEnded, LogWhole
<1>4. CASE Leaves(t) /\ ~EndFails(t)
  <2>1. log' = log /\ failures' = failures
    BY <1>4 DEF Leaves, Connect, Stamp, NoLog, LockFile, Count, Summarise, PrintPanics,
       LockPanics, logVars
  <2>2. thread[t].pc # "end"
    BY <1>4 DEF Leaves, Connect, Stamp, Taken, NoLog, LockFile, Count, Summarise,
       PrintPanics, LockPanics, Goto, At
  <2> QED
    BY <1>2, <2>1, <2>2 DEF LinesEnded, LogWhole
<1>5. CASE EndLine(t)
  <2>1. log # <<>> /\ log' = [log EXCEPT ![Len(log)].ended = TRUE] /\ failures' = failures
    BY <1>5, LineEnds DEF FileHeld, EndLine
  <2>2. /\ Len(log') = Len(log) /\ log'[Len(log)].ended
        /\ \A i \in 1..Len(log) : i # Len(log) => log'[i] = log[i]
    BY <1>1, <2>1, LineEnded
  <2>3. ASSUME failures' = 0, NEW i \in 1..Len(log') PROVE log'[i].ended
    <3>1. i # Len(log) => i \in 1..Len(log)-1
      BY <1>1, <2>2
    <3> QED
      BY <2>1, <2>2, <2>3, <3>1 DEF LinesEnded, LogWhole
  <2>4. 1..Len(log')-1 \subseteq 1..Len(log')
    BY <1>1, <2>2
  <2> QED
    BY <2>3, <2>4 DEF LinesEnded, LogWhole
<1>6. CASE WriteLine(t)
  <2>1. /\ thread[t].pc = "line" /\ thread'[t].pc = "end" /\ failures' = failures
        /\ log' = Append(log, LineOf(t)) /\ LineOf(t) \in Line
    BY <1>6, LineWritten, LineType DEF WriteLine
  <2>2. logging /\ \A u \in Thread : thread[u].pc # "end"
    BY <2>1 DEF FileHeld, Writing
  <2>3. failures = 0 => \A i \in 1..Len(log) : log[i].ended
    BY <2>2 DEF LinesEnded
  <2>4. Len(log') - 1 = Len(log) /\ \A i \in 1..Len(log) : log'[i] = log[i]
    BY <1>1, <2>1, AppendFacts
  <2>5. LogWhole'
    BY <2>1, <2>3, <2>4 DEF LogWhole
  <2> QED
    BY <2>1, <2>5 DEF LinesEnded
<1> QED
  BY <1>3, <1>4, <1>5, <1>6 DEF ThreadStep

(* The threads that wait for the file, and the times of the lines, stay; an     *)
(* event that is new is later than every line.                                *)
LEMMA LateKept ==
    ASSUME StatsTypeOK, TimesPassed, LateOnce, SameLines, NEW t \in Thread, ThreadStep(t)
    PROVE  LateOnce'
<1>1. Len(log) \in Nat /\ now \in Nat
  BY AppendFacts DEF StatsTypeOK
<1>2. /\ Len(log') = Len(log)
      /\ \A i \in 1..Len(log) : log'[i].of = log[i].of /\ log'[i].time = log[i].time
  BY DEF SameLines
<1>3. \A j \in 1..Len(log) : j+1..Len(log) \subseteq 1..Len(log)
  BY <1>1
<1>4. OvertakenOnce'
  BY <1>2, <1>3 DEF LateOnce, OvertakenOnce
<1>5. ASSUME NEW u \in Thread, thread'[u].pc \in {"stamped", "line"},
             NEW j \in 1..Len(log), Behind(u, j)'
      PROVE  log'[j].time <= thread'[u].time
  <2>1. \/ thread'[u].time = now
        \/ thread[u].pc \in {"stamped", "line"} /\ thread'[u].time = thread[u].time
    BY <1>5, ThreadsMove
  <2>2. Behind(u, j)
    BY <1>2, <1>3, <1>5 DEF Behind
  <2> QED
    BY <1>2, <2>1, <2>2 DEF LateOnce, TimesPassed
<1> QED
  BY <1>2, <1>4, <1>5 DEF LateOnce

(* A line that is late is the first of its thread to be so.                    *)
LEMMA LateAppended ==
    ASSUME StatsTypeOK, TimesPassed, LateOnce, NEW t \in Thread, ThreadStep(t), Appends(t)
    PROVE  LateOnce'
<1> DEFINE n == Len(log)
<1>1. /\ thread[t].pc = "line" /\ thread'[t].pc \notin {"stamped", "line"}
      /\ \A u \in Thread \ {t} : thread'[u] = thread[u]
  BY ThreadsMove DEF Appends
<1>2. PICK l \in Line : l.of = t /\ l.time = thread[t].time /\ log' = Append(log, l)
  BY DEF Appends
<1>3. log \in Seq(Line)
  BY DEF StatsTypeOK
<1>4. /\ n \in Nat /\ Len(log') = n + 1 /\ log'[n+1] = l
      /\ \A i \in 1..n : log'[i] = log[i]
  BY <1>2, <1>3, AppendFacts
<1>5. l.time \in Nat /\ \A i \in 1..n : log[i].time \in Nat
  <2>1. \A i \in 1..n : log[i] \in Line
    BY <1>3, <1>4
  <2> QED
    BY <1>2, <2>1 DEF Line
<1>6. \A j \in 1..n : Behind(t, j) => log[j].time <= l.time
  BY <1>1, <1>2 DEF LateOnce
<1> HIDE DEF n
<1>7. \A j \in 1..n : \A i \in j+1..n : log[i].time < log[j].time =>
          /\ log[i].of # log[j].of
          /\ \A k \in j+1..n : log[k].time < log[j].time /\ log[i].of = log[k].of => i = k
  BY DEF LateOnce, OvertakenOnce, n
<1>8. \A j \in 1..n : l.time < log[j].time =>
          /\ log[j].of # t
          /\ \A k \in j+1..n : log[k].time < log[j].time => log[k].of # t
  <2>1. \A j \in 1..n : l.time < log[j].time => ~Behind(t, j)
    BY <1>5, <1>6
  <2> QED
    BY <2>1 DEF Behind, n
<1>9. ASSUME NEW j \in 1..n+1, NEW i \in j+1..n+1, log'[i].time < log'[j].time
      PROVE  /\ log'[i].of # log'[j].of
             /\ \A k \in j+1..n+1 : /\ log'[k].time < log'[j].time
                                    /\ log'[i].of = log'[k].of
                                    => i = k
  <2>1. /\ j \in 1..n /\ log'[j] = log[j]
        /\ i \in j+1..n \/ i = n+1
        /\ j+1..n \subseteq 1..n
        /\ \A k \in j+1..n+1 : k \in j+1..n \/ k = n+1
    BY <1>4
  <2>2. \A k \in j+1..n : log'[k] = log[k]
    BY <1>4, <2>1
  <2>3. CASE i = n+1
    <3>1. l.time < log[j].time
      BY <1>4, <1>9, <2>1, <2>3
    <3>2. /\ log[j].of # t
          /\ \A k \in j+1..n : log[k].time < log[j].time => log[k].of # t
      BY <1>8, <2>1, <3>1
    <3> QED
      BY <1>2, <1>4, <2>1, <2>2, <2>3, <3>2
  <2>4. CASE i \in j+1..n
    <3>1. /\ log[i].of # log[j].of
          /\ \A k \in j+1..n : log[k].time < log[j].time /\ log[i].of = log[k].of => i = k
      BY <1>7, <1>9, <2>1, <2>2, <2>4
    <3>2. ASSUME log'[n+1].time < log'[j].time PROVE log[i].of # t
      <4>1. l.time < log[j].time /\ log[i].time < log[j].time
        BY <1>4, <1>9, <2>1, <2>2, <2>4, <3>2
      <4> QED
        BY <1>8, <2>1, <2>4, <4>1
    <3> QED
      BY <1>2, <1>4, <2>1, <2>2, <2>4, <3>1, <3>2
  <2> QED
    BY <2>1, <2>3, <2>4
<1>10. OvertakenOnce'
  BY <1>4, <1>9 DEF OvertakenOnce
<1>11. ASSUME NEW u \in Thread, thread'[u].pc \in {"stamped", "line"},
              NEW j \in 1..n+1, Behind(u, j)'
       PROVE  log'[j].time <= thread'[u].time
  <2>1. u # t /\ thread'[u] = thread[u]
    BY <1>1, <1>11
  <2>2. PICK k \in j..n+1 : /\ log'[k].of = u
                            /\ k = j \/ log'[k].time < log'[j].time
    BY <1>4, <1>11 DEF Behind
  <2>3. k # n+1
    BY <1>2, <1>4, <2>1, <2>2
  <2>4. j \in 1..n /\ k \in j..n /\ k \in 1..n
    BY <1>4, <2>2, <2>3
  <2>5. log'[j] = log[j] /\ log'[k] = log[k]
    BY <1>4, <2>4
  <2>6. Behind(u, j)
    BY <1>4, <2>2, <2>4, <2>5 DEF Behind, n
  <2> QED
    BY <1>11, <2>1, <2>4, <2>5, <2>6 DEF LateOnce, n
<1> QED
  BY <1>4, <1>10, <1>11 DEF LateOnce

-----------------------------------------------------------------------------
(* Counting.                                                                 *)

(* A set that gains or loses an element.                                      *)
LEMMA Sizes ==
    ASSUME NEW S, IsFiniteSet(S), NEW x
    PROVE  /\ Cardinality(S) \in Nat
           /\ IsFiniteSet(S \cup {x}) /\ IsFiniteSet(S \ {x})
           /\ x \notin S => Cardinality(S \cup {x}) = Cardinality(S) + 1
           /\ x \in S => Cardinality(S \ {x}) = Cardinality(S) - 1
BY FS_CardinalityType, FS_AddElement, FS_RemoveElement

(* Only the thread that moves comes to be between the log and the counters, or   *)
(* ceases to be.                                                             *)
LEMMA BetweenMoves ==
    ASSUME StatsTypeOK, IsFiniteSet(Between), NEW t \in Thread, ThreadStep(t)
    PROVE  /\ IsFiniteSet(Between') /\ Cardinality(Between) \in Nat
           /\ (t \in Between <=> t \in Between') =>
                Cardinality(Between') = Cardinality(Between)
           /\ t \notin Between /\ t \in Between' =>
                Cardinality(Between') = Cardinality(Between) + 1
           /\ t \in Between /\ t \notin Between' =>
                Cardinality(Between') = Cardinality(Between) - 1
<1>1. \A u \in Thread \ {t} : thread'[u] = thread[u]
  BY ThreadsMove
<1>2. Between' = Between \/ Between' = Between \cup {t} \/ Between' = Between \ {t}
  BY <1>1 DEF Between
<1>3. /\ (t \in Between <=> t \in Between') => Between' = Between
      /\ t \notin Between /\ t \in Between' => Between' = Between \cup {t}
      /\ t \in Between /\ t \notin Between' => Between' = Between \ {t}
  BY <1>2
<1> QED
  BY <1>2, <1>3, Sizes

(* The frames of a log, of one with the same frames, and of one with a line     *)
(* more.                                                                     *)
LEMMA FramesOf ==
    ASSUME NEW s \in Seq(Line), NEW l \in Line
    PROVE  LET of(x) == {i \in 1..Len(x) : x[i].frame}
           IN  /\ Cardinality(of(s)) \in Nat
               /\ Cardinality(of(Append(s, l))) =
                    IF l.frame THEN Cardinality(of(s)) + 1 ELSE Cardinality(of(s))
<1> DEFINE n == Len(s)
           e == Append(s, l)
           F == {i \in 1..n : s[i].frame}
           G == {i \in 1..Len(e) : e[i].frame}
<1>1. /\ n \in Nat /\ Len(e) = n + 1 /\ e[n+1] = l
      /\ \A i \in 1..n : e[i] = s[i]
  BY AppendFacts
<1>2. IsFiniteSet(F)
  <2>1. F \subseteq 1..n /\ IsFiniteSet(1..n)
    BY <1>1, FS_Interval
  <2> QED
    BY <2>1, FS_Subset
<1> HIDE DEF n, e
<1>3. /\ n+1 \notin F
      /\ l.frame => G = F \cup {n+1}
      /\ ~l.frame => G = F
  BY <1>1
<1> HIDE DEF F, G
<1>4. Cardinality(F) \in Nat /\ Cardinality(F \cup {n+1}) = Cardinality(F) + 1
  BY <1>2, <1>3, Sizes
<1>5. Cardinality(G) = IF l.frame THEN Cardinality(F) + 1 ELSE Cardinality(F)
  BY <1>3, <1>4
<1> QED
  BY <1>4, <1>5 DEF F, G, n, e

LEMMA FramedMoves ==
    ASSUME StatsTypeOK
    PROVE  /\ Cardinality(Framed) \in Nat
           /\ SameLines => Framed' = Framed
           /\ \A l \in Line : log' = Append(log, l) =>
                Cardinality(Framed') = IF l.frame THEN Cardinality(Framed) + 1
                                                  ELSE Cardinality(Framed)
<1>1. log \in Seq(Line)
  BY DEF StatsTypeOK
<1>2. [of |-> "killed", time |-> 0, frame |-> FALSE, ended |-> FALSE] \in Line
  BY DEF Line
<1>3. Cardinality(Framed) \in Nat
  BY <1>1, <1>2, FramesOf DEF Framed
<1>4. SameLines => Framed' = Framed
  BY DEF SameLines, Framed
<1>5. ASSUME NEW l \in Line, log' = Append(log, l)
      PROVE  Cardinality(Framed') = IF l.frame THEN Cardinality(Framed) + 1
                                               ELSE Cardinality(Framed)
  BY <1>1, <1>5, FramesOf DEF Framed
<1> QED
  BY <1>3, <1>4, <1>5

(* What each step does to both.                                              *)
LEMMA BalancedLines ==
    ASSUME StatsTypeOK, NEW t \in Thread, WriteLine(t) \/ LineFails(t)
    PROVE  /\ t \notin Between /\ (t \in Between' <=> thread[t].frame)
           /\ thread[t].frame /\ WriteLine(t) =>
                /\ Cardinality(Framed') = Cardinality(Framed) + 1
                /\ failed' = failed
           /\ thread[t].frame /\ ~WriteLine(t) =>
                /\ Cardinality(Framed') = Cardinality(Framed)
                /\ failed' = failed + 1
           /\ ~thread[t].frame =>
                /\ Cardinality(Framed') = Cardinality(Framed)
                /\ failed' = failed
<1>1. thread[t].pc = "line" /\ (thread'[t].frame <=> thread[t].frame)
  BY LineWritten, LineLeft
<1>2. CASE WriteLine(t)
  <2>1. thread'[t].pc = "end" /\ log' = Append(log, LineOf(t)) /\ failed' = failed
    BY <1>2, LineWritten DEF WriteLine
  <2>2. Cardinality(Framed') = IF thread[t].frame THEN Cardinality(Framed) + 1
                                                  ELSE Cardinality(Framed)
    BY <2>1, LineType, FramedMoves
  <2> QED
    BY <1>1, <1>2, <2>1, <2>2 DEF Between
<1>3. CASE LineFails(t) /\ ~WriteLine(t)
  <2>1. /\ thread'[t].pc = IF thread[t].frame THEN "count" ELSE "idle"
        /\ failed' = IF thread[t].frame THEN failed + 1 ELSE failed
    BY <1>3, LineLeft DEF LineFails
  <2>2. log' = log \/ log' = Append(log, [LineOf(t) EXCEPT !.frame = FALSE])
    BY <1>3 DEF LineFails
  <2>3. Cardinality(Framed') = Cardinality(Framed)
    <3>1. CASE log' = log
      BY <3>1 DEF Framed
    <3>2. CASE log' = Append(log, [LineOf(t) EXCEPT !.frame = FALSE])
      BY <3>2, LineType, FramedMoves
    <3> QED
      BY <2>2, <3>1, <3>2
  <2> QED
    BY <1>1, <1>3, <2>1, <2>3 DEF Between
<1> QED
  BY <1>2, <1>3

LEMMA BalancedEnds ==
    ASSUME StatsTypeOK, FileHeld, NEW t \in Thread, EndLine(t) \/ EndFails(t)
    PROVE  /\ t \in Between <=> t \in Between'
           /\ Cardinality(Framed') = Cardinality(Framed)
<1>1. /\ thread[t].pc = "end" /\ (thread'[t].frame <=> thread[t].frame)
      /\ thread'[t].pc = IF thread[t].frame THEN "count" ELSE "idle"
  BY LineEnds
<1>2. SameLines
  <2>1. CASE EndLine(t)
    BY <1>1, <2>1, LineEnded DEF FileHeld, StatsTypeOK, EndLine, SameLines
  <2>2. CASE EndFails(t)
    BY <2>2 DEF StatsTypeOK, EndFails, SameLines
  <2> QED
    BY <2>1, <2>2
<1> QED
  BY <1>1, <1>2, FramedMoves DEF Between

LEMMA BalancedCounts ==
    ASSUME StatsTypeOK, NEW t \in Thread,
           Count(t) \/ Summarise(t) \/ PrintPanics(t) \/ LockPanics(t),
           thread[t].frame, summed + inner.window = inner.frames
    PROVE  /\ t \in Between /\ t \notin Between'
           /\ Framed' = Framed /\ failed' = failed
           /\ summed' + inner'.window = inner'.frames
           /\ inner'.frames + uncounted' = inner.frames + uncounted + 1
<1>1. thread \in [Thread -> ThreadState]
  BY DEF StatsTypeOK
<1>2. thread[t].pc = "count" /\ thread'[t].pc \in {"idle", "off"}
  BY <1>1, Moves, Moved
<1>3. log' = log /\ failed' = failed
  BY DEF Count, Summarise, PrintPanics, LockPanics, logVars
<1>4. /\ inner \in [frames : Nat, window : Nat, start : Nat]
      /\ inner.frames \in Nat /\ inner.window \in Nat
      /\ summed \in Nat /\ uncounted \in Nat
  BY DEF StatsTypeOK
<1>5. /\ Counted \in [frames : Nat, window : Nat, start : Nat]
      /\ Counted.frames = inner.frames + 1 /\ Counted.window = inner.window + 1
  BY <1>4, CountedIs
<1>6. CASE Count(t) \/ PrintPanics(t)
  <2>1. inner' = Counted /\ summed' = summed /\ uncounted' = uncounted
    BY <1>6 DEF Count, PrintPanics
  <2> QED
    BY <1>2, <1>3, <1>4, <1>5, <2>1 DEF Between, Framed
<1>7. CASE Summarise(t)
  <2>1. /\ inner' = [Counted EXCEPT !.window = 0, !.start = now]
        /\ summed' = summed + Counted.window /\ uncounted' = uncounted
    BY <1>7 DEF Summarise
  <2>2. inner'.window = 0 /\ inner'.frames = Counted.frames
    BY <1>5, <2>1
  <2> QED
    BY <1>2, <1>3, <1>4, <1>5, <2>1, <2>2 DEF Between, Framed
<1>8. CASE LockPanics(t)
  <2>1. inner' = inner /\ summed' = summed /\ uncounted' = uncounted + 1
    BY <1>8 DEF LockPanics
  <2> QED
    BY <1>2, <1>3, <1>4, <2>1 DEF Between, Framed
<1> QED
  BY <1>6, <1>7, <1>8

LEMMA BalancedMoves ==
    ASSUME StatsTypeOK, NEW t \in Thread, Connect(t) \/ Stamp(t) \/ NoLog(t) \/ LockFile(t)
    PROVE  /\ logging => (t \in Between <=> t \in Between')
           /\ Framed' = Framed /\ UNCHANGED <<failed, inner, summed, uncounted>>
<1>1. thread \in [Thread -> ThreadState] /\ now \in Nat
  BY DEF StatsTypeOK
<1>2. Framed' = Framed /\ UNCHANGED <<failed, inner, summed, uncounted>>
  BY DEF Connect, Stamp, NoLog, LockFile, logVars, counters, Framed
<1>3. CASE Stamp(t)
  BY <1>1, <1>2, <1>3, Stamped DEF Between
<1>4. CASE Connect(t) \/ LockFile(t)
  <2>1. thread[t].pc \in {"off", "stamped"} /\ thread'[t].pc \in {"idle", "line"}
    BY <1>1, <1>4, Moves, Moved
  <2> QED
    BY <1>2, <2>1 DEF Between
<1>5. CASE NoLog(t)
  BY <1>2, <1>5, Moves
<1> QED
  BY <1>3, <1>4, <1>5

(* Who has a frame to count has one.                                          *)
LEMMA CountsFrames ==
    ASSUME StatsTypeOK, Balanced, NEW t \in Thread, ThreadStep(t)
    PROVE  \A u \in Thread : thread'[u].pc = "count" => thread'[u].frame
<1>1. \A u \in Thread \ {t} : thread'[u] = thread[u]
  BY ThreadsMove
<1>2. thread \in [Thread -> ThreadState] /\ now \in Nat
  BY DEF StatsTypeOK
<1>3. ASSUME thread'[t].pc = "count" PROVE thread'[t].frame
  <2>1. ~Stamp(t)
    BY <1>2, <1>3, Stamped
  <2>2. PICK to \in {"idle", "line", "end", "off", Next1(t)} : \E from : Goto(t, from, to)
    BY <2>1, Moves, Zenon DEF ThreadStep, Leaves
  <2>3. /\ to \in ThreadPlaces /\ thread'[t].pc = to
        /\ to = "count" => (thread'[t].frame <=> thread[t].frame)
    BY <1>2, <2>2, Moves, Moved
  <2>4. to = "count" /\ thread[t].frame
    BY <1>3, <2>2, <2>3 DEF Next1
  <2> QED
    BY <2>3, <2>4
<1> QED
  BY <1>1, <1>3 DEF Balanced

LEMMA BalancedStep ==
    ASSUME StatsTypeOK, FileHeld, Balanced, NEW t \in Thread, ThreadStep(t)
    PROVE  Balanced'
<1> DEFINE b == Cardinality(Between)
           c == Cardinality(Between')
           f == Cardinality(Framed)
           g == Cardinality(Framed')
<1>1. /\ \A u \in Thread : thread'[u].pc = "count" => thread'[u].frame
      /\ logging' <=> logging
  BY CountsFrames, ClockStays
<1>2. /\ IsFiniteSet(Between') /\ b \in Nat
      /\ (t \in Between <=> t \in Between') => c = b
      /\ t \notin Between /\ t \in Between' => c = b + 1
      /\ t \in Between /\ t \notin Between' => c = b - 1
  BY BetweenMoves DEF Balanced
<1>3. /\ f \in Nat /\ inner.frames \in Nat /\ inner.window \in Nat
      /\ summed \in Nat /\ uncounted \in Nat /\ failed \in Nat
  BY FramedMoves DEF StatsTypeOK
<1>4. /\ summed + inner.window = inner.frames
      /\ logging => inner.frames + uncounted + b = f + failed
  BY DEF Balanced
<1> HIDE DEF b, c, f, g
<1>5. SUFFICES /\ summed' + inner'.window = inner'.frames
               /\ logging => inner'.frames + uncounted' + c = g + failed'
  BY <1>1, <1>2 DEF Balanced, c, g
<1>6. CASE WriteLine(t) \/ LineFails(t)
  <2>1. UNCHANGED <<inner, summed, uncounted>>
    BY <1>6 DEF WriteLine, LineFails, counters
  <2>2. /\ t \notin Between /\ (t \in Between' <=> thread[t].frame)
        /\ thread[t].frame => \/ g = f + 1 /\ failed' = failed
                              \/ g = f /\ failed' = failed + 1
        /\ ~thread[t].frame => g = f /\ failed' = failed
    BY <1>6, BalancedLines DEF f, g
  <2> QED
    BY <1>2, <1>3, <1>4, <2>1, <2>2
<1>7. CASE EndLine(t) \/ EndFails(t)
  <2>1. UNCHANGED <<failed, inner, summed, uncounted>>
    BY <1>7 DEF EndLine, EndFails, counters
  <2>2. (t \in Between <=> t \in Between') /\ g = f
    BY <1>7, BalancedEnds DEF f, g
  <2> QED
    BY <1>2, <1>3, <1>4, <2>1, <2>2
<1>8. CASE Count(t) \/ Summarise(t) \/ PrintPanics(t) \/ LockPanics(t)
  <2>1. thread[t].pc = "count"
    BY <1>8, Moves DEF Goto, At
  <2>2. thread[t].frame
    BY <2>1 DEF Balanced
  <2>3. /\ t \in Between /\ t \notin Between' /\ Framed' = Framed /\ failed' = failed
        /\ summed' + inner'.window = inner'.frames
        /\ inner'.frames + uncounted' = inner.frames + uncounted + 1
    BY <1>4, <1>8, <2>2, BalancedCounts
  <2>4. g = f /\ c = b - 1
    BY <1>2, <2>3 DEF f, g
  <2>5. inner'.frames \in Nat /\ uncounted' \in Nat
    BY CountersType
  <2> QED
    BY <1>2, <1>3, <1>4, <2>3, <2>4, <2>5
<1>9. CASE Connect(t) \/ Stamp(t) \/ NoLog(t) \/ LockFile(t)
  <2>1. /\ logging => (t \in Between <=> t \in Between')
        /\ Framed' = Framed /\ UNCHANGED <<failed, inner, summed, uncounted>>
    BY <1>9, BalancedMoves
  <2>2. g = f
    BY <2>1 DEF f, g
  <2> QED
    BY <1>2, <1>3, <1>4, <2>1, <2>2
<1> QED
  BY <1>6, <1>7, <1>8, <1>9 DEF ThreadStep, Leaves

-----------------------------------------------------------------------------
(* All of it.                                                                *)

(* What a thread, the clock or the reader of stderr does.                     *)
Sound == StatsTypeOK /\ TimesPassed /\ FileHeld /\ LinesEnded /\ LateOnce /\ Balanced

LEMMA SoundKept ==
    ASSUME Sound, UNCHANGED <<thread, logVars, inner, summed, uncounted>>,
           now' \in Nat, now <= now'
    PROVE  Sound'
<1> USE DEF Sound, logVars
<1>1. StatsTypeOK'
  BY DEF StatsTypeOK
<1>2. TimesPassed'
  <2>1. /\ now \in Nat /\ thread \in [Thread -> ThreadState] /\ log \in Seq(Line)
        /\ \A t \in Thread : thread[t].time \in Nat
    BY DEF StatsTypeOK, ThreadState
  <2>2. \A i \in 1..Len(log) : log[i] \in Line
    BY <2>1
  <2>3. \A i \in 1..Len(log) : log[i].time \in Nat
    BY <2>2 DEF Line
  <2> QED
    BY <2>1, <2>3 DEF TimesPassed
<1>3. FileHeld' /\ LinesEnded'
  BY DEF FileHeld, Writing, LinesEnded, LogWhole
<1>4. LateOnce'
  BY DEF LateOnce, OvertakenOnce, Behind
<1>5. Balanced'
  BY DEF Balanced, Between, Framed
<1> QED
  BY <1>1, <1>2, <1>3, <1>4, <1>5

LEMMA StatsStep == Sound /\ StatsNext => Sound'
<1> SUFFICES ASSUME Sound, StatsNext PROVE Sound'
  OBVIOUS
<1>1. CASE Tick \/ StderrCloses
  <2>1. UNCHANGED <<thread, logVars, inner, summed, uncounted>> /\ now' \in {now, now + 1}
    BY <1>1 DEF Tick, StderrCloses, counters
  <2>2. now \in Nat
    BY DEF Sound, StatsTypeOK
  <2>3. now' \in Nat /\ now <= now'
    BY <2>1, <2>2
  <2> QED
    BY <2>1, <2>3, SoundKept
<1>2. ASSUME NEW t \in Thread, ThreadStep(t) PROVE Sound'
  <2>1. StatsTypeOK /\ TimesPassed /\ FileHeld /\ LinesEnded /\ LateOnce /\ Balanced
    BY DEF Sound
  <2>2. StatsTypeOK' /\ TimesPassed' /\ FileHeld' /\ LinesEnded'
    BY <1>2, <2>1, TypeStep, TimesStep, FileStep, LinesStep
  <2>3. LateOnce' /\ Balanced'
    BY <1>2, <2>1, LogMoves, LateKept, LateAppended, BalancedStep
  <2> QED
    BY <2>2, <2>3 DEF Sound
<1> QED
  BY <1>1, <1>2 DEF StatsNext, ThreadStep, Leaves

(* No thread runs: whatever the log has, no line is being written.             *)
LEMMA NoThreads ==
    ASSUME \A t \in Thread : thread[t] = Without("off")
    PROVE  \A t \in Thread : /\ thread[t].pc = "off" /\ thread[t].time = 0
                             /\ ~thread[t].frame
BY DEF Without

LEMMA CreateStep == StatsInv /\ NewStats => StatsInv'
<1> SUFFICES ASSUME StatsInv, NewStats PROVE StatsInv'
  OBVIOUS
<1>1. /\ pc = "create" /\ pc' = "serve"
      /\ UNCHANGED <<now, thread, inner, summed, uncounted, failed, failures>>
      /\ \/ UNCHANGED <<logging, log>>
         \/ log' = <<>>
  BY DEF NewStats, CreateLog, Step, counters
<1>2. /\ ~logging
      /\ \A t \in Thread : thread[t].pc = "off" /\ thread[t].time = 0 /\ ~thread[t].frame
      /\ inner = [frames |-> 0, window |-> 0, start |-> 0]
      /\ summed = 0 /\ failed = 0 /\ uncounted = 0 /\ failures = 0
  BY <1>1, NoThreads DEF StatsInv, Quiet
<1>3. Sound'
  <2>1. CASE UNCHANGED <<logging, log>>
    <3>1. now \in Nat
      BY DEF StatsInv, StatsTypeOK
    <3> QED
      BY <1>1, <2>1, <3>1, SoundKept DEF StatsInv, Sound, logVars
  <2>2. CASE log' = <<>>
    <3>1. StatsTypeOK' /\ TimesPassed' /\ FileHeld'
      BY <1>1, <1>2, <2>2 DEF StatsInv, StatsTypeOK, TimesPassed, FileHeld, Writing
    <3>2. LinesEnded' /\ LateOnce'
      BY <1>1, <1>2, <2>2 DEF LinesEnded, LogWhole, LateOnce, OvertakenOnce
    <3>3. Between' = {} /\ Framed' = {}
      BY <1>1, <1>2, <2>2 DEF Between, Framed
    <3>4. Balanced'
      BY <1>1, <1>2, <3>3, FS_EmptySet DEF Balanced
    <3> QED
      BY <3>1, <3>2, <3>4 DEF Sound
  <2> QED
    BY <1>1, <2>1, <2>2
<1> QED
  BY <1>1, <1>3 DEF StatsInv, Sound, Quiet

LEMMA GoneStep ==
    ASSUME StatsInv, StatsGone, pc' = "exited", UNCHANGED logged
    PROVE  StatsInv'
<1>1. /\ thread' = [t \in Thread |-> Without("off")] /\ ~logging'
      /\ UNCHANGED <<now, log, failed, failures, inner, summed, uncounted>>
  BY DEF StatsGone, logged, counters
<1>2. \A t \in Thread : /\ thread'[t] = Without("off")
                        /\ thread'[t].pc = "off" /\ thread'[t].time = 0
                        /\ ~thread'[t].frame
  BY <1>1 DEF Without
<1>3. StatsTypeOK'
  <2>1. Without("off") \in ThreadState
    BY DEF Without, ThreadState, ThreadPlaces
  <2> QED
    BY <1>1, <2>1 DEF StatsInv, StatsTypeOK
<1>4. TimesPassed' /\ FileHeld'
  BY <1>1, <1>2 DEF StatsInv, StatsTypeOK, TimesPassed, FileHeld, Writing
<1>5. LinesEnded' /\ LateOnce'
  <2>1. (LogWhole' <=> LogWhole) /\ (OvertakenOnce' <=> OvertakenOnce)
    BY <1>1 DEF LogWhole, OvertakenOnce
  <2> QED
    BY <1>1, <1>2, <2>1 DEF StatsInv, LinesEnded, LateOnce
<1>6. Balanced'
  <2>1. Between' = {}
    BY <1>2 DEF Between
  <2> QED
    BY <1>1, <1>2, <2>1, FS_EmptySet DEF StatsInv, Balanced
<1> QED
  BY <1>1, <1>2, <1>3, <1>4, <1>5, <1>6 DEF StatsInv, Quiet

LEMMA StatsKept ==
    ASSUME StatsInv, UNCHANGED statsVars,
           pc' = pc \/ /\ pc \notin {"serve", "exited"}
                       /\ pc' # "serve"
    PROVE  StatsInv'
<1>1. /\ UNCHANGED <<now, thread, logVars, inner, summed, uncounted>>
      /\ UNCHANGED <<logging, failed, failures>>
  BY DEF statsVars, counters, logVars
<1>2. now \in Nat
  BY DEF StatsInv, StatsTypeOK
<1>3. Sound'
  BY <1>1, <1>2, SoundKept DEF StatsInv, Sound
<1>4. Quiet'
  BY <1>1 DEF StatsInv, Quiet
<1> QED
  BY <1>3, <1>4 DEF StatsInv, Sound

LEMMA StatsInvStep == MachineInv /\ StatsInv /\ [Next]_vars => StatsInv'
<1> SUFFICES ASSUME MachineInv, StatsInv, [Next]_vars PROVE StatsInv'
  OBVIOUS
<1>1. CASE Serve
  <2>1. pc = "serve" /\ pc' = "serve" /\ StatsNext
    BY <1>1 DEF Serve
  <2>2. Sound'
    BY <2>1, StatsStep DEF StatsInv, Sound
  <2> QED
    BY <2>1, <2>2 DEF StatsInv, Sound, Quiet
<1>2. CASE Create
  BY <1>2, CreateStep DEF Create
<1>3. CASE AcceptFails \/ Killed
  BY <1>3, GoneStep DEF AcceptFails, Killed
<1>4. CASE ChildDies \/ UNCHANGED vars
  BY <1>4, StatsKept DEF ChildDies, vars
<1>5. CASE Dispatch
  <2>1. pc = "main" /\ pc' = Begins[a.mode] /\ a.mode \in Modes /\ UNCHANGED statsVars
    BY <1>5 DEF Dispatch, Step, MachineInv, ArgsRead, IsArgs
  <2>2. pc' # "serve"
    BY <2>1 DEF Begins, Modes
  <2> QED
    BY <2>1, <2>2, StatsKept
<1>6. CASE Parse
  <2>1. UNCHANGED statsVars /\ pc = "parse" /\ pc' \in {"parse", "main", "exited"}
    BY <1>6 DEF Parse, ReadFlag, ReadOption, ReadValue, ReadHelp, ReadUnknown, ReadBadValue,
       Refuse, Accept, Reading, Read, Ends, Exit, Step
  <2> QED
    BY <2>1, StatsKept
<1>7. CASE \/ NoProbe \/ Bind \/ BindFails \/ CreateFails \/ SelfTest \/ SelfTestPanics
           \/ SelfTestEnds \/ Probe
  <2>1. /\ UNCHANGED statsVars /\ pc \notin {"serve", "exited"} /\ pc' # "serve"
    BY <1>7 DEF NoProbe, Bind, BindFails, CreateFails, SelfTest, SelfTestPanics,
       SelfTestEnds, Probe, StartSession, SessionFails, Spawn, NoSpawn, Hold, Kill,
       StopSession, ProbeEnds, ProbeStep, Exit, Step
  <2> QED
    BY <2>1, StatsKept
<1> QED
  BY <1>1, <1>2, <1>3, <1>4, <1>5, <1>6, <1>7 DEF Next, Serving

(* The log and the counters, as the threads, a crash and an exit leave them.   *)
THEOREM StatsInvariant == Spec => []StatsInv
<1>1. Init => StatsInv
  <2> SUFFICES ASSUME Init PROVE StatsInv
    OBVIOUS
  <2>1. /\ now = 0 /\ thread = [t \in Thread |-> Without("off")] /\ ~logging
        /\ log = <<>> \/ log = <<TornLine>>
        /\ inner = [frames |-> 0, window |-> 0, start |-> 0]
        /\ summed = 0 /\ failed = 0 /\ uncounted = 0 /\ failures = 0 /\ pc = "parse"
    BY DEF Init, StatsInit
  <2>2. /\ Len(log) \in {0, 1} /\ log \in Seq(Line)
        /\ \A i \in 1..Len(log) : log[i] = TornLine
    <3>1. TornLine \in Line
      BY DEF TornLine, Line
    <3>2. CASE log = <<>>
      BY <3>2
    <3>3. CASE log = <<TornLine>>
      BY <3>1, <3>3
    <3> QED
      BY <2>1, <3>2, <3>3
  <2>3. \A t \in Thread : /\ thread[t] = Without("off")
                          /\ thread[t].pc = "off" /\ thread[t].time = 0
                          /\ ~thread[t].frame
    BY <2>1 DEF Without
  <2>4. StatsTypeOK
    <3>1. Without("off") \in ThreadState
      BY DEF Without, ThreadState, ThreadPlaces
    <3> QED
      BY <2>1, <2>2, <3>1 DEF StatsTypeOK
  <2>5. TimesPassed /\ FileHeld
    BY <2>1, <2>2, <2>3 DEF TimesPassed, TornLine, FileHeld, Writing
  <2>6. LinesEnded /\ LateOnce
    <3>1. 1..Len(log)-1 = {} /\ \A j \in 1..Len(log) : j+1..Len(log) = {}
      BY <2>2
    <3> QED
      BY <2>1, <2>3, <3>1 DEF LinesEnded, LogWhole, LateOnce, OvertakenOnce
  <2>7. Balanced
    <3>1. Between = {}
      BY <2>3 DEF Between
    <3> QED
      BY <2>1, <2>3, <3>1, FS_EmptySet DEF Balanced
  <2> QED
    BY <2>1, <2>3, <2>4, <2>5, <2>6, <2>7 DEF StatsInv, Quiet
<1> QED
  BY <1>1, StatsInvStep, MachineInvariant, PTL DEF Spec

(* Whatever the threads, and wherever the host was killed: the log is one event *)
(* per line but for the last, and no thread overtakes a line twice.            *)
THEOREM LogIsSafe == Spec => []LogSafe
<1>1. StatsInv => LogSafe
  BY DEF StatsInv, LinesEnded, LateOnce, LogSafe
<1> QED
  BY <1>1, StatsInvariant, PTL

(* No frame is counted that is not in the log, and none twice, whatever panics  *)
(* and failures there were: Stats::frame counts after Stats::event wrote.      *)
THEOREM CountsAreLogged == Spec => []CountsAddUp
<1>1. StatsInv => CountsAddUp
  BY DEF StatsInv, Balanced, Between, Framed, CountsAddUp
<1> QED
  BY <1>1, StatsInvariant, PTL
=============================================================================
