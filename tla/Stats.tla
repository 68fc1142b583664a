-------------------------------- MODULE Stats --------------------------------
(***************************************************************************)
(* The statistics all threads of a serving host share (host/src/stats.rs): an  *)
(* event log, written under the mutex of its file, and counters under a mutex  *)
(* of their own, printed to stderr about once a second.                      *)
(*                                                                         *)
(* A thread takes the time of its event before it waits for the file.  A line  *)
(* and its end are two writes; an error of either is ignored.  The mutex of    *)
(* the counters is held while the summary is printed.                        *)
(***************************************************************************)
EXTENDS Integers, Sequences, FiniteSets

CONSTANTS
    Thread,         \* the writer threads of the connections, one at a time each
    Second,         \* ticks of the clock between two summaries
    MaxTime,        \* bound: ticks of the clock
    MaxLines,       \* bound: lines in the log
    MaxFrames,      \* bound: frames counted, or lost to a panic
    MaxFailures     \* bound: writes to the log that fail

ASSUME StatsAssumption == /\ Second \in Nat \ {0}
                          /\ {MaxTime, MaxLines, MaxFrames, MaxFailures} \subseteq Nat

VARIABLES
    now,            \* the clock
    thread,         \* where each is (off, idle, stamped, line, end, count) and
                    \* its event: whether a frame, and when
    logging,        \* there is a log
    log,            \* its lines: of whose event, when, whether a frame, ended
    inner,          \* the counters, and the start of their window
    poisoned,       \* a thread panicked while it held the counters
    stderr,         \* somebody reads it
    summed,         \* history: the frames of all windows printed
    failed,         \* history: frames whose line could not be written
    uncounted,      \* history: frames whose thread panicked
    failures

logVars == <<logging, log, failed, failures>>
counters == <<inner, poisoned, summed, uncounted>>
logged == <<now, log, failed, failures, counters, stderr>>
statsVars == <<now, thread, logVars, counters, stderr>>

Without(pc) == [pc |-> pc, frame |-> FALSE, time |-> 0]

(* What a host that was killed may have left.                                 *)
TornLine == [of |-> "killed", time |-> 0, frame |-> TRUE, ended |-> FALSE]

StatsInit ==
    /\ now = 0 /\ stderr = TRUE
    /\ thread = [t \in Thread |-> Without("off")]
    /\ logging = FALSE /\ log \in {<<>>, <<TornLine>>}
    /\ inner = [frames |-> 0, window |-> 0, start |-> 0]
    /\ poisoned = FALSE /\ summed = 0
    /\ failed = 0 /\ uncounted = 0 /\ failures = 0

At(t, pc) == thread[t].pc = pc

Leave(t, to) == thread' = [thread EXCEPT ![t] = IF to \in {"idle", "off"}
                                                THEN Without(to) ELSE [@ EXCEPT !.pc = to]]

Goto(t, from, to) == At(t, from) /\ Leave(t, to)

(* File::create empties a log that is there.                                 *)
\* Fault: the log is opened for appending.
CreateLogFault == logging' = TRUE /\ UNCHANGED log

CreateLog == logging' = TRUE /\ log' = <<>>

(* The process ends: its threads do, and what is in the log stays there.       *)
StatsGone == thread' = [t \in Thread |-> Without("off")] /\ logging' = FALSE

(* A connection has got as far as its writer thread.                         *)
Connect(t) == /\ Goto(t, "off", "idle")
              /\ UNCHANGED <<now, logVars, counters, stderr>>

(* event: the time is taken first.                                           *)
Taken(t, time) ==
    /\ At(t, "idle") /\ inner.frames + uncounted < MaxFrames
    /\ \E f \in BOOLEAN :
         thread' = [thread EXCEPT ![t] = [pc |-> "stamped", frame |-> f, time |-> time]]

\* Fault: the time since the window began, not since the host started.
StampFault(t) == /\ Taken(t, now - inner.start)
                 /\ UNCHANGED <<now, logVars, counters, stderr>>

Stamp(t) == /\ Taken(t, now)
            /\ UNCHANGED <<now, logVars, counters, stderr>>

Next1(t) == IF thread[t].frame THEN "count" ELSE "idle"

NoLog(t) == /\ ~logging
            /\ Goto(t, "stamped", Next1(t))
            /\ UNCHANGED <<now, logVars, counters, stderr>>

FileFree == \A t \in Thread : thread[t].pc \notin {"line", "end"}

\* Fault: the file is written without its mutex.
LockFileFault(t) == /\ logging
                    /\ Goto(t, "stamped", "line")
                    /\ UNCHANGED <<now, logVars, counters, stderr>>

LockFile(t) == /\ logging /\ FileFree
               /\ Goto(t, "stamped", "line")
               /\ UNCHANGED <<now, logVars, counters, stderr>>

LineOf(t) == [of |-> t, time |-> thread[t].time, frame |-> thread[t].frame,
              ended |-> FALSE]

WriteLine(t) == /\ Goto(t, "line", "end")
                /\ Len(log) < MaxLines
                /\ log' = Append(log, LineOf(t))
                /\ UNCHANGED <<now, logging, failed, failures, counters, stderr>>

EndLine(t) == /\ Goto(t, "end", Next1(t))
              /\ log' = [log EXCEPT ![Len(log)].ended = TRUE]
              /\ UNCHANGED <<now, logging, failed, failures, counters, stderr>>

(* The disk is full: part of the line is there, or nothing, or all but its end; *)
(* the thread goes on.                                                       *)
LineFails(t) ==
    /\ failures < MaxFailures /\ failures' = failures + 1
    /\ Goto(t, "line", Next1(t))
    /\ log' \in {log, Append(log, [LineOf(t) EXCEPT !.frame = FALSE])}
    /\ failed' = IF thread[t].frame THEN failed + 1 ELSE failed
    /\ UNCHANGED <<now, logging, counters, stderr>>

EndFails(t) == /\ failures < MaxFailures /\ failures' = failures + 1
               /\ Goto(t, "end", Next1(t))
               /\ UNCHANGED <<now, logging, log, failed, counters, stderr>>

-----------------------------------------------------------------------------
(* frame: the counters, after the event.                                     *)

Counted == [inner EXCEPT !.frames = @ + 1, !.window = @ + 1]

WindowOver == now - inner.start >= Second

Count(t) == /\ ~poisoned /\ ~WindowOver
            /\ Goto(t, "count", "idle")
            /\ inner' = Counted
            /\ UNCHANGED <<now, logVars, poisoned, summed, uncounted, stderr>>

\* Fault: the frame that ends a window is counted in the next one as well.
SummariseFault(t) == /\ ~poisoned /\ WindowOver /\ stderr
                     /\ Goto(t, "count", "idle")
                     /\ summed' = summed + Counted.window
                     /\ inner' = [Counted EXCEPT !.window = 1, !.start = now]
                     /\ UNCHANGED <<now, logVars, poisoned, uncounted, stderr>>

Summarise(t) == /\ ~poisoned /\ WindowOver /\ stderr
                /\ Goto(t, "count", "idle")
                /\ summed' = summed + Counted.window
                /\ inner' = [Counted EXCEPT !.window = 0, !.start = now]
                /\ UNCHANGED <<now, logVars, poisoned, uncounted, stderr>>

(* Nobody reads stderr: eprintln panics, with the counters locked.            *)
PrintPanics(t) == /\ ~poisoned /\ WindowOver /\ ~stderr
                  /\ Goto(t, "count", "off")
                  /\ inner' = Counted
                  /\ poisoned' = TRUE
                  /\ UNCHANGED <<now, logVars, summed, uncounted, stderr>>

(* From then on every thread that has a frame to count panics.                *)
LockPanics(t) == /\ poisoned
                 /\ Goto(t, "count", "off")
                 /\ uncounted' = uncounted + 1
                 /\ UNCHANGED <<now, logVars, inner, poisoned, summed, stderr>>

Tick == /\ now < MaxTime /\ now' = now + 1
        /\ UNCHANGED <<thread, logVars, counters, stderr>>

StderrCloses == /\ stderr /\ stderr' = FALSE
                /\ UNCHANGED <<now, thread, logVars, counters>>

StatsNext == \/ Tick \/ StderrCloses
             \/ \E t \in Thread :
                  \/ Connect(t) \/ Stamp(t) \/ NoLog(t) \/ LockFile(t) \/ WriteLine(t)
                  \/ EndLine(t) \/ LineFails(t) \/ EndFails(t)
                  \/ Count(t) \/ Summarise(t) \/ PrintPanics(t) \/ LockPanics(t)

-----------------------------------------------------------------------------
(* Properties.                                                               *)

(* The log is one event per line: only its last line may lack its end, however *)
(* the host ended, if no write to it failed.                                 *)
LogWhole == failures = 0 => \A i \in 1..Len(log)-1 : log[i].ended

(* Times in the log go back only by events that were waiting for the file:      *)
(* after a line, each other thread may write at most one of an earlier time,    *)
(* the thread itself none.                                                   *)
OvertakenOnce ==
    \A j \in 1..Len(log) :
      LET late == {i \in j+1..Len(log) : log[i].time < log[j].time}
      IN  /\ \A i \in late : log[i].of # log[j].of
          /\ \A i, k \in late : log[i].of = log[k].of => i = k

(* What who reads the log may rest on: the two together.                      *)
LogSafe == LogWhole /\ OvertakenOnce

(* The windows printed and the one that runs add up to all frames counted, and  *)
(* those to the frames in the log, but for the frames that are between the two  *)
(* or met a failure.                                                         *)
CountsAddUp ==
    /\ summed + inner.window = inner.frames
    /\ logging =>
         LET between == {t \in Thread : /\ thread[t].pc \in {"count", "end"}
                                        /\ thread[t].frame}
         IN  inner.frames + uncounted + Cardinality(between)
               = Cardinality({i \in 1..Len(log) : log[i].frame}) + failed
=============================================================================
