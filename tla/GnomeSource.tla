----------------------------- MODULE GnomeSource ------------------------------
(***************************************************************************)
(* The life of a gnome frame source (host/src/gnome/source.rs, dbus.rs): the  *)
(* producer thread opens it, which creates a virtual monitor over D-Bus and   *)
(* starts a child process that grabs its picture, then takes frames from it   *)
(* until it is told to stop, and shuts it down.  Any call may fail, the       *)
(* grabber may die and the compositor may end the session, at any moment.     *)
(*                                                                         *)
(* A canvas is the number the grabber gave it; what Resync says about their    *)
(* content is left out here.  The compositor, the grabber                    *)
(* (scripts/m6-pw-grab.py) and the other threads of the connection are the    *)
(* environment.                                                             *)
(***************************************************************************)
EXTENDS Integers, Sequences, GnomeBounds

VARIABLES
    pc,             \* where the producer is
    bus,            \* the D-Bus connection is open
    listening,      \* it is subscribed to PipeWireStreamAdded
    heard,          \* that signal has reached it
    stopped,        \* ScreenCastSession.stopped
    pending,        \* the frame grabbed by open was not handed out yet
    frameId,        \* GnomeSource.frame_id
    cast,           \* compositor: how far the session is
    emitted, ended, \* it sent the signal; it ended the session on its own
    grabber,        \* the child process
    pipe, canvases, \* canvases in the pipe; canvases made so far
    stop, rxGone,   \* the connection's stop flag; the queue's receiver is gone
    made            \* history: the last frame next_frame returned

host    == <<bus, listening, heard, stopped, pending, frameId>>
mutter  == <<cast, emitted, ended>>
child   == <<grabber, pipe, canvases>>
threads == <<stop, rxGone>>
vars    == <<pc, host, mutter, child, threads, made>>

Init ==
    /\ pc = "connect"
    /\ bus = FALSE /\ listening = FALSE /\ heard = FALSE /\ stopped = FALSE
    /\ pending = FALSE /\ frameId = 0
    /\ cast = "none" /\ emitted = FALSE /\ ended = FALSE
    /\ grabber = "none" /\ pipe = <<>> /\ canvases = 0
    /\ stop = FALSE /\ rxGone = FALSE
    /\ made = [id |-> 0, blank |-> FALSE]

Goto(from, to) == pc = from /\ pc' = to

-----------------------------------------------------------------------------
(* ScreenCastSession::start.  An error drops the connection to the bus and    *)
(* nothing else: there is no session object yet whose drop could stop it.     *)

Connect == /\ Goto("connect", "create")
           /\ bus' = TRUE
           /\ UNCHANGED <<listening, heard, stopped, pending, frameId, mutter, child,
                          threads, made>>

ConnectFails == /\ Goto("connect", "done")
                /\ UNCHANGED <<host, mutter, child, threads, made>>

(* A call to the compositor that advances the session.                       *)
Advance(from, to, have, get) ==
    /\ Goto(from, to)
    /\ cast = have
    /\ cast' = get
    /\ UNCHANGED <<host, emitted, ended, child, threads, made>>

CreateSession == Advance("create", "record", "none", "created")
RecordVirtual == Advance("record", "subscribe", "created", "recorded")

\* Fault: the session is started before the signal is subscribed to.
SubscribeFault == /\ Goto("subscribe", "start")
                  /\ UNCHANGED <<host, mutter, child, threads, made>>

Subscribe == /\ Goto("subscribe", "start")
             /\ listening' = TRUE
             /\ UNCHANGED <<bus, heard, stopped, pending, frameId, mutter, child,
                            threads, made>>

Start == Advance("start", "await", "recorded", "started")

(* ... of which any may fail, the last by its 8 s timeout.                    *)
StartFails == /\ \E from \in {"create", "record", "subscribe", "start", "await"} :
                   Goto(from, "hangup")
              /\ UNCHANGED <<host, mutter, child, threads, made>>

\* Fault: the session object does not keep the connection to the bus.
AwaitNodeFault == /\ heard
                  /\ Goto("await", "spawn")
                  /\ bus' = FALSE
                  /\ UNCHANGED <<listening, heard, stopped, pending, frameId, mutter,
                                 child, threads, made>>

AwaitNode == /\ heard
             /\ Goto("await", "spawn")
             /\ UNCHANGED <<host, mutter, child, threads, made>>

HangUp == /\ Goto("hangup", "done")
          /\ bus' = FALSE
          /\ UNCHANGED <<listening, heard, stopped, pending, frameId, mutter, child,
                         threads, made>>

-----------------------------------------------------------------------------
(* GnomeSource::open, once there is a session: an error drops the session.    *)

Spawn == /\ Goto("spawn", "first")
         /\ grabber' = "running"
         /\ UNCHANGED <<host, mutter, pipe, canvases, threads, made>>

(* The script is not found or cannot be run.                                 *)
SpawnFails == /\ Goto("spawn", "drop")
              /\ UNCHANGED <<host, mutter, child, threads, made>>

ReadFirst == /\ Goto("first", "check")
             /\ pipe # <<>>
             /\ pipe' = Tail(pipe)
             /\ frameId' = Head(pipe)
             /\ pending' = TRUE
             /\ UNCHANGED <<bus, listening, heard, stopped, mutter, grabber, canvases,
                            threads, made>>

Eof == pipe = <<>> /\ grabber \in {"closing", "exited"}

(* A read fails at the end of the pipe, and at a canvas the host does not take *)
(* (above 64 MiB) or cannot, being behind such a one; any may be one.         *)
ReadFails == Eof \/ pipe # <<>>

\* Fault: a grabber that gave no frame is left alone.
FirstFailsFault == /\ ReadFails
                   /\ Goto("first", "drop")
                   /\ UNCHANGED <<host, mutter, child, threads, made>>

(* No first frame: the grabber, running or not, is killed and waited for.     *)
FirstFails == /\ ReadFails
              /\ Goto("first", "drop")
              /\ grabber' = "reaped"
              /\ UNCHANGED <<host, mutter, pipe, canvases, threads, made>>

-----------------------------------------------------------------------------
(* produce_frames and next_frame.                                            *)

CheckStop == /\ Goto("check", IF stop THEN "kill" ELSE "next")
             /\ UNCHANGED <<host, mutter, child, threads, made>>

\* Fault: the first frame is handed out and kept.
NextPendingFault == /\ pending
                    /\ Goto("next", "offer")
                    /\ made' = [id |-> frameId, blank |-> FALSE]
                    /\ UNCHANGED <<host, mutter, child, threads>>

NextPending == /\ pending
               /\ Goto("next", "offer")
               /\ pending' = FALSE
               /\ made' = [id |-> frameId, blank |-> FALSE]
               /\ UNCHANGED <<bus, listening, heard, stopped, frameId, mutter, child,
                              threads>>

(* A canvas is read.  It becomes a frame, or, unchanged, the next is awaited. *)
NextCanvas == /\ ~pending /\ pc = "next"
              /\ pipe # <<>>
              /\ pipe' = Tail(pipe)
              /\ frameId' = Head(pipe)
              /\ \/ pc' = "offer" /\ made' = [id |-> frameId', blank |-> FALSE]
                 \/ UNCHANGED <<pc, made>>
              /\ UNCHANGED <<bus, listening, heard, stopped, pending, mutter, grabber,
                             canvases, threads>>

(* The read fails while the grabber runs, or is still dying: it is tried again *)
(* after 50 ms, behind what was read.                                        *)
NextRetry == /\ ~pending /\ pc = "next"
             /\ pipe # <<>> /\ grabber \in {"running", "closing"}
             /\ pipe' = Tail(pipe)
             /\ UNCHANGED <<pc, host, mutter, grabber, canvases, threads, made>>

\* Fault: the child is looked at before the pipe is read.
NextBlankFault == /\ ~pending
                  /\ Goto("next", "offer")
                  /\ grabber \in {"exited", "reaped"}
                  /\ grabber' = "reaped"
                  /\ made' = [id |-> frameId + 1, blank |-> TRUE]
                  /\ UNCHANGED <<host, mutter, pipe, canvases, threads>>

(* The read fails and the grabber is dead: a blank frame, now and at each      *)
(* later call.  Nothing whole lies behind a canvas that is too large, for the  *)
(* kernel's pipe is smaller.                                                 *)
NextBlank == /\ ~pending
             /\ Goto("next", "offer")
             /\ grabber \in {"exited", "reaped"}
             /\ pipe' = <<>>
             /\ grabber' = "reaped"
             /\ made' = [id |-> frameId + 1, blank |-> TRUE]
             /\ UNCHANGED <<host, mutter, canvases, threads>>

(* try_send: accepted or lost, unless there is nobody to take it.             *)
OfferFrame == /\ Goto("offer", IF rxGone THEN "kill" ELSE "check")
              /\ UNCHANGED <<host, mutter, child, threads, made>>

-----------------------------------------------------------------------------
(* shutdown: the grabber first, then the session, whose drop tries again      *)
(* what failed and closes the connection to the bus.                         *)

KillGrabber == /\ Goto("kill", "stop")
               /\ grabber' = "reaped"
               /\ UNCHANGED <<host, mutter, pipe, canvases, threads, made>>

(* The session's Stop may fail, and does if the compositor has ended it.      *)
Stopping == \/ /\ ~stopped /\ cast # "none"
               /\ cast' = "none" /\ stopped' = TRUE
            \/ UNCHANGED <<cast, stopped>>

StopSession == /\ Goto("stop", "drop")
               /\ Stopping
               /\ UNCHANGED <<bus, listening, heard, pending, frameId, emitted, ended,
                              child, threads, made>>

\* Fault: dropping the session leaves the connection to the bus open.
DropSessionFault == /\ Goto("drop", "done")
                    /\ Stopping
                    /\ UNCHANGED <<bus, listening, heard, pending, frameId, emitted,
                                   ended, child, threads, made>>

DropSession == /\ Goto("drop", "done")
               /\ Stopping
               /\ bus' = FALSE
               /\ UNCHANGED <<listening, heard, pending, frameId, emitted, ended, child,
                              threads, made>>

Producer == \/ Connect \/ ConnectFails \/ CreateSession \/ RecordVirtual \/ Subscribe
            \/ Start \/ StartFails \/ AwaitNode \/ HangUp
            \/ Spawn \/ SpawnFails \/ ReadFirst \/ FirstFails
            \/ CheckStop \/ NextPending \/ NextCanvas \/ NextRetry \/ NextBlank
            \/ OfferFrame \/ KillGrabber \/ StopSession \/ DropSession

-----------------------------------------------------------------------------
(* The environment.                                                          *)

(* A started session announces its stream, to those who listen.               *)
Announce == /\ cast = "started" /\ ~emitted
            /\ emitted' = TRUE
            /\ heard' = listening
            /\ UNCHANGED <<pc, bus, listening, stopped, pending, frameId, cast, ended,
                           child, threads, made>>

(* The compositor ends the sessions of those who leave the bus ...            *)
Vanish == /\ ~bus /\ cast # "none"
          /\ cast' = "none"
          /\ UNCHANGED <<pc, host, emitted, ended, child, threads, made>>

(* ... and may end one by itself.                                            *)
CastEnds == /\ cast = "started"
            /\ cast' = "none"
            /\ ended' = TRUE
            /\ UNCHANGED <<pc, host, emitted, child, threads, made>>

\* Fault: a full pipe does not hold the grabber up.
GrabberWritesFault == /\ grabber = "running" /\ cast = "started"
                      /\ canvases < MaxCanvases
                      /\ canvases' = canvases + 1
                      /\ pipe' = Append(pipe, canvases')
                      /\ UNCHANGED <<pc, host, mutter, grabber, threads, made>>

GrabberWrites == /\ grabber = "running" /\ cast = "started"
                 /\ canvases < MaxCanvases
                 /\ Len(pipe) < PipeCap
                 /\ canvases' = canvases + 1
                 /\ pipe' = Append(pipe, canvases')
                 /\ UNCHANGED <<pc, host, mutter, grabber, threads, made>>

(* It ends, on an error or with the stream; its pipe is closed a little        *)
(* before the process is gone.                                              *)
GrabberCloses == /\ grabber = "running"
                 /\ grabber' = "closing"
                 /\ UNCHANGED <<pc, host, mutter, pipe, canvases, threads, made>>

GrabberExits == /\ grabber = "closing"
                /\ grabber' = "exited"
                /\ UNCHANGED <<pc, host, mutter, pipe, canvases, threads, made>>

ReaderStops == /\ ~stop
               /\ stop' = TRUE
               /\ UNCHANGED <<pc, host, mutter, child, rxGone, made>>

WriterEnds == /\ ~rxGone
              /\ rxGone' = TRUE
              /\ UNCHANGED <<pc, host, mutter, child, stop, made>>

Environment == \/ Announce \/ Vanish \/ CastEnds
               \/ GrabberWrites \/ GrabberCloses \/ GrabberExits
               \/ ReaderStops \/ WriterEnds

Next == Producer \/ Environment

Spec == Init /\ [][Next]_vars

-----------------------------------------------------------------------------
(* Properties.                                                               *)

Places == {"connect", "create", "record", "subscribe", "start", "await", "hangup",
           "spawn", "first", "check", "next", "offer", "kill", "stop", "drop", "done"}

TypeOK ==
    /\ pc \in Places
    /\ bus \in BOOLEAN /\ listening \in BOOLEAN /\ heard \in BOOLEAN
    /\ stopped \in BOOLEAN /\ pending \in BOOLEAN
    /\ emitted \in BOOLEAN /\ ended \in BOOLEAN
    /\ stop \in BOOLEAN /\ rxGone \in BOOLEAN
    /\ frameId \in Nat
    /\ cast \in {"none", "created", "recorded", "started"}
    /\ grabber \in {"none", "running", "closing", "exited", "reaped"}
    /\ pipe \in Seq(Nat) /\ Len(pipe) <= PipeCap
    /\ canvases \in 0..MaxCanvases
    /\ made \in [id : Nat, blank : BOOLEAN]

(* The signal that names the stream cannot pass before the host listens.      *)
NodeIsHeard == emitted => heard

(* As long as frames are taken the monitor is there, unless the compositor    *)
(* itself took it away: nothing the host holds ends it early.                 *)
Streaming == pc \in {"spawn", "first", "check", "next", "offer", "kill", "stop"}
MonitorHeld == Streaming => bus /\ (cast = "started" \/ ended)

(* Wherever opening fails and whenever the source is shut down: when it is    *)
(* gone no grabber is left, not even as a zombie, and the bus is left, which  *)
(* makes the compositor remove the monitor even if Stop failed twice.  The    *)
(* grabber goes first: none runs on a session that was stopped.               *)
Released ==
    /\ pc = "done" => ~bus
    /\ ~bus \/ stopped => grabber \in {"none", "reaped"}

(* Every canvas becomes a frame at most once, in order, and none comes after  *)
(* a blank frame.                                                           *)
HandsOut == pc = "next" /\ pc' = "offer"
CanvasesInOrder == [][HandsOut /\ ~made'.blank
                         => ~made.blank /\ made'.id > made.id]_vars
=============================================================================
