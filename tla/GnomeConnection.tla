--------------------------- MODULE GnomeConnection ----------------------------
(***************************************************************************)
(* A streaming connection whose source is gnome: the producer of              *)
(* FramePipeline takes its frames from GnomeSource (host/src/server.rs,       *)
(* host/src/gnome/source.rs).  The source's stop flag is the connection's,     *)
(* and what the pipeline does in one step, opening and shutting its source,    *)
(* takes the source many.                                                    *)
(***************************************************************************)
EXTENDS FramePipeline, GnomeBounds

ASSUME ConnectionAssumption == SelfPaced

VARIABLES
    pc, bus, listening, heard, stopped, pending, frameId, cast, emitted, ended,
    grabber, pipe, canvases, made,
    shows           \* history: what each frame shows, by the frame's number

G == INSTANCE GnomeSource WITH rxGone <- wpc = "done"

sourceVars == <<pc, bus, listening, heard, stopped, pending, frameId, cast, emitted,
                ended, grabber, pipe, canvases, made>>
allVars == <<vars, sourceVars, shows>>

CInit == Init /\ G!Init /\ shows = <<>>

-----------------------------------------------------------------------------
(* The producer's thread.  Steps of the source the pipeline does not see ...   *)
Within == /\ UNCHANGED <<vars, shows>>
          /\ \/ G!Connect \/ G!CreateSession \/ G!RecordVirtual \/ G!Subscribe \/ G!Start
             \/ G!StartFails \/ G!AwaitNode \/ G!Spawn \/ G!SpawnFails \/ G!FirstFails
             \/ G!KillGrabber \/ G!StopSession
             \/ pc' = "next" /\ (G!NextCanvas \/ G!NextRetry)

(* ... and those it does: open returns, with a source or without one;          *)
Open      == OpenSource /\ G!ReadFirst /\ UNCHANGED shows
OpenError == /\ OpenFails /\ (G!ConnectFails \/ G!HangUp \/ G!DropSession)
             /\ UNCHANGED shows

(* the stop flag is looked at;                                               *)
Check == CheckStop /\ G!CheckStop /\ UNCHANGED shows

Returns == IF frames < MaxFrames THEN NextFrame ELSE UNCHANGED vars /\ ppc = "grab"
Show    == shows' = IF frames < MaxFrames THEN Append(shows, made') ELSE shows

\* Fault: while the desktop rests next_frame returns the last canvas again.
GrabFault == /\ Returns
             /\ pc = "next" /\ pc' = "offer"
             /\ UNCHANGED <<bus, listening, heard, stopped, pending, frameId, cast,
                            emitted, ended, grabber, pipe, canvases, made>>
             /\ Show

(* next_frame returns;                                                       *)
Grab == /\ Returns
        /\ pc' = "offer"
        /\ G!NextPending \/ G!NextCanvas \/ G!NextBlank
        /\ Show

(* its frame is offered;                                                     *)
Offer == /\ IF ppc = "send" THEN OfferFrame ELSE NextFrame
         /\ G!OfferFrame /\ UNCHANGED shows

(* shutdown returns, and the source is dropped.                               *)
Shut == ShutSource /\ G!DropSession /\ UNCHANGED shows

TakeFrames == Within \/ Open \/ OpenError \/ Check \/ Grab \/ Offer \/ Shut

(* The compositor, the desktop and the grabber.                               *)
Desktop == /\ UNCHANGED <<vars, shows>>
           /\ \/ G!Announce \/ G!Vanish \/ G!CastEnds
              \/ G!GrabberWrites \/ G!GrabberCloses \/ G!GrabberExits

(* The other threads; the source sees the reader's flag and the writer's end.  *)
Others == /\ UNCHANGED <<sourceVars, shows>>
          /\ Reader \/ Writer \/ Client \/ Ended

CNext == TakeFrames \/ Desktop \/ Others

CSpec == CInit /\ [][CNext]_allVars

Alone(A) == UNCHANGED <<vars, shows>> /\ A

(* Threads run; the compositor notices who leaves the bus and paints a new     *)
(* monitor once, a process that is exiting exits.                             *)
FairCSpec == /\ CSpec
             /\ WF_vars(Reader) /\ WF_vars(Writer) /\ WF_allVars(TakeFrames)
             /\ WF_allVars(Alone(G!Vanish)) /\ WF_allVars(Alone(G!GrabberExits))
             /\ WF_allVars(Alone(canvases = 0 /\ (G!GrabberWrites \/ G!GrabberCloses)))

(* And the desktop moves: the grabber comes with another canvas, or ends.      *)
MovingCSpec == FairCSpec /\ WF_allVars(Alone(G!GrabberWrites \/ G!GrabberCloses))

-----------------------------------------------------------------------------
(* Properties.                                                               *)

SourceTypeOK == G!TypeOK

(* The connection's source is a gnome source, to which the reader's flag and    *)
(* the writer's end happen: what holds of that model alone holds here.        *)
SourceSpec == G!Spec

(* The signal that names the stream cannot pass before the host listens.      *)
NodeIsHeard == G!NodeIsHeard

(* As long as frames are taken the monitor is there, unless the compositor    *)
(* itself took it away.                                                      *)
MonitorHeld == G!MonitorHeld

(* A source that is gone leaves no grabber and no session on the bus, and the  *)
(* grabber goes first.                                                       *)
Released == G!Released

(* What the host owes the desktop of its source: all of these together.        *)
SourceSafe == SourceTypeOK /\ NodeIsHeard /\ MonitorHeld /\ Released

(* Every canvas becomes a frame at most once, in order, and none comes after  *)
(* a blank frame.                                                           *)
CanvasesInOrder == G!CanvasesInOrder

(* What the client is sent: through retried reads, pending first frame, lossy   *)
(* queue and a grabber that dies, the canvases on the stream are the desktop's  *)
(* in its order, none is there twice, and none comes after a black frame.      *)
CanvasesOnStream ==
    \A i, j \in 1..Len(stream), m, n \in 1..Len(shows) :
        /\ i < j /\ stream[i] = FrameMsg(m) /\ stream[j] = FrameMsg(n)
        /\ ~shows[n].blank
        => ~shows[m].blank /\ shows[m].id < shows[n].id

(* handle_conn returns only when its source is gone: a client that connects    *)
(* again never finds a grabber or a bus connection of the last connection.    *)
GoneOnReturn == rpc = "done" => pc = "done" /\ ~bus /\ grabber \in {"none", "reaped"}

(* A client that leaves, in the middle of open or whenever, ends all threads    *)
(* and takes the monitor with it, provided the desktop moves or the grabber    *)
(* ends.  A failing open takes the monitor with it in any case.               *)
UnplugEndsAll == gone ~> (rpc = "done" /\ cast = "none")
FailureEndsAll == pc \in {"hangup", "drop"} ~> (pc = "done" /\ cast = "none")

(* docs/01-architecture.md:83 says "USB unplugged -> socket EOF -> host drops   *)
(* the ScreenCast session", whatever the desktop does.                        *)
UnplugDropsMonitor == gone ~> cast = "none"
=============================================================================
