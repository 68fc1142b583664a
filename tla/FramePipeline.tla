--------------------------- MODULE FramePipeline ----------------------------
(***************************************************************************)
(* One streaming connection of the host after its handshake                 *)
(* (host/src/server.rs): the connection thread reads the client's messages,  *)
(* a producer thread takes frames from the source, a writer thread owns the  *)
(* sending side of the socket.  Producer and reader offer messages to the    *)
(* writer through a bounded queue with try_send, so neither ever waits for   *)
(* the client; the writer is the only thread that does.                      *)
(*                                                                         *)
(* A thread is a program counter; a step is what the thread does between two *)
(* points where another thread can be seen.  The client and the kernel's     *)
(* socket buffers are the environment (external).                            *)
(***************************************************************************)
EXTENDS Integers, Sequences

CONSTANTS
    QueueCap,       \* capacity of the queue to the writer (2 in the code)
    SockCap,        \* messages a write may leave unread before it blocks
    MaxFrames,      \* bound: frames the source makes that are not dropped
    MaxInput,       \* bound: messages the client sends
    FullEvery,      \* every how many frames the source repaints all, 0 = never
    SelfPaced,      \* the source waits for the desktop (gnome), not for a clock
    FullFits        \* every full frame fits into one protocol message

ASSUME PipelineAssumption ==
    /\ QueueCap \in Nat \ {0}
    /\ SockCap \in Nat \ {0}
    /\ MaxFrames \in Nat
    /\ MaxInput \in Nat
    /\ FullEvery \in Nat
    /\ SelfPaced \in BOOLEAN
    /\ FullFits \in BOOLEAN

VARIABLES
    rpc, rtx, why,          \* reader: pc, still holds its sender, why it left
    ppc, frames, srcOpen,   \* producer: pc, frames made, source is open
    wpc, wmsg, wexit,       \* writer: pc, message in hand, why it left
    queue,                  \* the sync_channel
    stop,                   \* the stop flag
    stream, hostShut,       \* all the writer wrote; both directions shut down
    taken, input, inputs, gone, \* client: read so far, its unread messages,
                            \* how many it sent, it closed or was unplugged
    accepted, late, noted   \* history: messages and late frames accepted;
                            \* last frame noted in the session table

readerVars   == <<rpc, rtx, why>>
producerVars == <<ppc, frames, srcOpen>>
writerVars   == <<wpc, wmsg, wexit>>
outVars      == <<stream, hostShut>>
clientVars   == <<taken, input, inputs, gone>>
vars == <<readerVars, producerVars, writerVars, queue, stop, outVars,
          clientVars, accepted, late, noted>>

FrameMsg(n) == [kind |-> "frame", id |-> n]
PongMsg(n)  == [kind |-> "pong", id |-> n]
ByeMsg      == [kind |-> "bye", id |-> 0]

Kinds      == {"frame", "pong", "bye"}
Message    == [kind : Kinds, id : Nat]
InputKinds == {"ping", "ack", "disconnect", "unexpected", "garbage"}
Input      == [kind : InputKinds, id : Nat]

(* The source repaints everything in its first frame and then periodically.  *)
IsFull(n) == n = 1 \/ (FullEvery > 0 /\ n % FullEvery = 0)

RxAlive == wpc # "done"

\* Fault: the writer gives up when the reader's sender is dropped.
NoSenderFault == ~rtx

NoSender == ~rtx /\ ppc = "done"

\* Fault: an unbounded channel.
HasRoomFault == RxAlive

HasRoom == RxAlive /\ Len(queue) < QueueCap

(* try_send: the message is queued if there is room, and lost otherwise.     *)
TrySend(m) ==
    IF HasRoom
    THEN queue' = Append(queue, m) /\ accepted' = accepted + 1
    ELSE UNCHANGED <<queue, accepted>>

Init ==
    /\ rpc = "read" /\ rtx = TRUE /\ why = "none"
    /\ ppc = "open" /\ frames = 0 /\ srcOpen = FALSE
    /\ wpc = "recv" /\ wmsg = ByeMsg /\ wexit = "none"
    /\ queue = <<>> /\ stop = FALSE
    /\ stream = <<>> /\ hostShut = FALSE
    /\ taken = 0 /\ input = <<>> /\ inputs = 0 /\ gone = FALSE
    /\ accepted = 0 /\ late = 0 /\ noted = 0

-----------------------------------------------------------------------------
(* Reader: the connection thread.                                            *)

Read(kinds) == /\ rpc = "read"
               /\ input # <<>>
               /\ Head(input).kind \in kinds
               /\ input' = Tail(input)
               /\ UNCHANGED <<producerVars, writerVars, stop, outVars, taken,
                              inputs, gone, late, noted>>

ReadPing == /\ Read({"ping"})
            /\ TrySend(PongMsg(Head(input).id))
            /\ UNCHANGED readerVars

ReadAck == /\ Read({"ack"})
           /\ UNCHANGED <<readerVars, queue, accepted>>

(* A DISCONNECT, or a message no client may send here, is answered by a      *)
(* goodbye if the queue has room for one, and the loop ends.                 *)
ReadLast == /\ Read({"disconnect", "unexpected"})
            /\ TrySend(ByeMsg)
            /\ rpc' = "stop"
            /\ why' = Head(input).kind
            /\ UNCHANGED rtx

(* What does not decode, an unknown type included, is an error of the read.  *)
ReadGarbage == /\ Read({"garbage"})
               /\ rpc' = "stop"
               /\ why' = "garbage"
               /\ UNCHANGED <<rtx, queue, accepted>>

ReadEof == /\ rpc = "read"
           /\ input = <<>>
           /\ gone \/ hostShut
           /\ rpc' = "stop"
           /\ why' = "eof"
           /\ UNCHANGED <<rtx, producerVars, writerVars, queue, stop, outVars,
                          clientVars, accepted, late, noted>>

TearDown(from, to) == /\ rpc = from
                      /\ rpc' = to
                      /\ UNCHANGED <<why, producerVars, writerVars, queue,
                                     outVars, clientVars, accepted, late, noted>>

\* Fault: the stop flag is never set.
StoreStopFault == TearDown("stop", "drop") /\ UNCHANGED <<rtx, stop>>

StoreStop == TearDown("stop", "drop") /\ stop' = TRUE /\ UNCHANGED rtx

DropTx == TearDown("drop", "joinProducer") /\ rtx' = FALSE /\ UNCHANGED stop

\* Fault: the producer is detached instead of joined.
JoinProducerFault == /\ TearDown("joinProducer", "joinWriter")
                     /\ UNCHANGED <<rtx, stop>>

JoinProducer == /\ TearDown("joinProducer", "joinWriter")
                /\ ppc = "done"
                /\ UNCHANGED <<rtx, stop>>

JoinWriter == /\ TearDown("joinWriter", "done")
              /\ wpc = "done"
              /\ UNCHANGED <<rtx, stop>>

Reader == \/ ReadPing \/ ReadAck \/ ReadLast \/ ReadGarbage \/ ReadEof
          \/ StoreStop \/ DropTx \/ JoinProducer \/ JoinWriter

-----------------------------------------------------------------------------
(* Producer.                                                                 *)

ProducerFrame == UNCHANGED <<readerVars, writerVars, stop, outVars, clientVars,
                             noted>>

ProducerStep(from, to) == /\ ppc = from
                          /\ ppc' = to
                          /\ UNCHANGED <<queue, accepted, late>>
                          /\ ProducerFrame

OpenSource == /\ ProducerStep("open", "check")
              /\ srcOpen' = TRUE
              /\ UNCHANGED frames

(* The thread returns when the source cannot be opened; nobody is told.      *)
OpenFails == ProducerStep("open", "done") /\ UNCHANGED <<frames, srcOpen>>

\* Fault: the producer never looks at the stop flag.
CheckStopFault == ProducerStep("check", "grab") /\ UNCHANGED <<frames, srcOpen>>

CheckStop == /\ ProducerStep("check", IF stop THEN "shutdown" ELSE "grab")
             /\ UNCHANGED <<frames, srcOpen>>

(* next_frame.  Past the bound a frame is one the queue has no room for.     *)
NextFrame == \/ /\ ProducerStep("grab", "send")
                /\ frames < MaxFrames
                /\ frames' = frames + 1
                /\ UNCHANGED srcOpen
             \/ /\ ProducerStep("grab", IF RxAlive THEN "check" ELSE "shutdown")
                /\ frames = MaxFrames
                /\ UNCHANGED <<frames, srcOpen>>

OfferFrame == /\ ppc = "send"
              /\ TrySend(FrameMsg(frames))
              /\ ppc' = IF RxAlive THEN "check" ELSE "shutdown"
              /\ late' = IF stop /\ HasRoom THEN late + 1 ELSE late
              /\ UNCHANGED <<frames, srcOpen>>
              /\ ProducerFrame

(* src.shutdown(), then the thread returns and drops its sender.             *)
ShutSource == /\ ProducerStep("shutdown", "done")
              /\ srcOpen' = FALSE
              /\ UNCHANGED frames

Producer == CheckStop \/ OfferFrame \/ ShutSource
Source   == OpenSource \/ OpenFails \/ NextFrame

-----------------------------------------------------------------------------
(* Writer.                                                                   *)

WriterFrame == UNCHANGED <<readerVars, producerVars, stop, clientVars, accepted,
                           late>>

Taking(m) == /\ wpc = "recv"
             /\ queue # <<>>
             /\ wmsg' = m
             /\ wpc' = "write"
             /\ UNCHANGED <<wexit, outVars>>
             /\ WriterFrame

\* Fault: the writer takes the newest message first.
RecvNewestFault == /\ Taking(queue[Len(queue)])
                   /\ queue' = SubSeq(queue, 1, Len(queue) - 1)
                   /\ UNCHANGED noted

\* Fault: the session table is told of a frame before it is written.
RecvNotesFault == /\ Taking(Head(queue))
                  /\ queue' = Tail(queue)
                  /\ noted' = IF wmsg'.kind = "frame" THEN wmsg'.id ELSE noted

Recv == Taking(Head(queue)) /\ queue' = Tail(queue) /\ UNCHANGED noted

(* recv fails once the queue is empty and both senders are dropped.          *)
RecvEnds == /\ wpc = "recv"
            /\ queue = <<>>
            /\ NoSender
            /\ wpc' = "shut"
            /\ wexit' = "senders"
            /\ UNCHANGED <<wmsg, queue, outVars, noted>>
            /\ WriterFrame

(* 8192 by 8192 pixels pass the argument check and are too many for a message; *)
(* the size of a captured stream, which may change, is not checked at all.    *)
Oversized == wmsg.kind = "frame" /\ IsFull(wmsg.id) /\ ~FullFits

(* A write that goes through.  It blocks while the socket's buffers are full. *)
Writing == /\ wpc = "write"
           /\ gone \/ Len(stream) - taken < SockCap
           /\ stream' = Append(stream, wmsg)
           /\ UNCHANGED <<wmsg, queue, hostShut, noted>>
           /\ WriterFrame

\* Fault: the writer does not leave its loop after a goodbye.
WriteFault == /\ Writing
              /\ wpc' = IF wmsg.kind = "frame" THEN "note" ELSE "recv"
              /\ UNCHANGED wexit

Write == /\ Writing
         /\ wpc' = CASE wmsg.kind = "frame" -> "note"
                     [] wmsg.kind = "pong"  -> "recv"
                     [] wmsg.kind = "bye"   -> "shut"
         /\ wexit' = IF wmsg.kind = "bye" THEN "bye" ELSE wexit

Failing == /\ wpc = "write"
           /\ gone
           /\ UNCHANGED <<wmsg, queue, outVars, noted>>
           /\ WriterFrame

\* Fault: an error of the write is ignored.
WriteFailsFault == Failing /\ wpc' = "recv" /\ UNCHANGED wexit

WriteFails == Failing /\ wpc' = "shut" /\ wexit' = "error"

(* to_bytes asserts the payload's size: the thread unwinds past its shutdown. *)
WritePanics == /\ wpc = "write"
               /\ Oversized
               /\ wpc' = "done"
               /\ wexit' = "panic"
               /\ queue' = <<>>
               /\ UNCHANGED <<wmsg, outVars, noted>>
               /\ WriterFrame

NoteFrame == /\ wpc = "note"
             /\ noted' = wmsg.id
             /\ wpc' = "recv"
             /\ UNCHANGED <<wmsg, wexit, queue, outVars>>
             /\ WriterFrame

ShutSocket == /\ wpc = "shut"
              /\ hostShut' = TRUE
              /\ wpc' = "drop"
              /\ UNCHANGED <<wmsg, wexit, queue, stream, noted>>
              /\ WriterFrame

(* The thread returns: the receiver is dropped with all that is queued.      *)
DropRx == /\ wpc = "drop"
          /\ wpc' = "done"
          /\ queue' = <<>>
          /\ UNCHANGED <<wmsg, wexit, outVars, noted>>
          /\ WriterFrame

Writer == \/ Recv \/ RecvEnds \/ Write \/ WriteFails \/ WritePanics
          \/ NoteFrame \/ ShutSocket \/ DropRx

-----------------------------------------------------------------------------
(* The client and the cable.                                                 *)

HostFrame == UNCHANGED <<readerVars, producerVars, writerVars, queue, stop,
                         outVars, accepted, late, noted>>

ClientSend(k) == /\ ~gone
                 /\ inputs < MaxInput
                 /\ inputs' = inputs + 1
                 /\ input' = Append(input, [kind |-> k, id |-> inputs'])
                 /\ UNCHANGED <<taken, gone>>
                 /\ HostFrame

ClientRead == /\ ~gone
              /\ taken < Len(stream)
              /\ taken' = taken + 1
              /\ UNCHANGED <<input, inputs, gone>>
              /\ HostFrame

(* The client closes, or the tunnel goes with the cable; what the client     *)
(* sent before may still arrive or be lost.                                  *)
ClientGone == /\ ~gone
              /\ gone' = TRUE
              /\ input' \in {input, <<>>}
              /\ UNCHANGED <<taken, inputs>>
              /\ HostFrame

Client == (\E k \in InputKinds : ClientSend(k)) \/ ClientRead \/ ClientGone

Ended == rpc = "done" /\ UNCHANGED vars

Next == Reader \/ Producer \/ Source \/ Writer \/ Client \/ Ended

(* The operating system runs every thread that can run.  A clocked source    *)
(* returns from next_frame; one that waits for the desktop need not.  The    *)
(* client is assumed to read for as long as it keeps the connection.         *)
Fairness == /\ WF_vars(Reader)
            /\ WF_vars(Producer)
            /\ WF_vars(Writer)
            /\ WF_vars(ClientRead)
            /\ ~SelfPaced => WF_vars(Source)

Spec     == Init /\ [][Next]_vars
FairSpec == Spec /\ Fairness
-----------------------------------------------------------------------------
(* Properties.                                                               *)

TypeOK ==
    /\ rpc \in {"read", "stop", "drop", "joinProducer", "joinWriter", "done"}
    /\ rtx \in BOOLEAN
    /\ why \in {"none", "eof", "disconnect", "unexpected", "garbage"}
    /\ ppc \in {"open", "check", "grab", "send", "shutdown", "done"}
    /\ frames \in Nat
    /\ srcOpen \in BOOLEAN
    /\ wpc \in {"recv", "write", "note", "shut", "drop", "done"}
    /\ wmsg \in Message
    /\ wexit \in {"none", "senders", "bye", "error", "panic"}
    /\ queue \in Seq(Message) /\ Len(queue) <= QueueCap
    /\ stop \in BOOLEAN
    /\ stream \in Seq(Message)
    /\ hostShut \in BOOLEAN
    /\ taken \in 0..Len(stream)
    /\ input \in Seq(Input)
    /\ inputs \in Nat
    /\ gone \in BOOLEAN
    /\ accepted \in Nat
    /\ late \in Nat
    /\ noted \in Nat

(* The message the writer has taken from the queue and not yet written.      *)
InHand == IF wpc = "write" THEN <<wmsg>> ELSE <<>>

(* Everything accepted, oldest first: written, in the writer's hand, queued. *)
Line == stream \o InHand \o queue

(* Frames reach the transport in the order the source made them and answers   *)
(* to pings in the order of the pings, each at most once, although two       *)
(* threads offer messages and any of them may be lost at the queue.          *)
Before(m, n) == m.kind = n.kind /\ m.kind # "bye" => m.id < n.id
InOrder == \A i, j \in 1..Len(Line) : i < j => Before(Line[i], Line[j])

(* A goodbye is the last message on the stream, whatever the producer still   *)
(* offers behind it before it sees the stop flag.                            *)
NothingAfterBye == \A i \in 1..Len(stream) :
                      stream[i].kind = "bye" => i = Len(stream)

(* A message accepted by the queue is not lost when the client hangs up or    *)
(* the reader ends: the writer drains the queue before it leaves, unless it  *)
(* said goodbye or the transport failed.                                     *)
DrainedBeforeShut == wexit = "senders" => Len(stream) = accepted

(* What the stream owes its reader: the three together.                       *)
StreamSafe == InOrder /\ NothingAfterBye /\ DrainedBeforeShut

(* handle_conn returns only after the source was shut down (for gnome: the    *)
(* virtual monitor removed), the queue is gone and, unless the writer        *)
(* panicked, the socket is shut down.                                        *)
ReturnedMeansReleased ==
    rpc = "done" => /\ ppc = "done" /\ ~srcOpen
                    /\ wpc = "done" /\ queue = <<>>
                    /\ hostShut \/ wexit = "panic"

(* The stop flag is polled once per frame: at most the one frame that was     *)
(* being made when it was set is still accepted.                             *)
AtMostOneLateFrame == late <= 1

(* The session table runs at most one frame behind the stream, only between   *)
(* the write of a frame and its note, and never names a frame not written.   *)
NoteFollowsWrite ==
    /\ noted # 0 => \E i \in 1..Len(stream) : stream[i] = FrameMsg(noted)
    /\ \A i \in 1..Len(stream) :
          stream[i].kind = "frame" /\ stream[i].id > noted
             => i = Len(stream) /\ wpc = "note"

(* The connection implements the ordered lossy channel.  Once the writer has  *)
(* left its loop what is queued is lost, so the channel counts it as gone.   *)
Offered == {FrameMsg(n) : n \in 1..MaxFrames} \cup {PongMsg(n) : n \in 1..MaxInput}
              \cup {ByeMsg}
Channel == INSTANCE FrameChannel WITH
              Messages <- Offered,
              Bound   <- QueueCap + 1,
              sent    <- stream,
              pending <- IF wexit = "none" THEN InHand \o queue ELSE <<>>,
              closed  <- wexit # "none",
              faulty  <- wexit \in {"error", "panic"}
ChannelSpec == Channel!Spec

(* Once the client is gone, the reader has left its loop or the socket is     *)
(* shut down, all three threads end and handle_conn returns: no thread waits *)
(* for another that waits for it.                                            *)
ConnectionEnds == (gone \/ rpc # "read" \/ hostShut) ~> rpc = "done"

(* Claims of the documentation and the tests.                                *)

(* "first frame must be a full frame", on a fresh and on a resumed session.   *)
FirstFrameIsFull == \A i \in 1..Len(stream) :
    /\ stream[i].kind = "frame"
    /\ \A j \in 1..(i - 1) : stream[j].kind # "frame"
    => IsFull(stream[i].id)
=============================================================================
