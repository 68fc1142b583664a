------------------------ MODULE GnomeConnection_proofs -------------------------
(***************************************************************************)
(* Theorems about FramePipeline, for every capacity of the queue and of the    *)
(* socket, every number of frames and of client messages; and about connections *)
(* with a gnome source, to which what is proved of either part is brought over. *)
(*                                                                         *)
(* The theorems about Spec, the first part, use no assumption about the source. *)
(***************************************************************************)
EXTENDS GnomeConnection, TLAPS

-----------------------------------------------------------------------------
(* Sequences.                                                                *)

(* Appending: the length grows by one and the old elements keep their place.  *)
LEMMA AppendFacts ==
    ASSUME NEW S, NEW s \in Seq(S), NEW e \in S
    PROVE  /\ Append(s, e) \in Seq(S)
           /\ Len(Append(s, e)) = Len(s) + 1
           /\ \A i \in 1..Len(s) : Append(s, e)[i] = s[i]
           /\ Append(s, e)[Len(s) + 1] = e
OBVIOUS

(* Taking the head off: every other element moves one place to the front.     *)
LEMMA TailFacts ==
    ASSUME NEW S, NEW s \in Seq(S), s # <<>>
    PROVE  /\ Head(s) \in S
           /\ Head(s) = s[1]
           /\ Len(s) > 0
           /\ Tail(s) \in Seq(S)
           /\ Len(Tail(s)) = Len(s) - 1
           /\ \A i \in 1..Len(Tail(s)) : Tail(s)[i] = s[i + 1]
OBVIOUS

-----------------------------------------------------------------------------
(* Types.                                                                    *)

(* What the pipeline builds are messages.                                    *)
LEMMA MessageTypes ==
    /\ \A n \in Nat : FrameMsg(n) \in Message /\ PongMsg(n) \in Message
    /\ ByeMsg \in Message
BY DEF FrameMsg, PongMsg, ByeMsg, Message, Kinds

(* The answer to a ping that was read is a message with the ping's number.   *)
LEMMA PongTypes ==
    ASSUME TypeOK, NEW K, Read(K)
    PROVE  Head(input).id \in Nat /\ PongMsg(Head(input).id) \in Message
<1>1. Head(input) \in Input
  BY TailFacts DEF Read, TypeOK
<1> QED
  BY <1>1, MessageTypes DEF Input

(* try_send keeps the queue a queue of at most QueueCap messages.             *)
LEMMA TrySendTypes ==
    ASSUME TypeOK, NEW m \in Message, TrySend(m)
    PROVE  /\ queue' \in Seq(Message)
           /\ Len(queue') <= QueueCap
           /\ accepted' \in Nat
<1>1. CASE HasRoom
  <2>1. queue' \in Seq(Message)
    BY <1>1, AppendFacts DEF TypeOK, TrySend
  <2>2. Len(queue') <= QueueCap
    BY <1>1, PipelineAssumption DEF TypeOK, TrySend, HasRoom
  <2>3. accepted' \in Nat
    BY <1>1 DEF TypeOK, TrySend
  <2> QED
    BY <2>1, <2>2, <2>3
<1>2. CASE ~HasRoom
  BY <1>2 DEF TypeOK, TrySend
<1> QED
  BY <1>1, <1>2

(* After a write the writer notes the frame, takes the next message or leaves. *)
LEMMA WriteGoesOn ==
    ASSUME TypeOK, Write
    PROVE  /\ wpc' \in {"recv", "note", "shut"}
           /\ wpc' = "shut" <=> wmsg.kind = "bye"
<1>1. wmsg.kind \in {"frame", "pong", "bye"}
  BY DEF TypeOK, Message, Kinds
<1>2. CASE wmsg.kind = "frame"
  BY <1>2 DEF Write
<1>3. CASE wmsg.kind = "pong"
  BY <1>3 DEF Write
<1>4. CASE wmsg.kind = "bye"
  BY <1>4 DEF Write
<1> QED
  BY <1>1, <1>2, <1>3, <1>4

(* What the client does, and stuttering, leaves everything of the host alone.  *)
LEMMA HostAlone ==
    ASSUME Client \/ UNCHANGED vars
    PROVE  HostFrame
<1>1. ASSUME NEW k \in InputKinds, ClientSend(k) PROVE HostFrame
  BY <1>1 DEF ClientSend
<1>2. CASE ClientRead \/ ClientGone
  BY <1>2 DEF ClientRead, ClientGone
<1>3. CASE UNCHANGED vars
  BY <1>3 DEF HostFrame, vars
<1> QED
  BY <1>1, <1>2, <1>3 DEF Client

(* Every variable keeps its type: the queue never holds more than its        *)
(* capacity and the client has never read more than was written.             *)
THEOREM TypeCorrect == Spec => []TypeOK
<1>1. Init => TypeOK
  <2> SUFFICES ASSUME Init PROVE TypeOK
    OBVIOUS
  <2>1. /\ rtx \in BOOLEAN /\ srcOpen \in BOOLEAN /\ stop \in BOOLEAN
        /\ hostShut \in BOOLEAN /\ gone \in BOOLEAN
    BY DEF Init
  <2>2. wmsg \in Message
    BY MessageTypes DEF Init
  <2>3. Len(queue) <= QueueCap /\ taken \in 0..Len(stream)
    BY PipelineAssumption DEF Init
  <2>4. queue \in Seq(Message) /\ input \in Seq(Input) /\ stream \in Seq(Message)
    BY DEF Init
  <2> QED
    BY <2>1, <2>2, <2>3, <2>4 DEF Init, TypeOK
<1>2. TypeOK /\ [Next]_vars => TypeOK'
  <2> SUFFICES ASSUME TypeOK, [Next]_vars PROVE TypeOK'
    OBVIOUS
  <2> USE PipelineAssumption
  <2>1. CASE ReadPing
    <3>1. Tail(input) \in Seq(Input)
      BY <2>1, TailFacts DEF ReadPing, Read, TypeOK
    <3>2. PongMsg(Head(input).id) \in Message
      BY <2>1, PongTypes DEF ReadPing
    <3> QED
      BY <2>1, <3>1, <3>2, TrySendTypes
         DEF ReadPing, Read, TypeOK, readerVars, producerVars, writerVars, outVars
  <2>2. CASE ReadAck
    BY <2>2, TailFacts
       DEF ReadAck, Read, TypeOK, readerVars, producerVars, writerVars, outVars
  <2>3. CASE ReadLast
    <3>1. Tail(input) \in Seq(Input)
      BY <2>3, TailFacts DEF ReadLast, Read, TypeOK
    <3>2. why' \in {"disconnect", "unexpected"}
      BY <2>3 DEF ReadLast, Read
    <3> QED
      BY <2>3, <3>1, <3>2, MessageTypes, TrySendTypes
         DEF ReadLast, Read, TypeOK, producerVars, writerVars, outVars
  <2>4. CASE ReadGarbage
    BY <2>4, TailFacts
       DEF ReadGarbage, Read, TypeOK, producerVars, writerVars, outVars
  <2>5. CASE ReadEof
    BY <2>5 DEF ReadEof, TypeOK, producerVars, writerVars, outVars, clientVars
  <2>6. CASE StoreStop
    BY <2>6 DEF StoreStop, TearDown, TypeOK, producerVars, writerVars,
       outVars, clientVars
  <2>7. CASE DropTx
    <3>1. rtx' \in BOOLEAN
      BY <2>7 DEF DropTx
    <3>2. /\ rpc' = "joinProducer"
          /\ UNCHANGED <<why, producerVars, writerVars, queue, stop, outVars,
                         clientVars, accepted, late, noted>>
      BY <2>7 DEF DropTx, TearDown
    <3> QED
      BY <3>1, <3>2 DEF TypeOK, producerVars, writerVars, outVars, clientVars
  <2>8. CASE JoinProducer
    BY <2>8 DEF JoinProducer, TearDown, TypeOK, producerVars, writerVars,
       outVars, clientVars
  <2>9. CASE JoinWriter
    BY <2>9 DEF JoinWriter, TearDown, TypeOK, producerVars, writerVars,
       outVars, clientVars
  <2>10. CASE CheckStop
    BY <2>10 DEF CheckStop, ProducerStep, ProducerFrame, TypeOK, readerVars,
       writerVars, outVars, clientVars
  <2>11. CASE ShutSource
    <3>1. srcOpen' \in BOOLEAN
      BY <2>11 DEF ShutSource
    <3>2. /\ ppc' = "done"
          /\ UNCHANGED <<frames, queue, accepted, late>>
          /\ ProducerFrame
      BY <2>11 DEF ShutSource, ProducerStep
    <3> QED
      BY <3>1, <3>2 DEF ProducerFrame, TypeOK, readerVars, writerVars, outVars,
                        clientVars
  <2>12. CASE OpenSource
    BY <2>12 DEF OpenSource, ProducerStep, ProducerFrame, TypeOK, readerVars,
       writerVars, outVars, clientVars
  <2>13. CASE OpenFails
    BY <2>13 DEF OpenFails, ProducerStep, ProducerFrame, TypeOK, readerVars,
       writerVars, outVars, clientVars
  <2>14. CASE NextFrame
    BY <2>14 DEF NextFrame, ProducerStep, ProducerFrame, TypeOK, readerVars,
       writerVars, outVars, clientVars
  <2>15. CASE OfferFrame
    <3>1. FrameMsg(frames) \in Message
      BY MessageTypes DEF TypeOK
    <3>2. /\ queue' \in Seq(Message)
          /\ Len(queue') <= QueueCap
          /\ accepted' \in Nat
      BY <2>15, <3>1, TrySendTypes DEF OfferFrame
    <3> QED
      BY <2>15, <3>2
         DEF OfferFrame, ProducerFrame, TypeOK, readerVars, writerVars, outVars,
             clientVars
  <2>16. CASE Recv
    <3>1. Head(queue) \in Message /\ queue' \in Seq(Message) /\ Len(queue') <= QueueCap
      BY <2>16, TailFacts DEF Recv, Taking, TypeOK
    <3> QED
      BY <2>16, <3>1
         DEF Recv, Taking, WriterFrame, TypeOK, readerVars, producerVars, outVars,
             clientVars
  <2>17. CASE Write
    <3>1. /\ stream' \in Seq(Message)
          /\ taken' \in 0..Len(stream')
      BY <2>17, AppendFacts DEF Write, Writing, WriterFrame, TypeOK, clientVars
    <3>2. wpc' \in {"recv", "note", "shut"}
      BY <2>17, WriteGoesOn
    <3>3. wexit' \in {"none", "senders", "bye", "error", "panic"}
      BY <2>17 DEF Write, TypeOK
    <3>4. Writing
      BY <2>17 DEF Write
    <3> QED
      BY <3>1, <3>2, <3>3, <3>4
         DEF Writing, WriterFrame, TypeOK, readerVars, producerVars, clientVars
  <2>18. CASE WritePanics
    BY <2>18 DEF WritePanics, WriterFrame, TypeOK, readerVars, producerVars,
       outVars, clientVars
  <2>19. CASE DropRx
    BY <2>19 DEF DropRx, WriterFrame, TypeOK, readerVars, producerVars,
       outVars, clientVars
  <2>20. CASE RecvEnds
    BY <2>20 DEF RecvEnds, WriterFrame, TypeOK, readerVars, producerVars,
       outVars, clientVars
  <2>21. CASE WriteFails
    BY <2>21 DEF WriteFails, Failing, WriterFrame, TypeOK, readerVars, producerVars,
       outVars, clientVars
  <2>22. CASE NoteFrame
    BY <2>22 DEF NoteFrame, Message, WriterFrame, TypeOK, readerVars, producerVars,
       outVars, clientVars
  <2>23. CASE ShutSocket
    BY <2>23 DEF ShutSocket, WriterFrame, TypeOK, readerVars, producerVars,
       outVars, clientVars
  <2>24. ASSUME NEW k \in InputKinds, ClientSend(k) PROVE TypeOK'
    <3>1. [kind |-> k, id |-> inputs'] \in Input
      BY <2>24 DEF ClientSend, TypeOK, Input
    <3>2. input' \in Seq(Input)
      BY <2>24, <3>1, AppendFacts DEF ClientSend, TypeOK
    <3> QED
      BY <2>24, <3>2
         DEF ClientSend, HostFrame, TypeOK, readerVars, producerVars, writerVars,
             outVars
  <2>25. CASE ClientRead
    BY <2>25 DEF ClientRead, HostFrame, TypeOK, readerVars, producerVars,
       writerVars, outVars
  <2>26. CASE ClientGone
    <3>1. input' \in Seq(Input)
      <4>1. <<>> \in Seq(Input)
        OBVIOUS
      <4> QED
        BY <2>26, <4>1 DEF ClientGone, TypeOK
    <3>2. gone' \in BOOLEAN
      BY <2>26 DEF ClientGone
    <3>3. UNCHANGED <<taken, inputs>> /\ HostFrame
      BY <2>26 DEF ClientGone
    <3> QED
      BY <3>1, <3>2, <3>3 DEF HostFrame, TypeOK, readerVars, producerVars,
                              writerVars, outVars
  <2>27. CASE UNCHANGED vars
    BY <2>27 DEF vars, TypeOK, readerVars, producerVars, writerVars, outVars,
                 clientVars
  <2> QED
    BY <2>1, <2>2, <2>3, <2>4, <2>5, <2>6, <2>7, <2>8, <2>9, <2>10, <2>11, <2>12,
       <2>13, <2>14, <2>15, <2>16, <2>17, <2>18, <2>19, <2>20, <2>21, <2>22,
       <2>23, <2>24, <2>25, <2>26, <2>27
       DEF Next, Reader, Producer, Source, Writer, Client, Ended
<1> QED
  BY <1>1, <1>2, PTL DEF Spec

-----------------------------------------------------------------------------
(* The end of a connection.                                                  *)

(* Each thread lets go of what it holds before the step by which another can  *)
(* see that it has ended.                                                    *)
Joined     == /\ rpc \in {"joinWriter", "done"} => ppc = "done"
              /\ rpc = "done" => wpc = "done"
SourceHeld == srcOpen => ppc \in {"check", "grab", "send", "shutdown"}
SocketShut == wpc \in {"drop", "done"} => hostShut \/ wexit = "panic"
QueueGone  == wpc = "done" => queue = <<>>

EndInv == Joined /\ SourceHeld /\ SocketShut /\ QueueGone

(* When the connection's thread returns, the source is shut down, the queue   *)
(* is gone and the socket is shut down unless the writer panicked.           *)
THEOREM ReturnReleases == Spec => []ReturnedMeansReleased
<1>1. Init => EndInv
  BY DEF Init, EndInv, Joined, SourceHeld, SocketShut, QueueGone
<1>2. TypeOK /\ EndInv /\ [Next]_vars => EndInv'
  <2> SUFFICES ASSUME TypeOK, EndInv, [Next]_vars PROVE EndInv'
    OBVIOUS
  <2> USE DEF EndInv, Joined, SourceHeld, SocketShut, QueueGone
  <2>1. CASE ReadPing \/ ReadAck \/ ReadLast \/ ReadGarbage \/ ReadEof
    BY <2>1 DEF ReadPing, ReadAck, ReadLast, ReadGarbage, ReadEof, Read, TrySend,
                HasRoom, RxAlive, readerVars, producerVars, writerVars, outVars,
                clientVars
  <2>2. CASE StoreStop \/ DropTx \/ JoinProducer \/ JoinWriter
    BY <2>2 DEF StoreStop, DropTx, JoinProducer, JoinWriter, TearDown,
                producerVars, writerVars, outVars
  <2>3. CASE CheckStop \/ OpenSource \/ OpenFails \/ NextFrame
    BY <2>3 DEF CheckStop, OpenSource, OpenFails, NextFrame, ProducerStep,
                ProducerFrame, readerVars, writerVars, outVars
  <2>4. CASE ShutSource
    BY <2>4 DEF ShutSource, ProducerStep, ProducerFrame, readerVars, writerVars,
                outVars
  <2>5. CASE OfferFrame
    BY <2>5 DEF OfferFrame, TrySend, HasRoom, RxAlive, ProducerFrame, readerVars,
                writerVars, outVars
  <2>6. CASE Recv
    BY <2>6 DEF Recv, Taking, WriterFrame, readerVars, producerVars, outVars
  <2>7. CASE Write
    <3>1. Writing /\ wpc' \in {"recv", "note", "shut"}
      BY <2>7, WriteGoesOn DEF Write
    <3> QED
      BY <3>1 DEF Writing, WriterFrame, readerVars, producerVars
  <2>8. CASE RecvEnds \/ WriteFails \/ NoteFrame
    BY <2>8 DEF RecvEnds, WriteFails, Failing, NoteFrame, WriterFrame, readerVars,
                producerVars, outVars
  <2>9. CASE WritePanics \/ ShutSocket \/ DropRx
    BY <2>9 DEF WritePanics, ShutSocket, DropRx, WriterFrame, readerVars,
                producerVars, outVars
  <2>10. CASE Client \/ UNCHANGED vars
    BY <2>10, HostAlone DEF HostFrame, readerVars, producerVars, writerVars, outVars
  <2> QED
    BY <2>1, <2>2, <2>3, <2>4, <2>5, <2>6, <2>7, <2>8, <2>9, <2>10
       DEF Next, Reader, Producer, Source, Writer, Ended
<1>3. EndInv => ReturnedMeansReleased
  BY DEF EndInv, Joined, SourceHeld, SocketShut, QueueGone, ReturnedMeansReleased
<1> QED
  BY <1>1, <1>2, <1>3, TypeCorrect, PTL DEF Spec

-----------------------------------------------------------------------------
(* Frames that race with the stop flag.                                      *)

LateInv == \/ late = 0
           \/ late = 1 /\ stop /\ ppc \in {"check", "shutdown", "done"}

(* At most one frame is accepted after the stop flag is set: the producer     *)
(* polls it between any two frames.                                          *)
THEOREM OneLateFrame == Spec => []AtMostOneLateFrame
<1>1. Init => LateInv
  BY DEF Init, LateInv
<1>2. LateInv /\ [Next]_vars => LateInv'
  <2> SUFFICES ASSUME LateInv, [Next]_vars PROVE LateInv'
    OBVIOUS
  <2> USE DEF LateInv
  <2>1. CASE ReadPing \/ ReadAck \/ ReadLast \/ ReadGarbage \/ ReadEof
    BY <2>1 DEF ReadPing, ReadAck, ReadLast, ReadGarbage, ReadEof, Read,
                producerVars
  <2>2. CASE StoreStop \/ DropTx \/ JoinProducer \/ JoinWriter
    BY <2>2 DEF StoreStop, DropTx, JoinProducer, JoinWriter, TearDown, producerVars
  <2>3. CASE CheckStop
    BY <2>3 DEF CheckStop, ProducerStep, ProducerFrame
  <2>4. CASE OfferFrame
    BY <2>4 DEF OfferFrame, ProducerFrame
  <2>5. CASE ShutSource \/ OpenSource \/ OpenFails \/ NextFrame
    BY <2>5 DEF ShutSource, OpenSource, OpenFails, NextFrame, ProducerStep,
                ProducerFrame
  <2>6. CASE Writer
    BY <2>6 DEF Writer, Recv, Taking, RecvEnds, Write, Writing, WriteFails, Failing,
                WritePanics, NoteFrame, ShutSocket, DropRx, WriterFrame,
                producerVars
  <2>7. CASE Client \/ UNCHANGED vars
    BY <2>7, HostAlone DEF HostFrame, producerVars
  <2> QED
    BY <2>1, <2>2, <2>3, <2>4, <2>5, <2>6, <2>7
       DEF Next, Reader, Producer, Source, Ended
<1>3. LateInv => AtMostOneLateFrame
  BY DEF LateInv, AtMostOneLateFrame
<1> QED
  BY <1>1, <1>2, <1>3, PTL DEF Spec

-----------------------------------------------------------------------------
(* What becomes of an accepted message.                                      *)

(* The reader owns its sender until it has stored the stop flag.              *)
SenderHeld == rpc \in {"read", "stop", "drop"} => rtx
(* wexit is set in the step in which the writer leaves its loop.              *)
WriterLeft == wexit = "none" <=> wpc \in {"recv", "write", "note"}
Accounted  == /\ wpc = "write" => accepted = Len(stream) + 1 + Len(queue)
              /\ wpc \in {"recv", "note"} => accepted = Len(stream) + Len(queue)
              /\ wexit = "senders" => NoSender /\ accepted = Len(stream)

DrainInv == SenderHeld /\ WriterLeft /\ Accounted

(* A writer that leaves because both senders are gone has written everything  *)
(* that was ever accepted: until then each accepted message is on the stream, *)
(* in the writer's hand or queued, and afterwards nobody is left to offer one.*)
THEOREM Drained == Spec => []DrainedBeforeShut
<1>1. Init => DrainInv
  BY DEF Init, DrainInv, SenderHeld, WriterLeft, Accounted
<1>2. TypeOK /\ DrainInv /\ [Next]_vars => DrainInv'
  <2> SUFFICES ASSUME TypeOK, DrainInv, [Next]_vars PROVE DrainInv'
    OBVIOUS
  <2> USE DEF DrainInv, SenderHeld, WriterLeft, Accounted, NoSender
  <2>1. ASSUME NEW m \in Message, TrySend(m), rtx \/ ppc # "done",
               UNCHANGED <<stream, writerVars>>
        PROVE  Accounted'
    <3>1. wexit' # "senders" /\ wexit' = wexit /\ wpc' = wpc /\ stream' = stream
      BY <2>1 DEF writerVars
    <3>2. CASE HasRoom
      <4>1. Len(queue') = Len(queue) + 1 /\ accepted' = accepted + 1
        BY <2>1, <3>2, AppendFacts DEF TrySend, TypeOK
      <4>2. Len(queue) \in Nat /\ Len(stream) \in Nat /\ accepted \in Nat
        BY DEF TypeOK
      <4> QED
        BY <3>1, <4>1, <4>2
    <3>3. CASE ~HasRoom
      BY <2>1, <3>1, <3>3 DEF TrySend
    <3> QED
      BY <3>2, <3>3
  <2>2. CASE ReadPing
    <3>1. PongMsg(Head(input).id) \in Message
      BY <2>2, PongTypes DEF ReadPing
    <3>2. Accounted'
      BY <2>1, <2>2, <3>1 DEF ReadPing, Read, outVars
    <3> QED
      BY <2>2, <3>2 DEF ReadPing, Read, readerVars, writerVars
  <2>3. CASE ReadLast
    <3>1. Accounted'
      BY <2>1, <2>3, MessageTypes DEF ReadLast, Read, outVars
    <3> QED
      BY <2>3, <3>1 DEF ReadLast, Read, writerVars
  <2>4. CASE OfferFrame
    <3>1. FrameMsg(frames) \in Message
      BY MessageTypes DEF TypeOK
    <3>2. Accounted'
      BY <2>1, <2>4, <3>1 DEF OfferFrame, ProducerFrame, outVars
    <3> QED
      BY <2>4, <3>2 DEF OfferFrame, ProducerFrame, readerVars, writerVars
  <2>5. CASE ReadAck \/ ReadGarbage \/ ReadEof
    BY <2>5 DEF ReadAck, ReadGarbage, ReadEof, Read, readerVars, producerVars,
                writerVars, outVars
  <2>6. CASE StoreStop \/ DropTx \/ JoinProducer \/ JoinWriter
    BY <2>6 DEF StoreStop, DropTx, JoinProducer, JoinWriter, TearDown,
                producerVars, writerVars, outVars
  <2>7. CASE CheckStop \/ ShutSource \/ OpenSource \/ OpenFails \/ NextFrame
    BY <2>7 DEF CheckStop, ShutSource, OpenSource, OpenFails, NextFrame,
                ProducerStep, ProducerFrame, readerVars, writerVars, outVars
  <2>8. CASE Recv
    <3>1. Len(queue') = Len(queue) - 1 /\ Len(queue) \in Nat /\ Len(stream) \in Nat
      BY <2>8, TailFacts DEF Recv, Taking, TypeOK
    <3> QED
      BY <2>8, <3>1 DEF Recv, Taking, WriterFrame, readerVars, producerVars,
                        outVars, TypeOK
  <2>9. CASE RecvEnds
    <3>1. Len(queue) = 0 /\ Len(stream) \in Nat
      BY <2>9 DEF RecvEnds, TypeOK
    <3> QED
      BY <2>9, <3>1 DEF RecvEnds, WriterFrame, readerVars, producerVars, outVars
  <2>10. CASE Write
    <3>1. /\ Writing
          /\ wpc' \in {"recv", "note", "shut"}
          /\ wpc' = "shut" <=> wmsg.kind = "bye"
      BY <2>10, WriteGoesOn DEF Write
    <3>2. Len(stream') = Len(stream) + 1 /\ Len(queue) \in Nat /\ Len(stream) \in Nat
      BY <3>1, AppendFacts DEF Writing, TypeOK
    <3>3. wexit' = IF wmsg.kind = "bye" THEN "bye" ELSE wexit
      BY <2>10 DEF Write
    <3> QED
      BY <3>1, <3>2, <3>3 DEF Writing, WriterFrame, readerVars, producerVars, TypeOK
  <2>11. CASE WriteFails \/ WritePanics
    BY <2>11 DEF WriteFails, Failing, WritePanics, WriterFrame, readerVars,
                 producerVars, outVars
  <2>12. CASE NoteFrame
    BY <2>12 DEF NoteFrame, WriterFrame, readerVars, producerVars, outVars
  <2>13. CASE ShutSocket \/ DropRx
    BY <2>13 DEF ShutSocket, DropRx, WriterFrame, readerVars, producerVars, outVars
  <2>14. CASE Client \/ UNCHANGED vars
    BY <2>14, HostAlone DEF HostFrame, readerVars, producerVars, writerVars, outVars
  <2> QED
    BY <2>2, <2>3, <2>4, <2>5, <2>6, <2>7, <2>8, <2>9, <2>10, <2>11, <2>12, <2>13,
       <2>14 DEF Next, Reader, Producer, Source, Writer, Ended
<1>3. DrainInv => DrainedBeforeShut
  BY DEF DrainInv, Accounted, DrainedBeforeShut
<1> QED
  BY <1>1, <1>2, <1>3, TypeCorrect, PTL DEF Spec

-----------------------------------------------------------------------------
(* The goodbye.                                                              *)

ByeEnds == \A i \in 1..Len(stream) :
             stream[i].kind = "bye" => i = Len(stream) /\ wexit = "bye"
ByeInv  == WriterLeft /\ ByeEnds

(* Nothing follows a goodbye on the stream: the writer that wrote it has left *)
(* its loop, and only the writer writes.                                     *)
THEOREM ByeIsLast == Spec => []NothingAfterBye
<1>1. Init => ByeInv
  BY DEF Init, ByeInv, WriterLeft, ByeEnds
<1>2. TypeOK /\ ByeInv /\ [Next]_vars => ByeInv'
  <2> SUFFICES ASSUME TypeOK, ByeInv, [Next]_vars PROVE ByeInv'
    OBVIOUS
  <2> USE DEF ByeInv, WriterLeft, ByeEnds
  <2>1. CASE ReadPing \/ ReadAck \/ ReadLast \/ ReadGarbage \/ ReadEof
    BY <2>1 DEF ReadPing, ReadAck, ReadLast, ReadGarbage, ReadEof, Read,
                writerVars, outVars
  <2>2. CASE StoreStop \/ DropTx \/ JoinProducer \/ JoinWriter
    BY <2>2 DEF StoreStop, DropTx, JoinProducer, JoinWriter, TearDown,
                writerVars, outVars
  <2>3. CASE Producer \/ Source
    BY <2>3 DEF Producer, Source, CheckStop, OfferFrame, ShutSource, OpenSource,
                OpenFails, NextFrame, ProducerStep, ProducerFrame, writerVars,
                outVars
  <2>4. CASE Recv \/ RecvEnds \/ NoteFrame
    BY <2>4 DEF Recv, Taking, RecvEnds, NoteFrame, outVars
  <2>5. CASE Write
    <3>1. /\ stream' = Append(stream, wmsg)
          /\ wpc = "write"
          /\ wpc' \in {"recv", "note", "shut"}
          /\ wpc' = "shut" <=> wmsg.kind = "bye"
          /\ wexit' = IF wmsg.kind = "bye" THEN "bye" ELSE wexit
      BY <2>5, WriteGoesOn DEF Write, Writing
    <3>2. /\ Len(stream) \in Nat
          /\ Len(stream') = Len(stream) + 1
          /\ \A i \in 1..Len(stream) : stream'[i] = stream[i]
          /\ stream'[Len(stream) + 1] = wmsg
      BY <3>1, AppendFacts DEF TypeOK
    <3>3. \A i \in 1..Len(stream) : stream[i].kind # "bye"
      BY <3>1
    <3> QED
      BY <3>1, <3>2, <3>3
  <2>6. CASE WriteFails \/ WritePanics
    BY <2>6 DEF WriteFails, Failing, WritePanics, outVars
  <2>7. CASE ShutSocket \/ DropRx
    BY <2>7 DEF ShutSocket, DropRx, outVars
  <2>8. CASE Client \/ UNCHANGED vars
    BY <2>8, HostAlone DEF HostFrame, writerVars, outVars
  <2> QED
    BY <2>1, <2>2, <2>3, <2>4, <2>5, <2>6, <2>7, <2>8 DEF Next, Reader, Writer, Ended
<1>3. ByeInv => NothingAfterBye
  BY DEF ByeInv, ByeEnds, NothingAfterBye
<1> QED
  BY <1>1, <1>2, <1>3, TypeCorrect, PTL DEF Spec

-----------------------------------------------------------------------------
(* The order of the stream.                                                  *)

Ordered(s) == \A i, j \in 1..Len(s) : i < j => Before(s[i], s[j])
AllBefore(s, m) == \A i \in 1..Len(s) : Before(s[i], m)

(* An ordered sequence stays ordered when a message that comes after all of  *)
(* its elements is appended.                                                 *)
LEMMA AppendOrdered ==
    ASSUME NEW s \in Seq(Message), NEW m \in Message, Ordered(s), AllBefore(s, m)
    PROVE  Ordered(Append(s, m))
<1> DEFINE t == Append(s, m)
<1>1. /\ Len(s) \in Nat
      /\ Len(t) = Len(s) + 1
      /\ \A i \in 1..Len(s) : t[i] = s[i]
      /\ t[Len(s) + 1] = m
  BY AppendFacts
<1>2. SUFFICES ASSUME NEW i \in 1..Len(t), NEW j \in 1..Len(t), i < j
               PROVE  Before(t[i], t[j])
  BY DEF Ordered
<1> HIDE DEF t
<1>3. CASE j = Len(s) + 1
  BY <1>1, <1>2, <1>3 DEF AllBefore
<1>4. CASE j <= Len(s)
  BY <1>1, <1>2, <1>4 DEF Ordered
<1> QED
  BY <1>1, <1>2, <1>3, <1>4

(* Two ordered sequences, the first before the second, are ordered together. *)
LEMMA ConcatOrdered ==
    ASSUME NEW s \in Seq(Message), NEW t \in Seq(Message), Ordered(s), Ordered(t),
           \A j \in 1..Len(t) : AllBefore(s, t[j])
    PROVE  Ordered(s \o t)
<1> DEFINE u == s \o t
<1>1. /\ Len(s) \in Nat
      /\ Len(t) \in Nat
      /\ Len(u) = Len(s) + Len(t)
      /\ \A i \in 1..Len(s) : u[i] = s[i]
      /\ \A i \in 1..Len(u) : i > Len(s) => u[i] = t[i - Len(s)]
  OBVIOUS
<1>2. SUFFICES ASSUME NEW i \in 1..Len(u), NEW j \in 1..Len(u), i < j
               PROVE  Before(u[i], u[j])
  BY DEF Ordered
<1> HIDE DEF u
<1>3. CASE j <= Len(s)
  BY <1>1, <1>2, <1>3 DEF Ordered
<1>4. CASE i <= Len(s) /\ j > Len(s)
  <2>1. u[i] = s[i] /\ u[j] = t[j - Len(s)] /\ j - Len(s) \in 1..Len(t)
    BY <1>1, <1>2, <1>4
  <2> QED
    BY <1>1, <1>2, <1>4, <2>1 DEF AllBefore
<1>5. CASE i > Len(s)
  <2>1. /\ u[i] = t[i - Len(s)] /\ u[j] = t[j - Len(s)]
        /\ i - Len(s) \in 1..Len(t) /\ j - Len(s) \in 1..Len(t)
        /\ i - Len(s) < j - Len(s)
    BY <1>1, <1>2, <1>5
  <2> QED
    BY <2>1 DEF Ordered
<1> QED
  BY <1>1, <1>2, <1>3, <1>4, <1>5

(* Numbers: a message carries the number of a frame already made and, while   *)
(* the producer holds a frame, not of that one; or of a ping already read.    *)
Numbered(m, counted, holding, sent, unread) ==
    /\ m.kind = "frame" => m.id <= counted /\ (holding => m.id < counted)
    /\ m.kind = "pong" => /\ m.id <= sent
                          /\ \A k \in 1..Len(unread) : m.id < unread[k].id
Known(m) == Numbered(m, frames, ppc = "send", inputs, input)
AllKnown(s) == \A i \in 1..Len(s) : Known(s[i])

InputOrdered == \A k \in 1..Len(input) :
                   /\ input[k].id <= inputs
                   /\ \A l \in 1..Len(input) : k < l => input[k].id < input[l].id

StreamQueue == /\ Ordered(stream)
               /\ Ordered(queue)
               /\ \A j \in 1..Len(queue) : AllBefore(stream, queue[j])
               /\ AllKnown(stream)
               /\ AllKnown(queue)
HandBetween == wpc = "write" => /\ AllBefore(stream, wmsg)
                                /\ \A j \in 1..Len(queue) : Before(wmsg, queue[j])
                                /\ Known(wmsg)

OrderInv == InputOrdered /\ StreamQueue /\ HandBetween

(* A message newer than every known one keeps the order when it is accepted.  *)
LEMMA AcceptKeepsOrder ==
    ASSUME TypeOK, OrderInv, NEW m \in Message, TrySend(m),
           \A n \in Message : Known(n) =>
              /\ Before(n, m)
              /\ Numbered(n, frames', ppc' = "send", inputs', input'),
           Numbered(m, frames', ppc' = "send", inputs', input'),
           UNCHANGED <<stream, wpc, wmsg>>
    PROVE  StreamQueue' /\ HandBetween'
<1> DEFINE KnownNext(n) == Numbered(n, frames', ppc' = "send", inputs', input')
<1>1. /\ \A i \in 1..Len(stream) : stream[i] \in Message
      /\ \A i \in 1..Len(queue) : queue[i] \in Message
      /\ wmsg \in Message
  BY DEF TypeOK
<1>2. /\ \A i \in 1..Len(stream) : Before(stream[i], m) /\ KnownNext(stream[i])
      /\ \A i \in 1..Len(queue) : Before(queue[i], m) /\ KnownNext(queue[i])
      /\ wpc = "write" => Before(wmsg, m) /\ KnownNext(wmsg)
  BY <1>1 DEF AllKnown, StreamQueue, HandBetween, OrderInv
<1>3. CASE HasRoom
  <2>1. queue' = Append(queue, m)
    BY <1>3 DEF TrySend
  <2>2. /\ Len(queue) \in Nat
        /\ Len(queue') = Len(queue) + 1
        /\ \A i \in 1..Len(queue) : queue'[i] = queue[i]
        /\ queue'[Len(queue) + 1] = m
    BY <2>1, AppendFacts DEF TypeOK
  <2>3. Ordered(stream') /\ Ordered(queue')
    BY <1>2, <2>1, AppendOrdered DEF TypeOK, AllBefore, StreamQueue, OrderInv
  <2>4. \A j \in 1..Len(queue') : AllBefore(stream', queue'[j])
    BY <1>2, <2>2 DEF AllBefore, StreamQueue, OrderInv
  <2>5. /\ \A i \in 1..Len(stream') : KnownNext(stream'[i])
        /\ \A i \in 1..Len(queue') : KnownNext(queue'[i])
    BY <1>2, <2>2
  <2>6. wpc' = "write" => /\ AllBefore(stream', wmsg')
                          /\ \A j \in 1..Len(queue') : Before(wmsg', queue'[j])
                          /\ KnownNext(wmsg')
    BY <1>2, <2>2 DEF HandBetween, OrderInv
  <2> QED
    BY <2>3, <2>4, <2>5, <2>6 DEF StreamQueue, HandBetween, AllKnown, Known
<1>4. CASE ~HasRoom
  <2>1. queue' = queue
    BY <1>4 DEF TrySend
  <2> QED
    BY <1>2, <2>1 DEF StreamQueue, HandBetween, OrderInv, AllKnown, Known
<1> QED
  BY <1>3, <1>4

(* Steps that move no message keep the order if what was known stays known.   *)
LEMMA NumbersKeepOrder ==
    ASSUME TypeOK, OrderInv, UNCHANGED <<stream, queue, wpc, wmsg>>,
           \A n \in Message : Known(n) =>
              Numbered(n, frames', ppc' = "send", inputs', input')
    PROVE  StreamQueue' /\ HandBetween'
<1>1. /\ \A i \in 1..Len(stream) : stream[i] \in Message
      /\ \A i \in 1..Len(queue) : queue[i] \in Message
      /\ wmsg \in Message
  BY DEF TypeOK
<1> QED
  BY <1>1 DEF StreamQueue, HandBetween, OrderInv, AllKnown, Known

(* Reading a message leaves the rest of the input ordered and newer.          *)
LEMMA ReadKeepsInput ==
    ASSUME TypeOK, InputOrdered, NEW K, Read(K)
    PROVE  /\ InputOrdered'
           /\ \A k \in 1..Len(input') : Head(input).id < input'[k].id
           /\ Head(input).id <= inputs
           /\ \A n \in Message : Known(n) =>
                /\ n.kind = "pong" => n.id < Head(input).id
                /\ Numbered(n, frames', ppc' = "send", inputs', input')
<1>1. /\ Head(input) = input[1]
      /\ Len(input) \in Nat /\ Len(input) > 0
      /\ Len(input') = Len(input) - 1
      /\ \A i \in 1..Len(input') : input'[i] = input[i + 1]
      /\ UNCHANGED <<frames, ppc, inputs>>
  BY TailFacts DEF Read, TypeOK, producerVars
<1>2. \A k \in 1..Len(input') : k + 1 \in 1..Len(input) /\ 1 \in 1..Len(input)
  BY <1>1
<1>3. InputOrdered'
  <2>1. ASSUME NEW k \in 1..Len(input')
        PROVE  /\ input'[k].id <= inputs'
               /\ \A l \in 1..Len(input') : k < l => input'[k].id < input'[l].id
    <3>1. k + 1 \in 1..Len(input) /\ input'[k] = input[k + 1]
      BY <1>1, <2>1
    <3>2. ASSUME NEW l \in 1..Len(input'), k < l
          PROVE  input'[k].id < input'[l].id
      <4>1. l + 1 \in 1..Len(input) /\ input'[l] = input[l + 1] /\ k + 1 < l + 1
        BY <1>1, <2>1, <3>2
      <4> QED
        BY <3>1, <4>1 DEF InputOrdered
    <3> QED
      BY <1>1, <3>1, <3>2 DEF InputOrdered
  <2> QED
    BY <2>1 DEF InputOrdered
<1>4. /\ \A k \in 1..Len(input') : Head(input).id < input'[k].id
      /\ Head(input).id <= inputs
  BY <1>1, <1>2 DEF InputOrdered
<1>5. ASSUME NEW n \in Message, Known(n)
      PROVE  /\ n.kind = "pong" => n.id < Head(input).id
             /\ Numbered(n, frames', ppc' = "send", inputs', input')
  BY <1>1, <1>2, <1>5 DEF Known, Numbered
<1> QED
  BY <1>3, <1>4, <1>5

(* What is written, in hand and queued is ordered, piece by piece, and older *)
(* than the frame being made and the pings still to be answered.             *)
THEOREM OrderInvariant == Spec => []OrderInv
<1>1. Init => OrderInv
  BY DEF Init, OrderInv, InputOrdered, StreamQueue, HandBetween, Ordered, AllKnown
<1>2. TypeOK /\ OrderInv /\ [Next]_vars => OrderInv'
  <2> SUFFICES ASSUME TypeOK, OrderInv, [Next]_vars PROVE OrderInv'
    OBVIOUS
  <2> USE DEF OrderInv
  <2>1. CASE ReadPing
    <3> DEFINE m == PongMsg(Head(input).id)
    <3>1. Read({"ping"}) /\ TrySend(m) /\ m \in Message
      BY <2>1, PongTypes DEF ReadPing
    <3>2. \A n \in Message : Known(n) =>
             Before(n, m) /\ Numbered(n, frames', ppc' = "send", inputs', input')
      BY <3>1, ReadKeepsInput DEF Before, PongMsg
    <3>3. Numbered(m, frames', ppc' = "send", inputs', input')
      BY <3>1, ReadKeepsInput DEF Numbered, PongMsg, Read
    <3>4. UNCHANGED <<stream, wpc, wmsg>>
      BY <3>1 DEF Read, writerVars, outVars
    <3> HIDE DEF m
    <3> QED
      BY <3>1, <3>2, <3>3, <3>4, ReadKeepsInput, AcceptKeepsOrder
  <2>2. CASE ReadLast
    <3>1. Read({"disconnect", "unexpected"}) /\ TrySend(ByeMsg) /\ ByeMsg \in Message
      BY <2>2, MessageTypes DEF ReadLast
    <3>2. \A n \in Message : Known(n) =>
             /\ Before(n, ByeMsg)
             /\ Numbered(n, frames', ppc' = "send", inputs', input')
      BY <3>1, ReadKeepsInput DEF Before, ByeMsg
    <3>3. Numbered(ByeMsg, frames', ppc' = "send", inputs', input')
      BY DEF Numbered, ByeMsg
    <3>4. UNCHANGED <<stream, wpc, wmsg>>
      BY <3>1 DEF Read, writerVars, outVars
    <3> QED
      BY <3>1, <3>2, <3>3, <3>4, ReadKeepsInput, AcceptKeepsOrder
  <2>3. CASE ReadAck \/ ReadGarbage
    <3>1. PICK K : Read(K)
      BY <2>3 DEF ReadAck, ReadGarbage
    <3>2. UNCHANGED <<stream, queue, wpc, wmsg>>
      BY <2>3 DEF ReadAck, ReadGarbage, Read, writerVars, outVars
    <3> QED
      BY <3>1, <3>2, ReadKeepsInput, NumbersKeepOrder
  <2>4. CASE ReadEof \/ StoreStop \/ DropTx \/ JoinProducer \/ JoinWriter
    <3>1. /\ UNCHANGED <<stream, queue, wpc, wmsg>>
          /\ UNCHANGED <<frames, ppc, inputs, input>>
      BY <2>4 DEF ReadEof, StoreStop, DropTx, JoinProducer, JoinWriter, TearDown,
                  producerVars, writerVars, outVars, clientVars
    <3> QED
      BY <3>1, NumbersKeepOrder DEF InputOrdered, Known
  <2>5. CASE CheckStop \/ ShutSource \/ OpenSource \/ OpenFails \/ NextFrame
    <3>1. /\ UNCHANGED <<stream, queue, wpc, wmsg, inputs, input>>
          /\ \/ frames' = frames /\ ppc' # "send"
             \/ frames' = frames + 1 /\ frames \in Nat
      BY <2>5 DEF CheckStop, ShutSource, OpenSource, OpenFails, NextFrame,
                  ProducerStep, ProducerFrame, writerVars, outVars, clientVars,
                  TypeOK
    <3>2. \A n \in Message : Known(n) =>
             Numbered(n, frames', ppc' = "send", inputs', input')
      BY <3>1 DEF Known, Numbered, Message
    <3> QED
      BY <3>1, <3>2, NumbersKeepOrder DEF InputOrdered
  <2>6. CASE OfferFrame
    <3> DEFINE m == FrameMsg(frames)
    <3>1. /\ TrySend(m) /\ m \in Message /\ ppc = "send" /\ ppc' # "send"
          /\ UNCHANGED <<stream, wpc, wmsg, frames, inputs, input>>
      BY <2>6, MessageTypes DEF OfferFrame, ProducerFrame, writerVars, outVars,
                                clientVars, TypeOK
    <3>2. \A n \in Message : Known(n) =>
             Before(n, m) /\ Numbered(n, frames', ppc' = "send", inputs', input')
      BY <3>1 DEF Known, Numbered, Before, FrameMsg
    <3>3. Numbered(m, frames', ppc' = "send", inputs', input')
      BY <3>1 DEF Numbered, FrameMsg, TypeOK
    <3> HIDE DEF m
    <3> QED
      BY <3>1, <3>2, <3>3, AcceptKeepsOrder DEF InputOrdered
  <2>7. CASE Recv
    <3>1. /\ wpc = "recv" /\ wpc' = "write" /\ wmsg' = queue[1]
          /\ Len(queue) \in Nat /\ Len(queue) > 0
          /\ Len(queue') = Len(queue) - 1
          /\ \A i \in 1..Len(queue') : queue'[i] = queue[i + 1]
          /\ UNCHANGED <<stream, frames, ppc, inputs, input>>
      BY <2>7, TailFacts DEF Recv, Taking, WriterFrame, TypeOK, producerVars,
                             outVars, clientVars
    <3>2. /\ 1 \in 1..Len(queue)
          /\ \A k \in 1..Len(queue') : k + 1 \in 1..Len(queue) /\ 1 < k + 1
          /\ \A k, l \in 1..Len(queue') : k < l => k + 1 < l + 1
      BY <3>1
    <3>3. Ordered(queue') /\ \A j \in 1..Len(queue') : Before(wmsg', queue'[j])
      BY <3>1, <3>2 DEF StreamQueue, Ordered
    <3>4. /\ AllBefore(stream', wmsg')
          /\ \A j \in 1..Len(queue') : AllBefore(stream', queue'[j])
          /\ Ordered(stream')
      BY <3>1, <3>2 DEF StreamQueue
    <3>5. AllKnown(stream)' /\ AllKnown(queue)' /\ Known(wmsg)'
      BY <3>1, <3>2 DEF StreamQueue, AllKnown, Known
    <3> QED
      BY <3>1, <3>3, <3>4, <3>5 DEF StreamQueue, HandBetween, InputOrdered
  <2>8. CASE Write
    <3>1. /\ wpc = "write" /\ wpc' # "write"
          /\ stream' = Append(stream, wmsg) /\ wmsg \in Message
          /\ UNCHANGED <<queue, frames, ppc, inputs, input>>
      BY <2>8, WriteGoesOn DEF Write, Writing, WriterFrame, TypeOK, producerVars,
                               clientVars
    <3>2. /\ Len(stream) \in Nat
          /\ Len(stream') = Len(stream) + 1
          /\ \A i \in 1..Len(stream) : stream'[i] = stream[i]
          /\ stream'[Len(stream) + 1] = wmsg
      BY <3>1, AppendFacts DEF TypeOK
    <3>3. Ordered(stream')
      BY <3>1, AppendOrdered DEF StreamQueue, HandBetween, TypeOK
    <3>4. \A j \in 1..Len(queue') : AllBefore(stream', queue'[j])
      BY <3>1, <3>2 DEF StreamQueue, HandBetween, AllBefore
    <3>5. AllKnown(stream)' /\ AllKnown(queue)'
      BY <3>1, <3>2 DEF StreamQueue, HandBetween, AllKnown, Known
    <3> QED
      BY <3>1, <3>3, <3>4, <3>5 DEF StreamQueue, HandBetween, InputOrdered
  <2>9. CASE RecvEnds \/ WriteFails \/ NoteFrame \/ ShutSocket
    <3>1. /\ wpc' # "write"
          /\ UNCHANGED <<stream, queue, frames, ppc, inputs, input>>
      BY <2>9 DEF RecvEnds, WriteFails, Failing, NoteFrame, ShutSocket, WriterFrame,
                  producerVars, outVars, clientVars
    <3> QED
      BY <3>1 DEF StreamQueue, HandBetween, InputOrdered, AllKnown, Known
  <2>10. CASE WritePanics \/ DropRx
    <3>1. /\ wpc' # "write" /\ queue' = <<>>
          /\ UNCHANGED <<stream, frames, ppc, inputs, input>>
      BY <2>10 DEF WritePanics, DropRx, WriterFrame, producerVars, outVars,
                   clientVars
    <3>2. Len(queue') = 0
      BY <3>1
    <3> QED
      BY <3>1, <3>2 DEF StreamQueue, HandBetween, InputOrdered, AllKnown, Known,
                        Ordered
  <2>11. ASSUME NEW k \in InputKinds, ClientSend(k) PROVE OrderInv'
    <3> DEFINE e == [kind |-> k, id |-> inputs']
    <3>1. e \in Input /\ e.id = inputs + 1 /\ inputs \in Nat
      BY <2>11 DEF ClientSend, TypeOK, Input
    <3> HIDE DEF e
    <3>2. /\ Len(input) \in Nat
          /\ Len(input') = Len(input) + 1
          /\ \A i \in 1..Len(input) : input'[i] = input[i]
          /\ input'[Len(input) + 1] = e
          /\ inputs' = inputs + 1
          /\ UNCHANGED <<stream, queue, wpc, wmsg, frames, ppc>>
      BY <2>11, <3>1, AppendFacts
         DEF ClientSend, HostFrame, TypeOK, producerVars, writerVars, outVars, e
    <3>3. \A i \in 1..Len(input) : input[i].id \in Nat /\ input[i].id <= inputs
      <4>1. \A i \in 1..Len(input) : input[i] \in Input
        BY DEF TypeOK
      <4> QED
        BY <4>1 DEF Input, InputOrdered
    <3>4. ASSUME NEW i \in 1..Len(input')
          PROVE  /\ input'[i].id <= inputs'
                 /\ \A l \in 1..Len(input') : i < l => input'[i].id < input'[l].id
      <4>1. CASE i = Len(input) + 1
        BY <3>1, <3>2, <4>1
      <4>2. CASE i \in 1..Len(input)
        <5>1. input'[i].id <= inputs' /\ input'[i].id < inputs + 1
          BY <3>1, <3>2, <3>3, <4>2
        <5>2. ASSUME NEW l \in 1..Len(input), i < l
              PROVE  input'[i].id < input'[l].id
          BY <3>2, <4>2, <5>2 DEF InputOrdered
        <5> QED
          BY <3>1, <3>2, <4>2, <5>1, <5>2
      <4> QED
        BY <3>2, <4>1, <4>2
    <3>6. InputOrdered'
      BY <3>4 DEF InputOrdered
    <3>5. \A n \in Message : Known(n) =>
             Numbered(n, frames', ppc' = "send", inputs', input')
      BY <3>1, <3>2 DEF Known, Numbered, Message
    <3> QED
      BY <3>2, <3>5, <3>6, NumbersKeepOrder
  <2>12. CASE ClientRead \/ ClientGone
    <3>1. /\ input' = input \/ input' = <<>>
          /\ UNCHANGED <<stream, queue, wpc, wmsg, frames, ppc, inputs>>
      BY <2>12 DEF ClientRead, ClientGone, HostFrame, producerVars, writerVars,
                   outVars
    <3>2. input' = <<>> => Len(input') = 0
      OBVIOUS
    <3>3. InputOrdered'
      BY <3>1, <3>2 DEF InputOrdered
    <3>4. \A n \in Message : Known(n) =>
             Numbered(n, frames', ppc' = "send", inputs', input')
      BY <3>1, <3>2 DEF Known, Numbered
    <3> QED
      BY <3>1, <3>3, <3>4, NumbersKeepOrder
  <2>13. CASE UNCHANGED vars
    BY <2>13 DEF vars, producerVars, writerVars, outVars, clientVars, StreamQueue,
                 HandBetween, InputOrdered, AllKnown, Known
  <2> QED
    BY <2>1, <2>2, <2>3, <2>4, <2>5, <2>6, <2>7, <2>8, <2>9, <2>10, <2>11, <2>12,
       <2>13 DEF Next, Reader, Producer, Source, Writer, Client, Ended
<1> QED
  BY <1>1, <1>2, TypeCorrect, PTL DEF Spec

(* Frames, and answers to pings, are written in their order and once, and     *)
(* what is queued behind them is newer.                                      *)
THEOREM StreamInOrder == Spec => []InOrder
<1>1. TypeOK /\ OrderInv => InOrder
  <2> SUFFICES ASSUME TypeOK, OrderInv PROVE Ordered(Line)
    BY DEF InOrder, Ordered
  <2> USE DEF OrderInv
  <2>1. CASE wpc = "write"
    <3> DEFINE s == stream \o <<wmsg>>
    <3>1. s = Append(stream, wmsg) /\ s \in Seq(Message)
      BY DEF TypeOK
    <3>2. Ordered(s)
      BY <2>1, <3>1, AppendOrdered DEF StreamQueue, HandBetween, TypeOK
    <3>3. /\ Len(s) = Len(stream) + 1 /\ Len(stream) \in Nat
          /\ \A i \in 1..Len(stream) : s[i] = stream[i]
          /\ s[Len(stream) + 1] = wmsg
      BY <3>1, AppendFacts DEF TypeOK
    <3>4. Line = s \o queue
      BY <2>1 DEF Line, InHand
    <3> HIDE DEF s
    <3>5. \A j \in 1..Len(queue) : AllBefore(s, queue[j])
      BY <2>1, <3>3 DEF StreamQueue, HandBetween, AllBefore
    <3> QED
      BY <3>1, <3>2, <3>4, <3>5, ConcatOrdered DEF StreamQueue, TypeOK
  <2>2. CASE wpc # "write"
    <3>1. Line = stream \o queue
      BY <2>2 DEF Line, InHand, TypeOK
    <3> QED
      BY <3>1, ConcatOrdered DEF StreamQueue, TypeOK
  <2> QED
    BY <2>1, <2>2
<1> QED
  BY <1>1, TypeCorrect, OrderInvariant, PTL

-----------------------------------------------------------------------------
(* The ordered lossy channel.                                                *)

(* The numbers stay within the bounds of the model.                           *)
Bounds == /\ frames <= MaxFrames
          /\ ppc = "send" => frames >= 1
          /\ inputs <= MaxInput
          /\ \A k \in 1..Len(input) : input[k].id >= 1

(* Frames are numbered 1..MaxFrames and pings 1..MaxInput: whatever is offered *)
(* to the queue is a message the channel knows.                              *)
THEOREM BoundsInvariant == Spec => []Bounds
<1>1. Init => Bounds
  BY PipelineAssumption DEF Init, Bounds
<1>2. TypeOK /\ Bounds /\ [Next]_vars => Bounds'
  <2> SUFFICES ASSUME TypeOK, Bounds, [Next]_vars PROVE Bounds'
    OBVIOUS
  <2> USE DEF Bounds
  <2>1. CASE ReadPing \/ ReadAck \/ ReadLast \/ ReadGarbage
    <3>1. PICK K : Read(K)
      BY <2>1 DEF ReadPing, ReadAck, ReadLast, ReadGarbage
    <3>2. /\ Len(input) \in Nat /\ Len(input') = Len(input) - 1
          /\ \A i \in 1..Len(input') : input'[i] = input[i + 1]
      BY <3>1, TailFacts DEF Read, TypeOK
    <3>3. \A k \in 1..Len(input') : k + 1 \in 1..Len(input)
      BY <3>2
    <3> QED
      BY <3>1, <3>2, <3>3 DEF Read, producerVars
  <2>2. CASE ReadEof \/ StoreStop \/ DropTx \/ JoinProducer \/ JoinWriter
    BY <2>2 DEF ReadEof, StoreStop, DropTx, JoinProducer, JoinWriter, TearDown,
                producerVars, clientVars
  <2>3. CASE NextFrame
    <3>1. /\ \/ frames < MaxFrames /\ frames' = frames + 1
             \/ frames' = frames /\ ppc' # "send"
          /\ UNCHANGED <<inputs, input>>
          /\ frames \in Nat
      BY <2>3 DEF NextFrame, ProducerStep, ProducerFrame, clientVars, TypeOK
    <3> QED
      BY <3>1, PipelineAssumption
  <2>4. CASE CheckStop \/ ShutSource \/ OpenSource \/ OpenFails \/ OfferFrame
    BY <2>4 DEF CheckStop, ShutSource, OpenSource, OpenFails, OfferFrame,
                ProducerStep, ProducerFrame, clientVars
  <2>5. CASE Writer
    BY <2>5 DEF Writer, Recv, Taking, RecvEnds, Write, Writing, WriteFails, Failing,
                WritePanics, NoteFrame, ShutSocket, DropRx, WriterFrame,
                producerVars, clientVars
  <2>6. ASSUME NEW k \in InputKinds, ClientSend(k) PROVE Bounds'
    <3> DEFINE e == [kind |-> k, id |-> inputs']
    <3>1. e \in Input /\ e.id = inputs + 1 /\ inputs \in Nat
      BY <2>6 DEF ClientSend, TypeOK, Input
    <3> HIDE DEF e
    <3>2. /\ Len(input) \in Nat
          /\ Len(input') = Len(input) + 1
          /\ \A i \in 1..Len(input) : input'[i] = input[i]
          /\ input'[Len(input) + 1] = e
          /\ inputs < MaxInput /\ inputs' = inputs + 1
          /\ UNCHANGED <<frames, ppc>>
      BY <2>6, <3>1, AppendFacts
         DEF ClientSend, HostFrame, TypeOK, producerVars, e
    <3> QED
      BY <3>1, <3>2, PipelineAssumption
  <2>7. CASE ClientRead \/ ClientGone
    <3>1. /\ input' = input \/ input' = <<>>
          /\ UNCHANGED <<frames, ppc, inputs>>
      BY <2>7 DEF ClientRead, ClientGone, HostFrame, producerVars
    <3>2. input' = <<>> => Len(input') = 0
      OBVIOUS
    <3> QED
      BY <3>1, <3>2
  <2>8. CASE UNCHANGED vars
    BY <2>8 DEF vars, producerVars, clientVars
  <2> QED
    BY <2>1, <2>2, <2>3, <2>4, <2>5, <2>6, <2>7, <2>8
       DEF Next, Reader, Producer, Source, Client, Ended
<1> QED
  BY <1>1, <1>2, TypeCorrect, PTL DEF Spec

(* The writer has recorded why it left exactly when it is past its loop.     *)
THEOREM WriterLeftInvariant == Spec => []WriterLeft
<1>1. Init => WriterLeft
  BY DEF Init, WriterLeft
<1>2. TypeOK /\ WriterLeft /\ [Next]_vars => WriterLeft'
  <2> SUFFICES ASSUME TypeOK, WriterLeft, [Next]_vars PROVE WriterLeft'
    OBVIOUS
  <2> USE DEF WriterLeft
  <2>1. CASE Reader
    BY <2>1 DEF Reader, ReadPing, ReadAck, ReadLast, ReadGarbage, ReadEof, Read,
                StoreStop, DropTx, JoinProducer, JoinWriter, TearDown, writerVars
  <2>2. CASE Producer \/ Source
    BY <2>2 DEF Producer, Source, CheckStop, OfferFrame, ShutSource, OpenSource,
                OpenFails, NextFrame, ProducerStep, ProducerFrame, writerVars
  <2>3. CASE Write
    <3>1. /\ wpc = "write"
          /\ wpc' \in {"recv", "note", "shut"}
          /\ wpc' = "shut" <=> wmsg.kind = "bye"
          /\ wexit' = IF wmsg.kind = "bye" THEN "bye" ELSE wexit
      BY <2>3, WriteGoesOn DEF Write, Writing
    <3> QED
      BY <3>1
  <2>4. CASE Recv \/ RecvEnds \/ WriteFails \/ WritePanics \/ NoteFrame
    BY <2>4 DEF Recv, Taking, RecvEnds, WriteFails, Failing, WritePanics, NoteFrame
  <2>5. CASE ShutSocket \/ DropRx
    BY <2>5 DEF ShutSocket, DropRx
  <2>6. CASE Client \/ UNCHANGED vars
    BY <2>6, HostAlone DEF HostFrame, writerVars
  <2> QED
    BY <2>1, <2>2, <2>3, <2>4, <2>5, <2>6 DEF Next, Writer, Ended
<1> QED
  BY <1>1, <1>2, TypeCorrect, PTL DEF Spec

(* What the channel has accepted and not yet sent.                            *)
Pending == IF wexit = "none" THEN InHand \o queue ELSE <<>>

(* What the writer holds and what is queued, as the channel's pending messages. *)
LEMMA PendingFacts ==
    ASSUME TypeOK
    PROVE  /\ InHand \in Seq(Message)
           /\ Pending \in Seq(Message)
           /\ Len(Pending) <= Len(queue) + 1
<1>1. InHand \in Seq(Message) /\ Len(InHand) <= 1 /\ Len(InHand) \in Nat
  BY DEF InHand, TypeOK
<1>2. Len(queue) \in Nat /\ queue \in Seq(Message)
  BY DEF TypeOK
<1>3. CASE wexit = "none"
  BY <1>1, <1>2, <1>3 DEF Pending
<1>4. CASE wexit # "none"
  <2>1. Pending = <<>>
    BY <1>4 DEF Pending
  <2> QED
    BY <1>1, <1>2, <2>1
<1> QED
  BY <1>3, <1>4

(* An accepted message is accepted by the channel; one that is lost, or       *)
(* accepted after the writer has left, is lost.                              *)
LEMMA OfferRefines ==
    ASSUME TypeOK, OrderInv, WriterLeft,
           NEW m \in Message, m \in Offered, TrySend(m),
           \A n \in Message : Known(n) => Before(n, m),
           UNCHANGED <<stream, wpc, wmsg, wexit>>
    PROVE  Channel!Next \/ UNCHANGED Channel!cvars
<1> USE DEF Channel!Next, Channel!cvars
<1>1. CASE ~HasRoom \/ wexit # "none"
  <2>1. Pending' = Pending
    BY <1>1 DEF Pending, InHand, TrySend
  <2> QED
    BY <2>1 DEF Pending
<1>2. CASE HasRoom /\ wexit = "none"
  <2>1. queue' = Append(queue, m) /\ InHand' = InHand /\ wexit' = "none"
    BY <1>2 DEF TrySend, InHand
  <2>2. Pending' = Append(Pending, m)
    BY <1>2, <2>1, PendingFacts DEF Pending, TypeOK
  <2>3. Len(Pending) < QueueCap + 1
    BY <1>2, PendingFacts, PipelineAssumption DEF HasRoom, TypeOK
  <2>4. AllBefore(stream, m)
    BY DEF OrderInv, StreamQueue, AllKnown, AllBefore, TypeOK
  <2>5. AllBefore(Pending, m)
    <3>1. AllBefore(queue, m) /\ AllBefore(InHand, m)
      BY DEF OrderInv, StreamQueue, HandBetween, AllKnown, AllBefore, InHand, TypeOK
    <3> QED
      BY <1>2, <3>1, PendingFacts DEF Pending, AllBefore, TypeOK
  <2>6. Channel!Newest(m, stream) /\ Channel!Newest(m, Pending)
    BY <2>4, <2>5 DEF Channel!Newest, AllBefore, Before
  <2>7. Channel!Accept(m)
    BY <1>2, <2>1, <2>2, <2>3, <2>6 DEF Channel!Accept, Pending
  <2> QED
    BY <2>7
<1> QED
  BY <1>1, <1>2

(* The connection implements the channel: every step of the threads, of the   *)
(* client and of the cable is a step of the channel or leaves it as it is.    *)
THEOREM ImplementsChannel == Spec => ChannelSpec
<1>1. Init => Channel!Init
  BY DEF Init, Channel!Init, InHand
<1>2. /\ TypeOK /\ OrderInv /\ WriterLeft /\ Bounds
      /\ [Next]_vars
      => [Channel!Next]_(Channel!cvars)
  <2> SUFFICES ASSUME TypeOK, OrderInv, WriterLeft, Bounds, [Next]_vars
               PROVE  Channel!Next \/ UNCHANGED Channel!cvars
    OBVIOUS
  <2> USE DEF Channel!cvars
  <2>1. CASE ReadPing
    <3> DEFINE m == PongMsg(Head(input).id)
    <3>1. Read({"ping"}) /\ TrySend(m) /\ m \in Message
      BY <2>1, PongTypes DEF ReadPing
    <3>2. \A n \in Message : Known(n) => Before(n, m)
      BY <3>1, ReadKeepsInput DEF Before, PongMsg, OrderInv
    <3>3. m \in Offered
      <4>1. /\ Head(input) = input[1] /\ 1 \in 1..Len(input)
            /\ Head(input).id \in Nat
        <5>1. Head(input).id \in Nat
          BY <3>1, PongTypes
        <5>2. Len(input) \in Nat /\ Len(input) > 0 /\ Head(input) = input[1]
          BY <3>1, TailFacts DEF Read, TypeOK
        <5> QED
          BY <5>1, <5>2
      <4>2. Head(input).id >= 1 /\ Head(input).id <= inputs /\ inputs <= MaxInput
        BY <4>1 DEF Bounds, OrderInv, InputOrdered
      <4>3. Head(input).id \in 1..MaxInput
        BY <4>1, <4>2, PipelineAssumption DEF TypeOK
      <4> QED
        BY <4>3 DEF Offered
    <3>4. UNCHANGED <<stream, wpc, wmsg, wexit>>
      BY <3>1 DEF Read, writerVars, outVars
    <3> HIDE DEF m
    <3> QED
      BY <3>1, <3>2, <3>3, <3>4, OfferRefines
  <2>2. CASE ReadLast
    <3>1. TrySend(ByeMsg) /\ ByeMsg \in Message /\ ByeMsg \in Offered
      BY <2>2, MessageTypes DEF ReadLast, Offered
    <3>2. \A n \in Message : Known(n) => Before(n, ByeMsg)
      BY DEF Before, ByeMsg
    <3>3. UNCHANGED <<stream, wpc, wmsg, wexit>>
      BY <2>2 DEF ReadLast, Read, writerVars, outVars
    <3> QED
      BY <3>1, <3>2, <3>3, OfferRefines
  <2>3. CASE OfferFrame
    <3> DEFINE m == FrameMsg(frames)
    <3>1. TrySend(m) /\ m \in Message /\ ppc = "send"
      BY <2>3, MessageTypes DEF OfferFrame, TypeOK
    <3>2. \A n \in Message : Known(n) => Before(n, m)
      BY <3>1 DEF Known, Numbered, Before, FrameMsg
    <3>3. m \in Offered
      BY <3>1, PipelineAssumption DEF Offered, Bounds, TypeOK
    <3>4. UNCHANGED <<stream, wpc, wmsg, wexit>>
      BY <2>3 DEF OfferFrame, ProducerFrame, writerVars, outVars
    <3> HIDE DEF m
    <3> QED
      BY <3>1, <3>2, <3>3, <3>4, OfferRefines
  <2>4. CASE \/ ReadAck \/ ReadGarbage \/ ReadEof \/ StoreStop \/ DropTx
             \/ JoinProducer \/ JoinWriter
    <3>1. UNCHANGED <<stream, wpc, wmsg, wexit, queue>>
      BY <2>4 DEF ReadAck, ReadGarbage, ReadEof, Read, StoreStop, DropTx,
                  JoinProducer, JoinWriter, TearDown, writerVars, outVars
    <3> QED
      BY <3>1 DEF InHand
  <2>5. CASE CheckStop \/ ShutSource \/ OpenSource \/ OpenFails \/ NextFrame
    <3>1. UNCHANGED <<stream, wpc, wmsg, wexit, queue>>
      BY <2>5 DEF CheckStop, ShutSource, OpenSource, OpenFails, NextFrame,
                  ProducerStep, ProducerFrame, writerVars, outVars
    <3> QED
      BY <3>1 DEF InHand
  <2>6. CASE Recv
    <3>1. /\ wpc = "recv" /\ wpc' = "write" /\ wmsg' = Head(queue)
          /\ queue # <<>> /\ queue' = Tail(queue)
          /\ UNCHANGED <<stream, wexit>>
      BY <2>6 DEF Recv, Taking, outVars
    <3>2. InHand = <<>> /\ InHand' = <<Head(queue)>>
      BY <3>1 DEF InHand
    <3>3. InHand \o queue = InHand' \o queue'
      BY <3>1, <3>2 DEF TypeOK
    <3> QED
      BY <3>1, <3>3
  <2>7. CASE RecvEnds
    <3>1. /\ wpc = "recv" /\ queue = <<>> /\ wexit' = "senders"
          /\ stream' = stream
      BY <2>7 DEF RecvEnds, outVars
    <3>2. wexit = "none" /\ InHand \o queue = <<>>
      BY <3>1 DEF WriterLeft, InHand
    <3>3. Channel!Finish
      BY <3>1, <3>2 DEF Channel!Finish
    <3> QED
      BY <3>3 DEF Channel!Next
  <2>8. CASE Write
    <3>1. /\ wpc = "write" /\ wexit = "none"
          /\ stream' = Append(stream, wmsg) /\ queue' = queue
          /\ wpc' # "write"
          /\ wexit' = IF wmsg.kind = "bye" THEN "bye" ELSE wexit
      BY <2>8, WriteGoesOn DEF Write, Writing, WriterLeft
    <3>2. /\ Pending = <<wmsg>> \o queue
          /\ Pending # <<>>
          /\ Head(Pending) = wmsg
          /\ Tail(Pending) = queue
      BY <3>1 DEF Pending, InHand, TypeOK
    <3>3. InHand' = <<>>
      BY <3>1 DEF InHand
    <3>4. CASE wmsg.kind = "bye"
      <4>1. Channel!SayGoodbye
        BY <3>1, <3>2, <3>4 DEF Channel!SayGoodbye, Pending
      <4> QED
        BY <4>1 DEF Channel!Next
    <3>5. CASE wmsg.kind # "bye"
      <4>1. Pending' = queue
        BY <3>1, <3>3, <3>5 DEF Pending, TypeOK
      <4>2. Channel!Emit
        BY <3>1, <3>2, <3>5, <4>1 DEF Channel!Emit, Pending
      <4> QED
        BY <4>2 DEF Channel!Next
    <3> QED
      BY <3>4, <3>5
  <2>9. CASE WriteFails \/ WritePanics
    <3>1. /\ wpc = "write" /\ wexit' \in {"error", "panic"} /\ stream' = stream
      BY <2>9 DEF WriteFails, Failing, WritePanics, outVars
    <3>2. Channel!Break
      BY <3>1 DEF Channel!Break, WriterLeft
    <3> QED
      BY <3>2 DEF Channel!Next
  <2>10. CASE NoteFrame
    <3>1. /\ wpc # "write" /\ wpc' # "write"
          /\ UNCHANGED <<stream, wexit, queue>>
      BY <2>10 DEF NoteFrame, outVars
    <3> QED
      BY <3>1 DEF InHand
  <2>11. CASE ShutSocket \/ DropRx
    <3>1. wexit # "none" /\ UNCHANGED <<stream, wexit>>
      BY <2>11 DEF ShutSocket, DropRx, WriterLeft, outVars
    <3> QED
      BY <3>1
  <2>12. CASE Client \/ UNCHANGED vars
    <3>1. UNCHANGED <<stream, wpc, wmsg, wexit, queue>>
      BY <2>12, HostAlone DEF HostFrame, writerVars, outVars
    <3> QED
      BY <3>1 DEF InHand
  <2> QED
    BY <2>1, <2>2, <2>3, <2>4, <2>5, <2>6, <2>7, <2>8, <2>9, <2>10, <2>11, <2>12
       DEF Next, Reader, Producer, Source, Writer, Ended
<1> QED
  BY <1>1, <1>2, TypeCorrect, OrderInvariant, WriterLeftInvariant, BoundsInvariant,
     PTL DEF Spec, ChannelSpec, Channel!Spec
-----------------------------------------------------------------------------
(* The session table follows the stream.                                     *)

(* Only between the write of a frame and its note is a frame of the stream    *)
(* newer than the one noted, and then it is the one in the writer's hand.     *)
OnStream(m) == \E i \in 1..Len(stream) : stream[i] = m
InNote == wpc = "note" => /\ wmsg.kind = "frame"
                          /\ stream # <<>> /\ stream[Len(stream)] = wmsg
NotedIsOld == \A i \in 1..Len(stream) :
                 stream[i].kind = "frame" /\ stream[i].id > noted
                    => i = Len(stream) /\ wpc = "note"
NoteInv == /\ noted # 0 => OnStream(FrameMsg(noted))
           /\ InNote
           /\ NotedIsOld

(* The table is at most one frame behind the stream and never ahead of it.    *)
THEOREM NotesFollowWrites == Spec => []NoteFollowsWrite
<1>1. Init => NoteInv
  BY DEF Init, NoteInv, InNote, NotedIsOld
<1>2. TypeOK /\ OrderInv /\ NoteInv /\ [Next]_vars => NoteInv'
  <2> SUFFICES ASSUME TypeOK, OrderInv, NoteInv, [Next]_vars PROVE NoteInv'
    OBVIOUS
  <2> USE DEF NoteInv, InNote, NotedIsOld, OnStream
  <2>1. CASE Reader
    BY <2>1 DEF Reader, ReadPing, ReadAck, ReadLast, ReadGarbage, ReadEof, Read,
                StoreStop, DropTx, JoinProducer, JoinWriter, TearDown,
                writerVars, outVars
  <2>2. CASE Producer \/ Source
    BY <2>2 DEF Producer, Source, CheckStop, OfferFrame, ShutSource, OpenSource,
                OpenFails, NextFrame, ProducerStep, ProducerFrame, writerVars,
                outVars
  <2>3. CASE Recv \/ RecvEnds \/ WriteFails \/ WritePanics
    BY <2>3 DEF Recv, Taking, RecvEnds, WriteFails, Failing, WritePanics, outVars
  <2>4. CASE Write
    <3>1. /\ wpc = "write" /\ wmsg' = wmsg /\ noted' = noted
          /\ stream' = Append(stream, wmsg)
          /\ wpc' = "note" <=> wmsg.kind = "frame"
      <4>1. wmsg.kind \in Kinds
        BY DEF TypeOK, Message
      <4> QED
        BY <2>4, <4>1 DEF Write, Writing, Kinds
    <3>2. /\ Len(stream) \in Nat
          /\ Len(stream') = Len(stream) + 1
          /\ \A i \in 1..Len(stream) : stream'[i] = stream[i]
          /\ stream'[Len(stream) + 1] = wmsg
      BY <2>4, <3>1, AppendFacts DEF TypeOK
    <3>3. noted' # 0 => OnStream(FrameMsg(noted))'
      <4> SUFFICES ASSUME noted # 0
                   PROVE  \E i \in 1..Len(stream') : stream'[i] = FrameMsg(noted)
        BY <3>1 DEF FrameMsg
      <4>1. PICK i \in 1..Len(stream) : stream[i] = FrameMsg(noted)
        OBVIOUS
      <4> QED
        BY <3>2, <4>1
    <3>4. InNote'
      BY <3>1, <3>2
    <3>5. NotedIsOld'
      <4> SUFFICES ASSUME NEW i \in 1..Len(stream'), stream'[i].kind = "frame",
                          stream'[i].id > noted
                   PROVE  i = Len(stream') /\ wpc' = "note"
        BY <3>1
      <4>1. i \notin 1..Len(stream)
        BY <3>1, <3>2
      <4> QED
        BY <3>1, <3>2, <4>1
    <3> QED
      BY <3>3, <3>4, <3>5
  <2>5. CASE NoteFrame
    <3>1. /\ wpc = "note" /\ noted' = wmsg.id /\ stream' = stream
          /\ wmsg' = wmsg /\ wpc' = "recv"
      BY <2>5 DEF NoteFrame, outVars
    <3>2. /\ Len(stream) \in 1..Len(stream)
          /\ stream[Len(stream)] = wmsg /\ wmsg.kind = "frame"
      BY <3>1 DEF TypeOK
    <3>3. wmsg = FrameMsg(wmsg.id) /\ wmsg.id \in Nat
      BY <3>2 DEF TypeOK, Message, FrameMsg
    <3>4. OnStream(FrameMsg(noted))'
      <4>1. \E i \in 1..Len(stream) : stream[i] = FrameMsg(wmsg.id)
        BY <3>2, <3>3
      <4> QED
        BY <3>1, <4>1 DEF FrameMsg
    <3>5. ASSUME NEW i \in 1..Len(stream), stream[i].kind = "frame",
                 stream[i].id > wmsg.id
          PROVE  FALSE
      <4>1. CASE i = Len(stream)
        BY <3>2, <3>3, <3>5, <4>1
      <4>2. CASE i < Len(stream)
        <5>1. Before(stream[i], stream[Len(stream)])
          BY <3>2, <4>2 DEF OrderInv, StreamQueue, Ordered
        <5>2. stream[i].id \in Nat
          <6>1. stream[i] \in Message
            BY DEF TypeOK
          <6> QED
            BY <6>1 DEF Message
        <5> QED
          BY <3>2, <3>3, <3>5, <5>1, <5>2 DEF Before
      <4>3. i = Len(stream) \/ i < Len(stream)
        BY <3>2
      <4> QED
        BY <4>1, <4>2, <4>3
    <3> QED
      BY <3>1, <3>4, <3>5
  <2>6. CASE ShutSocket \/ DropRx
    BY <2>6 DEF ShutSocket, DropRx, outVars
  <2>7. CASE Client \/ UNCHANGED vars
    BY <2>7, HostAlone DEF HostFrame, writerVars, outVars
  <2> QED
    BY <2>1, <2>2, <2>3, <2>4, <2>5, <2>6, <2>7 DEF Next, Writer, Ended
<1>3. NoteInv => NoteFollowsWrite
  BY DEF NoteInv, NotedIsOld, OnStream, NoteFollowsWrite
<1> QED
  BY <1>1, <1>2, <1>3, TypeCorrect, OrderInvariant, PTL DEF Spec

(* The stream is in order, ends with the goodbye if there is one, and holds     *)
(* everything accepted when the writer ran out of senders.                   *)
THEOREM StreamIsSafe == Spec => []StreamSafe
  BY StreamInOrder, ByeIsLast, Drained, PTL DEF StreamSafe

-----------------------------------------------------------------------------
(* The connection with its source.                                           *)

(* Threads other than the producer leave the producer alone.                  *)
LEMMA OthersKeepProducer == Others => UNCHANGED producerVars
<1> SUFFICES ASSUME Others PROVE UNCHANGED producerVars
  OBVIOUS
<1>1. CASE Reader
  <2>1. CASE ReadPing \/ ReadAck \/ ReadLast \/ ReadGarbage
    BY <2>1 DEF ReadPing, ReadAck, ReadLast, ReadGarbage, Read
  <2>2. CASE ReadEof
    BY <2>2 DEF ReadEof
  <2>3. CASE StoreStop \/ DropTx \/ JoinProducer \/ JoinWriter
    BY <2>3 DEF StoreStop, DropTx, JoinProducer, JoinWriter, TearDown
  <2> QED
    BY <1>1, <2>1, <2>2, <2>3 DEF Reader
<1>2. CASE Writer
  BY <1>2, Zenon DEF Writer, Recv, Taking, RecvEnds, Write, Writing, WriteFails, Failing,
     WritePanics, NoteFrame, ShutSocket, DropRx, WriterFrame
<1>3. CASE Client
  BY <1>3 DEF Client, ClientSend, ClientRead, ClientGone, HostFrame
<1>4. CASE Ended
  BY <1>4 DEF Ended, vars
<1> QED
  BY <1>1, <1>2, <1>3, <1>4 DEF Others

(* The pipeline's part: opening and shutting the source are single steps of it, *)
(* all else of the source is none.                                           *)
LEMMA PipelinePart == CSpec => Spec
<1>1. CInit => Init
  BY DEF CInit
<1>2. [CNext]_allVars => [Next]_vars
  <2> SUFFICES ASSUME [CNext]_allVars PROVE Next \/ UNCHANGED vars
    OBVIOUS
  <2>1. CASE TakeFrames
    <3>1. CASE Within
      BY <3>1 DEF Within
    <3>2. CASE Open \/ OpenError \/ Check \/ Grab \/ Offer \/ Shut
      BY <3>2 DEF Open, OpenError, Check, Grab, Returns, Offer, Shut, Next, Producer,
         Source
    <3> QED
      BY <2>1, <3>1, <3>2 DEF TakeFrames
  <2>2. CASE Desktop
    BY <2>2 DEF Desktop
  <2>3. CASE Others
    BY <2>3 DEF Others, Next
  <2>4. CASE UNCHANGED allVars
    BY <2>4 DEF allVars
  <2> QED
    BY <2>1, <2>2, <2>3, <2>4 DEF CNext
<1> QED
  BY <1>1, <1>2, PTL DEF CSpec, Spec

-----------------------------------------------------------------------------
(* The source's part.  Of the pipeline it needs to know who writes the flag     *)
(* and who ends the writer.                                                  *)

(* What the other threads do is to the source one thread stopping it, or the    *)
(* receiver of its frames going away.                                        *)
LEMMA OthersAreEnvironment ==
    ASSUME Others PROVE G!ReaderStops \/ G!WriterEnds \/ UNCHANGED G!vars
<1> USE DEF Others, sourceVars, G!vars, G!host, G!mutter, G!child, G!threads
<1>1. CASE Reader
  <2>1. CASE StoreStop
    BY <2>1 DEF StoreStop, TearDown, writerVars, G!ReaderStops
  <2>2. CASE ReadPing \/ ReadAck \/ ReadLast \/ ReadGarbage
    BY <2>2 DEF ReadPing, ReadAck, ReadLast, ReadGarbage, Read, writerVars
  <2>3. CASE ReadEof
    BY <2>3 DEF ReadEof, writerVars
  <2>4. CASE DropTx \/ JoinProducer \/ JoinWriter
    BY <2>4 DEF DropTx, JoinProducer, JoinWriter, TearDown, writerVars
  <2> QED
    BY <1>1, <2>1, <2>2, <2>3, <2>4 DEF Reader
<1>2. CASE Writer
  <2>1. stop' = stop /\ (wpc = "done" => wpc' = "done")
    BY <1>2 DEF Writer, Recv, Taking, RecvEnds, Write, Writing, WriteFails, Failing,
       WritePanics, NoteFrame, ShutSocket, DropRx, WriterFrame
  <2>2. CASE wpc' = "done" /\ wpc # "done"
    BY <2>1, <2>2 DEF G!WriterEnds
  <2>3. CASE ~(wpc' = "done" /\ wpc # "done")
    BY <2>1, <2>3
  <2> QED
    BY <2>2, <2>3
<1>3. CASE Client
  BY <1>3 DEF Client, ClientSend, ClientRead, ClientGone, HostFrame, writerVars
<1>4. CASE Ended
  BY <1>4 DEF Ended, vars, writerVars
<1> QED
  BY <1>1, <1>2, <1>3, <1>4

LEMMA SourceStep == [CNext]_allVars => [G!Next]_(G!vars)
<1> SUFFICES ASSUME [CNext]_allVars PROVE G!Next \/ UNCHANGED G!vars
  OBVIOUS
<1>1. CASE TakeFrames
  <2>1. CASE Within \/ Open \/ OpenError
    BY <2>1 DEF Within, Open, OpenError, G!Next, G!Producer
  <2>2. CASE Check \/ Grab \/ Offer \/ Shut
    BY <2>2 DEF Check, Grab, Offer, Shut, G!Next, G!Producer
  <2> QED
    BY <1>1, <2>1, <2>2 DEF TakeFrames
<1>2. CASE Desktop
  BY <1>2 DEF Desktop, G!Next, G!Environment
<1>3. CASE Others
  BY <1>3, OthersAreEnvironment DEF G!Next, G!Environment
<1>4. CASE UNCHANGED allVars
  BY <1>4 DEF allVars, vars, writerVars, sourceVars, G!vars, G!host, G!mutter, G!child,
     G!threads
<1> QED
  BY <1>1, <1>2, <1>3, <1>4 DEF CNext

(* Whatever the connection's threads do, the source behaves as GnomeSource      *)
(* says.                                                                     *)
THEOREM ImplementsSource == CSpec => SourceSpec
<1>1. CInit => G!Init
  BY DEF CInit
<1> QED
  BY <1>1, SourceStep, PTL DEF CSpec, SourceSpec, G!Spec

-----------------------------------------------------------------------------
(* What is proved of a source is known under the name of another instance.     *)

S == INSTANCE GnomeSource_proofs WITH rxGone <- wpc = "done"

LEMMA SameStep == [G!Next]_(G!vars) => [S!Next]_(S!vars)
BY DEF
  G!Next, S!Next, G!Producer, S!Producer, G!Environment, S!Environment, G!Goto,
  S!Goto, G!Advance, S!Advance, G!Eof, S!Eof, G!Stopping, S!Stopping, G!host,
  S!host, G!mutter, S!mutter, G!child, S!child, G!threads, S!threads, G!vars,
  S!vars, G!Connect, S!Connect, G!ConnectFails, S!ConnectFails, G!CreateSession,
  S!CreateSession, G!RecordVirtual, S!RecordVirtual, G!Subscribe, S!Subscribe,
  G!Start, S!Start, G!StartFails, S!StartFails, G!AwaitNode, S!AwaitNode, G!HangUp,
  S!HangUp, G!Spawn, S!Spawn, G!SpawnFails, S!SpawnFails, G!ReadFirst, S!ReadFirst,
  G!ReadFails, S!ReadFails, G!FirstFails, S!FirstFails, G!CheckStop, S!CheckStop,
  G!NextPending,
  S!NextPending, G!NextCanvas, S!NextCanvas, G!NextRetry, S!NextRetry, G!NextBlank,
  S!NextBlank, G!OfferFrame,
  S!OfferFrame, G!KillGrabber, S!KillGrabber, G!StopSession, S!StopSession,
  G!DropSession, S!DropSession, G!Announce, S!Announce, G!Vanish, S!Vanish,
  G!CastEnds, S!CastEnds, G!GrabberWrites, S!GrabberWrites, G!GrabberCloses,
  S!GrabberCloses, G!GrabberExits, S!GrabberExits, G!ReaderStops, S!ReaderStops,
  G!WriterEnds, S!WriterEnds

LEMMA SameSource == CSpec => S!Spec
<1>1. CInit => S!Init
  BY DEF CInit, G!Init, S!Init
<1> QED
  BY <1>1, SourceStep, SameStep, PTL DEF CSpec, S!Spec

(* No grabber and no bus connection outlive a source, the monitor stays while   *)
(* frames are taken and its node is heard of: also under a connection whose     *)
(* reader and writer end when they like.                                     *)
THEOREM SourceIsSafe == CSpec => []SourceSafe
<1>1. S!GnomeAssumption
  BY GnomeAssumption DEF S!GnomeAssumption
<1>2. S!Released /\ S!MonitorHeld /\ S!NodeIsHeard
         => Released /\ MonitorHeld /\ NodeIsHeard
  BY DEF Released, G!Released, S!Released, MonitorHeld, G!MonitorHeld, S!MonitorHeld,
     G!Streaming, S!Streaming, NodeIsHeard, G!NodeIsHeard, S!NodeIsHeard
<1>3. S!TypeOK => SourceTypeOK
  BY DEF S!TypeOK, SourceTypeOK, G!TypeOK, S!Places, G!Places
<1> QED
  BY <1>1, <1>2, <1>3, SameSource, S!GnomeTypeCorrect, S!SourceReleased, S!Held, S!Heard,
     PTL DEF SourceSafe

(* Canvases become frames in their order, each at most once.                   *)
THEOREM CanvasOrderKept == CSpec => CanvasesInOrder
<1>1. S!GnomeAssumption
  BY GnomeAssumption DEF S!GnomeAssumption
<1>2. [S!HandsOut /\ ~made'.blank => ~made.blank /\ made'.id > made.id]_(S!vars)
         => [G!HandsOut /\ ~made'.blank => ~made.blank /\ made'.id > made.id]_(G!vars)
  BY DEF S!HandsOut, G!HandsOut, S!vars, G!vars, S!host, G!host, S!mutter, G!mutter,
     S!child, G!child, S!threads, G!threads
<1> QED
  BY <1>1, <1>2, SameSource, S!InCanvasOrder, PTL
     DEF CanvasesInOrder, G!CanvasesInOrder, S!CanvasesInOrder

-----------------------------------------------------------------------------
(* The thread that ended has no source any more.                              *)

ThreadEndsLast == ppc = "done" => pc = "done"

LEMMA ThreadEndsLastInvariant == CSpec => []ThreadEndsLast
<1>1. CInit => ThreadEndsLast
  BY DEF CInit, Init, ThreadEndsLast
<1>2. ThreadEndsLast /\ [CNext]_allVars => ThreadEndsLast'
  <2> SUFFICES ASSUME ThreadEndsLast, [CNext]_allVars PROVE ThreadEndsLast'
    OBVIOUS
  <2>1. CASE Within
    BY <2>1 DEF Within, ThreadEndsLast, vars, producerVars, G!Connect, G!CreateSession,
       G!RecordVirtual, G!Subscribe, G!Start, G!StartFails, G!AwaitNode, G!Spawn,
       G!SpawnFails, G!FirstFails, G!KillGrabber, G!StopSession, G!NextCanvas,
       G!NextRetry, G!Advance, G!Goto
  <2>2. CASE OpenError \/ Shut
    BY <2>2 DEF OpenError, Shut, ThreadEndsLast, G!ConnectFails, G!HangUp,
       G!DropSession, G!Goto
  <2>3. CASE Open \/ Check
    BY <2>3 DEF Open, Check, ThreadEndsLast, OpenSource, CheckStop, ProducerStep
  <2>4. CASE Grab
    BY <2>4 DEF Grab, Returns, ThreadEndsLast, NextFrame, ProducerStep, vars, producerVars
  <2>5. CASE Offer
    BY <2>5 DEF Offer, ThreadEndsLast, OfferFrame, NextFrame, ProducerStep
  <2>6. CASE Desktop
    BY <2>6 DEF Desktop, ThreadEndsLast, vars, producerVars, G!Announce, G!Vanish,
       G!CastEnds, G!GrabberWrites, G!GrabberCloses, G!GrabberExits
  <2>7. CASE Others
    BY <2>7, OthersKeepProducer DEF Others, ThreadEndsLast, producerVars, sourceVars
  <2>8. CASE UNCHANGED allVars
    BY <2>8 DEF allVars, vars, producerVars, sourceVars, ThreadEndsLast
  <2> QED
    BY <2>1, <2>2, <2>3, <2>4, <2>5, <2>6, <2>7, <2>8 DEF CNext, TakeFrames
<1> QED
  BY <1>1, <1>2, PTL DEF CSpec

(* handle_conn returns only when neither a grabber nor a connection to the bus   *)
(* is left of its source: the pipeline's half is that its thread has ended, the  *)
(* source's half what that thread leaves behind.                              *)
THEOREM NothingLeftOnReturn == CSpec => []GoneOnReturn
<1>1. ReturnedMeansReleased /\ ThreadEndsLast /\ Released => GoneOnReturn
  BY DEF ReturnedMeansReleased, ThreadEndsLast, Released, G!Released, GoneOnReturn
<1> QED
  BY <1>1, PipelinePart, ReturnReleases, ThreadEndsLastInvariant, SourceIsSafe,
     PTL DEF SourceSafe

-----------------------------------------------------------------------------
(* What the client sees.                                                      *)

Shown == [id : Nat, blank : BOOLEAN]

(* The frames so far show canvases in order and, after the last of them,       *)
(* black; the last one handed out is not older than any of them.              *)
ShowsInOrder == \A a, b \in 1..Len(shows) :
                   a < b /\ ~shows[b].blank
                      => ~shows[a].blank /\ shows[a].id < shows[b].id
ShowsMade == \A a \in 1..Len(shows) : /\ (shows[a].blank => made.blank)
                                       /\ (~made.blank => shows[a].id <= made.id)
ShowsCounted == Len(shows) = frames /\ frames <= MaxFrames

(* A frame the pipeline does not hold was beyond the bound.                    *)
BeyondBound == pc = "offer" /\ ppc # "send" => frames = MaxFrames

ShowsInv == /\ shows \in Seq(Shown)
            /\ ShowsCounted /\ ShowsInOrder /\ ShowsMade /\ BeyondBound

(* A frame handed out: the next canvas, or black.                              *)
LEMMA GrabKeepsShows ==
    ASSUME TypeOK, ShowsInv, Grab, made' \in Shown,
           ~made'.blank => ~made.blank /\ made'.id > made.id,
           made.id \in Nat, made.blank \in BOOLEAN
    PROVE  ShowsInv'
<1> USE PipelineAssumption DEF ShowsInv, ShowsCounted, BeyondBound
<1>1. frames \in Nat /\ MaxFrames \in Nat
  BY DEF TypeOK
<1>2. \A a \in 1..Len(shows) : shows[a] \in Shown
  OBVIOUS
<1>3. CASE frames < MaxFrames
  <2>1. NextFrame /\ shows' = Append(shows, made')
    BY <1>3 DEF Grab, Returns, Show
  <2>2. frames' = frames + 1 /\ ppc' = "send"
    BY <1>3, <2>1 DEF NextFrame, ProducerStep
  <2>3. /\ shows' \in Seq(Shown)
        /\ Len(shows') = Len(shows) + 1 /\ Len(shows) \in Nat
        /\ \A a \in 1..Len(shows) : shows'[a] = shows[a]
        /\ shows'[Len(shows) + 1] = made'
    BY <2>1, AppendFacts
  <2>4. ShowsMade'
    <3> SUFFICES ASSUME NEW a \in 1..Len(shows')
                 PROVE  /\ (shows'[a].blank => made'.blank)
                        /\ (~made'.blank => shows'[a].id <= made'.id)
      BY DEF ShowsMade
    <3>1. CASE a = Len(shows) + 1
      <4>1. shows'[a] = made' /\ made'.id \in Nat /\ made'.blank \in BOOLEAN
        BY <2>3, <3>1 DEF Shown
      <4> QED
        BY <4>1
    <3>2. CASE a # Len(shows) + 1
      <4>1. a \in 1..Len(shows) /\ shows'[a] = shows[a]
        BY <2>3, <3>2
      <4> QED
        BY <4>1, <1>2 DEF ShowsMade, Shown
    <3> QED
      BY <3>1, <3>2
  <2>5. ShowsInOrder'
    <3> SUFFICES ASSUME NEW a \in 1..Len(shows'), NEW b \in 1..Len(shows'), a < b,
                        ~shows'[b].blank
                 PROVE  ~shows'[a].blank /\ shows'[a].id < shows'[b].id
      BY DEF ShowsInOrder
    <3>1. a \in 1..Len(shows) /\ shows'[a] = shows[a]
      BY <2>3
    <3>2. CASE b = Len(shows) + 1
      <4>1. ~made'.blank /\ shows'[b] = made'
        BY <2>3, <3>2
      <4> QED
        BY <4>1, <3>1, <1>2 DEF ShowsMade, Shown
    <3>3. CASE b # Len(shows) + 1
      <4>1. b \in 1..Len(shows) /\ shows'[b] = shows[b]
        BY <2>3, <3>3
      <4> QED
        BY <4>1, <3>1 DEF ShowsInOrder
    <3> QED
      BY <3>2, <3>3
  <2> QED
    BY <1>1, <1>3, <2>2, <2>3, <2>4, <2>5
<1>4. CASE ~(frames < MaxFrames)
  <2>1. shows' = shows /\ frames' = frames /\ frames = MaxFrames
    BY <1>1, <1>4 DEF Grab, Returns, Show, vars, producerVars
  <2>2. ShowsMade'
    BY <1>2, <2>1 DEF ShowsMade, Shown
  <2> QED
    BY <2>1, <2>2 DEF ShowsInOrder
<1> QED
  BY <1>3, <1>4

(* Everything else leaves the frames, and what they show, alone.               *)
LEMMA RestKeepsShows ==
    ASSUME TypeOK, ShowsInv, [CNext]_allVars, ~Grab
    PROVE  /\ UNCHANGED <<shows, frames, made>>
           /\ BeyondBound'
<1> USE DEF ShowsInv, BeyondBound
<1>1. CASE Within
  BY <1>1 DEF Within, vars, producerVars, G!Connect, G!CreateSession,
     G!RecordVirtual, G!Subscribe, G!Start, G!StartFails, G!AwaitNode, G!Spawn,
     G!SpawnFails, G!FirstFails, G!KillGrabber, G!StopSession, G!NextCanvas,
     G!NextRetry, G!Advance, G!Goto
<1>2. CASE OpenError \/ Shut
  BY <1>2 DEF OpenError, Shut, OpenFails, ShutSource, ProducerStep, G!ConnectFails,
     G!HangUp, G!DropSession, G!Goto
<1>3. CASE Open \/ Check
  BY <1>3 DEF Open, Check, OpenSource, CheckStop, ProducerStep, G!ReadFirst,
     G!CheckStop, G!Goto
<1>4. CASE Offer
  <2>1. /\ pc = "offer" /\ pc' # "offer"
        /\ UNCHANGED <<shows, made>>
    BY <1>4 DEF Offer, G!OfferFrame, G!Goto
  <2>2. CASE ppc = "send"
    BY <1>4, <2>1, <2>2 DEF Offer, OfferFrame
  <2>3. CASE ppc # "send"
    <3>1. frames = MaxFrames /\ frames \in Nat
      BY <2>1, <2>3 DEF TypeOK
    <3> QED
      BY <1>4, <2>1, <2>3, <3>1 DEF Offer, NextFrame, ProducerStep
  <2> QED
    BY <2>2, <2>3
<1>5. CASE Desktop
  BY <1>5 DEF Desktop, vars, producerVars, G!Announce, G!Vanish, G!CastEnds,
     G!GrabberWrites, G!GrabberCloses, G!GrabberExits
<1>6. CASE Others
  BY <1>6, OthersKeepProducer DEF Others, producerVars, sourceVars
<1>7. CASE UNCHANGED allVars
  BY <1>7 DEF allVars, vars, producerVars, sourceVars
<1> QED
  BY <1>1, <1>2, <1>3, <1>4, <1>5, <1>6, <1>7 DEF CNext, TakeFrames

LEMMA ShowsInvariant == CSpec => []ShowsInv
<1> DEFINE Ordering == G!HandsOut /\ ~made'.blank => ~made.blank /\ made'.id > made.id
<1>1. CInit => ShowsInv
  BY PipelineAssumption
     DEF CInit, Init, G!Init, ShowsInv, ShowsCounted, ShowsInOrder, ShowsMade, BeyondBound
<1>2. /\ TypeOK /\ SourceTypeOK /\ SourceTypeOK' /\ ShowsInv
      /\ [CNext]_allVars /\ [Ordering]_(G!vars)
      => ShowsInv'
  <2> SUFFICES ASSUME TypeOK, SourceTypeOK, SourceTypeOK', ShowsInv, [CNext]_allVars,
                      [Ordering]_(G!vars)
               PROVE  ShowsInv'
    OBVIOUS
  <2>1. /\ made \in Shown /\ made' \in Shown
        /\ made.id \in Nat /\ made.blank \in BOOLEAN
    BY DEF SourceTypeOK, G!TypeOK, Shown
  <2>2. CASE Grab
    <3>1. pc = "next" /\ pc' = "offer"
      BY <2>2 DEF Grab, G!NextPending, G!NextCanvas, G!NextBlank, G!Goto
    <3>2. G!HandsOut /\ ~(UNCHANGED G!vars)
      BY <3>1 DEF G!HandsOut, G!vars
    <3> QED
      BY <2>1, <2>2, <3>2, GrabKeepsShows
  <2>3. CASE ~Grab
    BY <2>3, RestKeepsShows DEF ShowsInv, ShowsCounted, ShowsInOrder, ShowsMade
  <2> QED
    BY <2>2, <2>3
<1>3. CanvasesInOrder => [][Ordering]_(G!vars)
  BY DEF CanvasesInOrder, G!CanvasesInOrder
<1>4. SourceSafe => SourceTypeOK
  BY DEF SourceSafe
<1> QED
  BY <1>1, <1>2, <1>3, <1>4, PipelinePart, TypeCorrect, SourceIsSafe, CanvasOrderKept,
     PTL DEF CSpec

(* The canvases the client gets are the desktop's, in its order and each once,  *)
(* and none comes after a black frame: the source's half is the order in which  *)
(* they become frames, the pipeline's that frames do not overtake each other.  *)
THEOREM CanvasesReachInOrder == CSpec => []CanvasesOnStream
<1>1. TypeOK /\ OrderInv /\ ShowsInv => CanvasesOnStream
  <2> SUFFICES ASSUME TypeOK, OrderInv, ShowsInv,
                      NEW i \in 1..Len(stream), NEW j \in 1..Len(stream),
                      NEW m \in 1..Len(shows), NEW n \in 1..Len(shows),
                      i < j, stream[i] = FrameMsg(m), stream[j] = FrameMsg(n),
                      ~shows[n].blank
               PROVE  ~shows[m].blank /\ shows[m].id < shows[n].id
    BY DEF CanvasesOnStream
  <2>1. Before(stream[i], stream[j])
    BY DEF OrderInv, StreamQueue, Ordered
  <2>2. m < n
    BY <2>1 DEF Before, FrameMsg
  <2> QED
    BY <2>2 DEF ShowsInv, ShowsInOrder
<1> QED
  BY <1>1, PipelinePart, TypeCorrect, OrderInvariant, ShowsInvariant, PTL
=============================================================================
