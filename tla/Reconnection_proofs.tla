-------------------------- MODULE Reconnection_proofs --------------------------
(***************************************************************************)
(* Proofs about the phone's client, for any number of faults, of frames and   *)
(* of messages on their way, alone and beside the tunnel keeper; and about when  *)
(* the keeper may miss the loss of the tunnel.                                *)
(***************************************************************************)
EXTENDS Reconnection, TLAPS

Message == [type : Replies \union {"unknown", "frame", "pong"}, n : Nat]
Hello == [session : Nat, last : Nat]

(* What is left of a queue after a read, and what a message makes of one.      *)
LEMMA QueueFacts ==
    ASSUME NEW q \in Seq(Message)
    PROVE  /\ q # <<>> => /\ Head(q) = q[1] /\ Head(q) \in Message
                         /\ Tail(q) \in Seq(Message) /\ Len(Tail(q)) = Len(q) - 1
                         /\ 1 \in 1..Len(q)
                         /\ \A i \in 1..Len(Tail(q)) :
                                i + 1 \in 1..Len(q) /\ Tail(q)[i] = q[i + 1]
           /\ \A m \in Message :
                  /\ Append(q, m) \in Seq(Message) /\ Len(Append(q, m)) = Len(q) + 1
                  /\ \A i \in 1..Len(q) : Append(q, m)[i] = q[i]
                  /\ Append(q, m)[Len(q) + 1] = m
OBVIOUS

LEMMA MsgType ==
    ASSUME NEW t \in Replies \union {"unknown", "frame", "pong"}, NEW k \in Nat
    PROVE  Msg(t, k) \in Message /\ Msg(t, k).type = t /\ Msg(t, k).n = k
BY DEF Msg, Message

-----------------------------------------------------------------------------
(* Types, in two parts: the truth values, and the rest.                       *)

Flags == /\ running \in BOOLEAN /\ failed \in BOOLEAN
         /\ cable \in BOOLEAN /\ hostUp \in BOOLEAN

Threads == /\ caller \in {"idle", "close", "done"}
           /\ pc \in Places /\ backoff \in {250, 500, 1000, 2000}
           /\ sock \in {"none", "new", "open", "closed"}
           /\ pinger \in {"none", "check", "write"} /\ strays \in Nat
           /\ link \in {"none", "up", "closed", "cut"}

Data == /\ sessionId \in Nat /\ lastFrame \in Nat
        /\ got \in SUBSET Replies /\ offered \in Nat
        /\ toHost \in Seq(Hello)
        /\ toClient \in Seq(Message) /\ Len(toClient) <= Buffer /\ sent \in Nat
        /\ known \in SUBSET (1..granted) /\ granted \in Nat /\ faults \in 0..MaxFaults
        /\ late \in Nat /\ tries \in Nat

LEMMA TypeParts == TypeOK <=> Flags /\ Threads /\ Data
BY DEF TypeOK, Flags, Threads, Data, Hello, Message

LEMMA FlagsStep == Flags /\ Next => Flags'
<1> SUFFICES ASSUME Flags, Next PROVE Flags'
  OBVIOUS
<1>1. CASE Client
  <2>1. UNCHANGED <<running, cable, hostUp>>
    BY <1>1, Zenon DEF Client, CheckRunning, OpenSocket, Connect, ConnectFails, SayHello,
       WriteFails, ReadReply, ReadRefusal, HandshakeEnds, Establish, Pump, ReadFrame,
       ReadPong, Ack, PumpEnds, Finally, Catch, Sleep, stopper, world
  <2>2. failed' \in {failed, TRUE, FALSE}
    <3>1. CASE CheckRunning \/ OpenSocket \/ Connect \/ ConnectFails \/ SayHello \/ WriteFails
      BY <3>1, Zenon DEF CheckRunning, OpenSocket, Connect, ConnectFails, SayHello,
         WriteFails, Throw
    <3>2. CASE ReadReply \/ ReadRefusal \/ HandshakeEnds \/ Establish \/ ReadFrame \/ ReadPong
      BY <3>2, Zenon DEF ReadReply, ReadRefusal, HandshakeEnds, Establish, ReadFrame,
         ReadPong, Throw
    <3>3. CASE Pump \/ Ack \/ PumpEnds
      BY <3>3, Zenon DEF Pump, Ack, PumpEnds, Throw, Leave
    <3>4. CASE Finally \/ Catch \/ Sleep
      BY <3>4, Zenon DEF Finally, Catch, Sleep
    <3> QED
      BY <1>1, <3>1, <3>2, <3>3, <3>4, Zenon DEF Client
  <2> QED
    BY <2>1, <2>2, Zenon DEF Flags
<1>2. CASE Pingers
  BY <1>2, Zenon DEF Flags, Pingers, PingCheck, PingWrite, PingFails, StrayEnds, stopper,
     loop, world
<1>3. CASE ClearRunning \/ CloseSocket
  BY <1>3, Zenon DEF Flags, ClearRunning, CloseSocket, loop, world
<1>4. CASE World
  BY <1>4, Zenon DEF Flags, World, HostAnswers, HostReplies, HostSends, HostFrame, Unplug,
     Replug, HostDies, HostStarts, stopper, loop, world
<1> QED
  BY <1>1, <1>2, <1>3, <1>4 DEF Next

LEMMA ThreadsStep == Threads /\ Next => Threads'
<1> SUFFICES ASSUME Threads, Next PROVE Threads'
  OBVIOUS
<1> USE DEF Threads, Places, Pumping
<1>1. CASE CheckRunning \/ OpenSocket \/ Connect \/ ConnectFails \/ SayHello \/ WriteFails
  BY <1>1 DEF CheckRunning, OpenSocket, Connect, ConnectFails, SayHello, WriteFails, Goto,
     Throw, stopper, pingers, chan
<1>2. CASE ReadReply \/ ReadRefusal \/ HandshakeEnds \/ Establish
  BY <1>2 DEF ReadReply, ReadRefusal, HandshakeEnds, Establish, Goto, Throw, stopper,
     pingers, chan
<1>3. CASE Pump \/ ReadFrame \/ ReadPong \/ Ack \/ PumpEnds
  BY <1>3 DEF Pump, ReadFrame, ReadPong, Ack, PumpEnds, Goto, Throw, Leave, stopper,
     pingers, chan
<1>4. CASE Finally \/ Catch \/ Sleep
  BY <1>4 DEF Finally, Catch, Sleep, Goto, stopper, pingers, chan
<1>5. CASE Pingers
  BY <1>5 DEF Pingers, PingCheck, PingWrite, PingFails, StrayEnds, stopper, loop, chan
<1>6. CASE ClearRunning \/ CloseSocket
  BY <1>6 DEF ClearRunning, CloseSocket, loop, pingers, chan
<1>7. CASE World
  BY <1>7 DEF World, HostAnswers, HostReplies, HostSends, HostFrame, Unplug, Replug,
     HostDies, HostStarts, stopper, loop, pingers, chan
<1> QED
  BY <1>1, <1>2, <1>3, <1>4, <1>5, <1>6, <1>7 DEF Next, Client

LEMMA DataStep == Data /\ Next => Data'
<1> SUFFICES ASSUME Data, Next PROVE Data'
  OBVIOUS
<1> USE ClientAssumption DEF Data
<1>1. CASE \/ CheckRunning \/ Connect \/ ConnectFails \/ WriteFails \/ HandshakeEnds
           \/ Pump \/ Ack \/ PumpEnds \/ Finally \/ Catch
  BY <1>1 DEF CheckRunning, Connect, ConnectFails, WriteFails, HandshakeEnds, Pump, Ack,
     PumpEnds, Finally, Catch, fields, shake, chan, world, hist
<1>2. CASE OpenSocket
  BY <1>2 DEF OpenSocket, fields, world
<1>3. CASE Sleep
  BY <1>3 DEF Sleep, fields, shake, chan, world
<1>4. CASE Establish
  BY <1>4 DEF Establish, Deliver, fields, shake, chan, world
<1>5. CASE SayHello
  <2>1. [session |-> sessionId, last |-> IF sessionId # 0 THEN lastFrame ELSE 0] \in Hello
    BY DEF Hello
  <2>2. toHost' \in Seq(Hello)
    BY <1>5, <2>1 DEF SayHello
  <2> QED
    BY <1>5, <2>2 DEF SayHello, fields, shake, world, hist
<1>6. CASE ReadReply \/ ReadRefusal \/ ReadFrame \/ ReadPong
  <2>1. toClient # <<>> /\ toClient' = Tail(toClient)
    BY <1>6 DEF ReadReply, ReadRefusal, ReadFrame, ReadPong
  <2>2. Head(toClient) \in Message /\ toClient' \in Seq(Message) /\ Len(toClient') <= Buffer
    BY <2>1, QueueFacts
  <2>3. Head(toClient).n \in Nat
    BY <2>2 DEF Message
  <2>4. CASE ReadReply
    BY <2>2, <2>3, <2>4 DEF ReadReply, fields, world, hist
  <2>5. CASE ReadRefusal
    BY <2>2, <2>5 DEF ReadRefusal, shake, world, hist
  <2>6. CASE ReadFrame
    BY <2>2, <2>3, <2>6 DEF ReadFrame, Deliver, shake, world
  <2>7. CASE ReadPong
    BY <2>2, <2>7 DEF ReadPong, fields, shake, world, hist
  <2> QED
    BY <1>6, <2>4, <2>5, <2>6, <2>7
<1>7. ASSUME NEW t \in Replies \union {"unknown", "frame", "pong"}, NEW k \in Nat,
             Queue(Msg(t, k))
      PROVE  toClient' \in Seq(Message) /\ Len(toClient') <= Buffer
  <2> DEFINE m == Msg(t, k)
  <2>1. m \in Message
    BY MsgType
  <2>2. Len(toClient) < Buffer /\ toClient' = Append(toClient, m)
    BY <1>7 DEF Queue
  <2>3. Append(toClient, m) \in Seq(Message) /\ Len(Append(toClient, m)) = Len(toClient) + 1
    BY <2>1, QueueFacts
  <2>4. Len(toClient) \in Nat
    BY DEF Data
  <2> HIDE DEF m
  <2> QED
    BY <2>2, <2>3, <2>4
<1>8. CASE Pingers
  <2>1. toClient' = toClient \/ Queue(Msg("pong", 0))
    BY <1>8 DEF Pingers, PingCheck, PingWrite, PingFails, StrayEnds, chan
  <2>2. toClient' \in Seq(Message) /\ Len(toClient') <= Buffer
    BY <1>7, <2>1
  <2> QED
    BY <1>8, <2>2 DEF Pingers, PingCheck, PingWrite, PingFails, StrayEnds, fields, shake,
       chan, world, hist
<1>9. CASE ClearRunning \/ CloseSocket
  BY <1>9 DEF ClearRunning, CloseSocket, fields, shake, chan, world, hist
<1>10. CASE HostAnswers
  <2>1. PICK h \in Hello : h = Head(toHost)
    BY <1>10 DEF HostAnswers
  <2>2. Head(toHost).session \in Nat
    BY <2>1 DEF Hello
  <2>3. \/ Queue(Msg("ok", granted')) /\ granted' = granted + 1
        \/ Queue(Msg("ok", Head(toHost).session))
        \/ Queue(Msg("unknown", 0))
    BY <1>10 DEF HostAnswers
  <2>4. toClient' \in Seq(Message) /\ Len(toClient') <= Buffer
    BY <1>7, <2>2, <2>3 DEF Replies
  <2>5. known' \in SUBSET (1..granted') /\ granted' \in Nat /\ sent' \in Nat
    <3>1. \/ known' = known \union {granted + 1} /\ granted' = granted + 1 /\ sent' = 1
          \/ known' = known /\ granted' = granted /\ sent' \in {1, sent}
      BY <1>10 DEF HostAnswers
    <3>2. 1..granted \subseteq 1..(granted + 1) /\ granted + 1 \in 1..(granted + 1)
      OBVIOUS
    <3>3. sent' \in Nat /\ granted' \in Nat
      BY <3>1
    <3>4. known' \subseteq 1..granted'
      BY <3>1, <3>2
    <3> QED
      BY <3>3, <3>4
  <2> QED
    BY <1>10, <2>4, <2>5 DEF HostAnswers, fields, shake, hist
<1>11. CASE HostReplies \/ HostFrame
  <2>1. PICK t \in Replies \union {"frame"}, k \in Nat : HostSends(t, k)
    BY <1>11 DEF HostReplies, HostFrame, Replies
  <2>2. toClient' \in Seq(Message) /\ Len(toClient') <= Buffer
    BY <1>7, <2>1 DEF HostSends
  <2> QED
    BY <2>1, <2>2 DEF HostSends, fields, shake, world, hist
<1>12. CASE Unplug \/ Replug \/ HostDies \/ HostStarts
  <2>1. UNCHANGED <<sessionId, lastFrame, got, offered, toHost, toClient, sent, granted,
                    late, tries>>
    BY <1>12 DEF Unplug, Replug, HostDies, HostStarts, fields, shake, chan, hist
  <2>2. known' \subseteq known
    BY <1>12 DEF Unplug, Replug, HostDies, HostStarts
  <2>3. faults' \in 0..MaxFaults
    BY <1>12 DEF Unplug, Replug, HostDies, HostStarts
  <2> QED
    BY <2>1, <2>2, <2>3
<1> QED
  BY <1>1, <1>2, <1>3, <1>4, <1>5, <1>6, <1>8, <1>9, <1>10, <1>11, <1>12
  DEF Next, Client, World

(* Every variable keeps its type; the delay never exceeds its limit.           *)
THEOREM ClientTypeCorrect == Spec => []TypeOK
<1>1. Init => Flags /\ Threads /\ Data
  <2> SUFFICES ASSUME Init PROVE Flags /\ Threads /\ Data
    OBVIOUS
  <2>1. Flags
    BY Zenon DEF Init, Flags
  <2>2. Threads
    BY DEF Init, Threads, Places
  <2>3. Data
    BY ClientAssumption DEF Init, Data
  <2> QED
    BY <2>1, <2>2, <2>3
<1>2. (Flags /\ Threads /\ Data) /\ [Next]_vars => (Flags /\ Threads /\ Data)'
  <2> SUFFICES ASSUME Flags, Threads, Data, UNCHANGED vars
               PROVE  Flags' /\ Threads' /\ Data'
    BY FlagsStep, ThreadsStep, DataStep
  <2>1. Flags'
    BY Zenon DEF vars, stopper, loop, world, Flags
  <2>2. Threads' /\ Data'
    BY DEF vars, stopper, loop, fields, shake, pingers, chan, world, hist, Threads, Data
  <2> QED
    BY <2>1, <2>2
<1> QED
  BY <1>1, <1>2, TypeParts, PTL DEF Spec

-----------------------------------------------------------------------------
(* After stop.                                                               *)

(* The flag is never set again; where something late was handed over, the      *)
(* client is on its way out.                                                 *)
Leaving ==
    /\ late \in {0, 1}
    /\ running => late = 0
    /\ late = 1 => pc \in {"pump", "ack", "finally", "loop", "catch", "ended"}

(* A client that was late once only finds its way out.                        *)
THEOREM LeavingInvariant == Spec => []Leaving
<1> USE DEF Leaving
<1>1. Init => Leaving
  BY DEF Init
<1>2. Leaving /\ [Next]_vars => Leaving'
  <2> SUFFICES ASSUME Leaving, [Next]_vars PROVE Leaving'
    OBVIOUS
  <2>1. CASE \/ CheckRunning \/ OpenSocket \/ Connect \/ ConnectFails \/ SayHello
             \/ WriteFails
    BY <2>1 DEF CheckRunning, OpenSocket, Connect, ConnectFails, SayHello, WriteFails,
       Goto, Throw, stopper, hist
  <2>2. CASE ReadReply \/ ReadRefusal \/ HandshakeEnds \/ ReadPong \/ Ack \/ PumpEnds
    BY <2>2 DEF ReadReply, ReadRefusal, HandshakeEnds, ReadPong, Ack, PumpEnds, Goto,
       Throw, Leave, stopper, hist
  <2>3. CASE Establish \/ ReadFrame
    BY <2>3 DEF Establish, ReadFrame, Deliver, Goto, stopper
  <2>4. CASE Pump \/ Finally \/ Catch \/ Sleep
    BY <2>4 DEF Pump, Finally, Catch, Sleep, Goto, Leave, stopper, hist
  <2>5. CASE Pingers
    BY <2>5 DEF Pingers, PingCheck, PingWrite, PingFails, StrayEnds, stopper, loop, hist
  <2>6. CASE ClearRunning \/ CloseSocket
    BY <2>6 DEF ClearRunning, CloseSocket, loop, hist
  <2>7. CASE World
    BY <2>7 DEF World, HostAnswers, HostReplies, HostSends, HostFrame, Unplug, Replug,
       HostDies, HostStarts, stopper, loop, hist
  <2>8. CASE UNCHANGED vars
    BY <2>8 DEF vars, stopper, loop, hist
  <2> QED
    BY <2>1, <2>2, <2>3, <2>4, <2>5, <2>6, <2>7, <2>8 DEF Next, Client
<1> QED
  BY <1>1, <1>2, PTL DEF Spec

(* After stop at most one session or frame is handed to the activity.         *)
THEOREM OneLate == Spec => []AtMostOneLate
<1>1. Leaving => AtMostOneLate
  BY DEF Leaving, AtMostOneLate
<1> QED
  BY <1>1, LeavingInvariant, PTL

-----------------------------------------------------------------------------
(* Pace.                                                                     *)

(* A new round begins after a delay or a session; so does a clean end.         *)
Paced ==
    /\ tries \in {0, 1}
    /\ pc \in {"loop", "new"} \union Pumping => tries = 0
    /\ pc = "finally" /\ ~failed => tries = 0

(* Attempts that fail are kept apart by the delay.                            *)
THEOREM PacedInvariant == Spec => []Paced
<1> USE DEF Paced, Pumping
<1>1. Init => Paced
  BY DEF Init
<1>2. Paced /\ [Next]_vars => Paced'
  <2> SUFFICES ASSUME Paced, [Next]_vars PROVE Paced'
    OBVIOUS
  <2>1. CASE CheckRunning \/ OpenSocket \/ Connect \/ SayHello
    BY <2>1 DEF CheckRunning, OpenSocket, Connect, SayHello, Goto, hist
  <2>2. CASE ConnectFails \/ WriteFails \/ ReadRefusal \/ HandshakeEnds
    BY <2>2 DEF ConnectFails, WriteFails, ReadRefusal, HandshakeEnds, Throw, hist
  <2>3. CASE ReadReply \/ Establish \/ ReadFrame \/ ReadPong \/ Ack
    BY <2>3 DEF ReadReply, Establish, ReadFrame, ReadPong, Ack, Goto, hist
  <2>4. CASE Pump \/ PumpEnds
    BY <2>4 DEF Pump, PumpEnds, Goto, Throw, Leave, hist
  <2>5. CASE Finally \/ Catch \/ Sleep
    BY <2>5 DEF Finally, Catch, Sleep, Goto, hist
  <2>6. CASE Pingers
    BY <2>6 DEF Pingers, PingCheck, PingWrite, PingFails, StrayEnds, loop, hist
  <2>7. CASE ClearRunning \/ CloseSocket
    BY <2>7 DEF ClearRunning, CloseSocket, loop, hist
  <2>8. CASE World
    BY <2>8 DEF World, HostAnswers, HostReplies, HostSends, HostFrame, Unplug, Replug,
       HostDies, HostStarts, loop, hist
  <2>9. CASE UNCHANGED vars
    BY <2>9 DEF vars, loop, hist
  <2> QED
    BY <2>1, <2>2, <2>3, <2>4, <2>5, <2>6, <2>7, <2>8, <2>9 DEF Next, Client
<1> QED
  BY <1>1, <1>2, PTL DEF Spec

(* The client never tries in a busy loop.                                     *)
THEOREM NeverBusy == Spec => []NoBusyRetry
<1>1. Paced => NoBusyRetry
  BY DEF Paced, NoBusyRetry
<1> QED
  BY <1>1, PacedInvariant, PTL

-----------------------------------------------------------------------------
(* Sockets.                                                                  *)

(* NoSocketLeft is inductive.                                                *)
LEMMA SocketStep == NoSocketLeft /\ [Next]_vars => NoSocketLeft'
<1> SUFFICES ASSUME NoSocketLeft, [Next]_vars PROVE NoSocketLeft'
  OBVIOUS
<1> USE DEF NoSocketLeft
<1>1. CASE CheckRunning \/ OpenSocket \/ Connect \/ SayHello
  BY <1>1 DEF CheckRunning, OpenSocket, Connect, SayHello, Goto, chan
<1>2. CASE ConnectFails \/ WriteFails \/ ReadRefusal \/ HandshakeEnds
  BY <1>2 DEF ConnectFails, WriteFails, ReadRefusal, HandshakeEnds, Throw
<1>3. CASE ReadReply \/ Establish \/ ReadFrame \/ ReadPong \/ Ack
  BY <1>3 DEF ReadReply, Establish, ReadFrame, ReadPong, Ack, Goto
<1>4. CASE Pump \/ PumpEnds
  BY <1>4 DEF Pump, PumpEnds, Goto, Throw, Leave
<1>5. CASE Finally \/ Catch \/ Sleep
  BY <1>5 DEF Finally, Catch, Sleep, Goto, chan
<1>6. CASE Pingers
  BY <1>6 DEF Pingers, PingCheck, PingWrite, PingFails, StrayEnds, loop, chan
<1>7. CASE ClearRunning \/ CloseSocket
  BY <1>7 DEF ClearRunning, CloseSocket, loop, chan
<1>8. CASE World
  BY <1>8 DEF World, HostAnswers, HostReplies, HostSends, HostFrame, Unplug, Replug,
     HostDies, HostStarts, loop, chan
<1>9. CASE UNCHANGED vars
  BY <1>9 DEF vars, loop, chan
<1> QED
  BY <1>1, <1>2, <1>3, <1>4, <1>5, <1>6, <1>7, <1>8, <1>9 DEF Next, Client

(* Wherever stop meets the client, no connection is kept outside an attempt    *)
(* and none is left when it has ended.                                       *)
THEOREM NothingLeft == Spec => []NoSocketLeft
<1>1. Init => NoSocketLeft
  BY DEF Init, NoSocketLeft
<1> QED
  BY <1>1, SocketStep, PTL DEF Spec

-----------------------------------------------------------------------------
(* Agreement about the session.                                              *)

(* Over a connection that stands, the offers that wait to be read, the offer    *)
(* that was read and the session that is pumped are those of the process at   *)
(* the other end.  A new socket has nothing of an earlier one.                *)
Fresh ==
    /\ pc = "connect" => link = "none" /\ toClient = <<>> /\ got = {}
    /\ pc = "session" => "ok" \in got
    /\ link = "up" =>
           /\ \A i \in 1..Len(toClient) : toClient[i].type = "ok" => toClient[i].n \in known
           /\ "ok" \in got => offered \in known
           /\ pc \in Pumping => sessionId \in known

(* What waits stays good when a message is read, and when one is added that is. *)
LEMMA OffersStayGood ==
    ASSUME Data,
           \A i \in 1..Len(toClient) : toClient[i].type = "ok" => toClient[i].n \in known
    PROVE  /\ toClient # <<>> /\ toClient' = Tail(toClient) /\ known' = known =>
                  /\ \A i \in 1..Len(toClient') :
                         toClient'[i].type = "ok" => toClient'[i].n \in known'
                  /\ Head(toClient).type = "ok" => Head(toClient).n \in known
           /\ \A m \in Message :
                  /\ toClient' = Append(toClient, m) /\ known \subseteq known'
                  /\ m.type = "ok" => m.n \in known'
                  => \A i \in 1..Len(toClient') :
                         toClient'[i].type = "ok" => toClient'[i].n \in known'
<1>1. ASSUME toClient # <<>>, toClient' = Tail(toClient), known' = known
      PROVE  /\ \A i \in 1..Len(toClient') :
                    toClient'[i].type = "ok" => toClient'[i].n \in known'
             /\ Head(toClient).type = "ok" => Head(toClient).n \in known
  BY <1>1, QueueFacts DEF Data
<1>2. ASSUME NEW m \in Message, toClient' = Append(toClient, m), known \subseteq known',
             m.type = "ok" => m.n \in known'
      PROVE  \A i \in 1..Len(toClient') :
                 toClient'[i].type = "ok" => toClient'[i].n \in known'
  <2>1. /\ Len(toClient') = Len(toClient) + 1 /\ Len(toClient) \in Nat
        /\ \A i \in 1..Len(toClient) : toClient'[i] = toClient[i]
        /\ toClient'[Len(toClient) + 1] = m
    BY <1>2, QueueFacts DEF Data
  <2> SUFFICES ASSUME NEW i \in 1..Len(toClient'), toClient'[i].type = "ok"
               PROVE  toClient'[i].n \in known'
    OBVIOUS
  <2>2. CASE i \in 1..Len(toClient)
    BY <1>2, <2>1, <2>2
  <2>3. CASE i = Len(toClient) + 1
    BY <1>2, <2>1, <2>3
  <2> QED
    BY <2>1, <2>2, <2>3
<1> QED
  BY <1>1, <1>2

(* The session is agreed on over every connection anew.                       *)
THEOREM FreshInvariant == Spec => []Fresh
<1> USE DEF Fresh
<1>1. Init => Fresh
  BY DEF Init, Pumping
<1>2. TypeOK /\ NoSocketLeft /\ Fresh /\ [Next]_vars => Fresh'
  <2> SUFFICES ASSUME TypeOK, NoSocketLeft, Fresh, [Next]_vars PROVE Fresh'
    OBVIOUS
  <2> USE DEF Pumping
  <2>1. Data
    BY TypeParts
  <2>2. CASE OpenSocket
    BY <2>2 DEF OpenSocket, Goto, NoSocketLeft
  <2>3. CASE Connect
    BY <2>3 DEF Connect, Goto, shake
  <2>4. CASE CheckRunning \/ SayHello \/ Catch \/ Sleep
    BY <2>4 DEF CheckRunning, SayHello, Catch, Sleep, Goto, fields, shake, chan, world
  <2>5. CASE ConnectFails \/ WriteFails \/ HandshakeEnds \/ PumpEnds
    BY <2>5 DEF ConnectFails, WriteFails, HandshakeEnds, PumpEnds, Throw, Leave, fields,
       shake, chan, world
  <2>6. CASE Pump \/ Ack
    BY <2>6 DEF Pump, Ack, Goto, Leave, fields, shake, chan, world
  <2>7. CASE Finally
    BY <2>7 DEF Finally, Goto
  <2>8. CASE Establish
    BY <2>8 DEF Establish, Goto, shake, chan, world
  <2>9. CASE ReadReply
    <3>1. /\ toClient # <<>> /\ toClient' = Tail(toClient)
          /\ UNCHANGED <<known, link, sessionId>>
          /\ got' = got \union {Head(toClient).type}
          /\ offered' = IF Head(toClient).type = "ok" THEN Head(toClient).n ELSE offered
          /\ pc' \in {"session", "replies"} /\ (pc' = "session" => got' = Replies)
      BY <2>9 DEF ReadReply, fields, world
    <3> QED
      BY <2>1, <3>1, OffersStayGood DEF Replies
  <2>10. CASE ReadRefusal
    <3>1. /\ toClient # <<>> /\ toClient' = Tail(toClient) /\ pc' = "finally"
          /\ UNCHANGED <<known, link, got, offered>>
      BY <2>10 DEF ReadRefusal, Throw, shake, world
    <3> QED
      BY <2>1, <3>1, OffersStayGood
  <2>11. CASE ReadFrame \/ ReadPong
    <3>1. /\ toClient # <<>> /\ toClient' = Tail(toClient)
          /\ pc = "read" /\ pc' \in {"pump", "ack"}
          /\ UNCHANGED <<known, link, got, offered, sessionId>>
      BY <2>11 DEF ReadFrame, ReadPong, Goto, fields, shake, world
    <3> QED
      BY <2>1, <3>1, OffersStayGood
  <2>12. CASE Pingers
    <3>1. /\ UNCHANGED <<pc, known, link, got, offered, sessionId>>
          /\ \/ toClient' = toClient
             \/ link = "up" /\ toClient' = Append(toClient, Msg("pong", 0))
      BY <2>12 DEF Pingers, PingCheck, PingWrite, PingFails, StrayEnds, Queue, loop,
         fields, shake, chan, world
    <3>2. Msg("pong", 0) \in Message /\ Msg("pong", 0).type # "ok"
      <4>1. "pong" \in Replies \union {"unknown", "frame", "pong"} /\ 0 \in Nat
        OBVIOUS
      <4>2. Msg("pong", 0) \in Message /\ Msg("pong", 0).type = "pong"
        BY <4>1, MsgType
      <4> QED
        BY <4>2
    <3> QED
      BY <2>1, <3>1, <3>2, OffersStayGood
  <2>13. CASE ClearRunning \/ CloseSocket
    BY <2>13 DEF ClearRunning, CloseSocket, loop, fields, shake, chan, world
  <2>14. CASE HostAnswers
    <3>1. /\ link = "up" /\ UNCHANGED <<pc, got, offered, sessionId>>
          /\ \/ link' = "closed"
             \/ \E id \in known' : /\ toClient' = Append(toClient, Msg("ok", id))
                                   /\ known \subseteq known'
      BY <2>14 DEF HostAnswers, Queue, loop, fields, shake
    <3>2. CASE link' = "closed"
      BY <3>1, <3>2
    <3>3. ASSUME NEW id \in known', toClient' = Append(toClient, Msg("ok", id)),
                 known \subseteq known'
          PROVE  Fresh'
      <4>1. id \in Nat
        BY <2>1, <2>14, DataStep DEF Next, World, Data
      <4>2. Msg("ok", id) \in Message /\ Msg("ok", id).n = id
        BY <4>1, MsgType DEF Replies
      <4>3. \A i \in 1..Len(toClient') :
                toClient'[i].type = "ok" => toClient'[i].n \in known'
        BY <2>1, <3>1, <3>3, <4>2, OffersStayGood
      <4> QED
        BY <3>1, <3>3, <4>3
    <3> QED
      BY <3>1, <3>2, <3>3
  <2>15. CASE HostReplies \/ HostFrame
    <3>1. PICK t \in {"display", "config", "frame"}, k \in Nat : HostSends(t, k)
      BY <2>1, <2>15 DEF HostReplies, HostFrame, Data
    <3>2. Msg(t, k) \in Message /\ Msg(t, k).type # "ok"
      BY MsgType DEF Replies
    <3>3. /\ link = "up" /\ toClient' = Append(toClient, Msg(t, k))
          /\ UNCHANGED <<pc, known, link, got, offered, sessionId>>
      BY <3>1 DEF HostSends, Queue, loop, fields, shake, world
    <3> QED
      BY <2>1, <3>2, <3>3, OffersStayGood
  <2>16. CASE Unplug \/ Replug \/ HostDies \/ HostStarts
    BY <2>16 DEF Unplug, Replug, HostDies, HostStarts, loop, fields, shake, chan
  <2>17. CASE UNCHANGED vars
    BY <2>17 DEF vars, loop, fields, shake, chan, world
  <2> QED
    BY <2>2, <2>3, <2>4, <2>5, <2>6, <2>7, <2>8, <2>9, <2>10, <2>11, <2>12, <2>13, <2>14,
       <2>15, <2>16, <2>17 DEF Next, Client, World
<1> QED
  BY <1>1, <1>2, ClientTypeCorrect, NothingLeft, PTL DEF Spec

(* A session is pumped only over the connection, and with the host process,     *)
(* that granted or confirmed it.                                             *)
THEOREM SessionAgreed == Spec => []Agreed
<1>1. Fresh => Agreed
  BY DEF Fresh, Agreed
<1> QED
  BY <1>1, FreshInvariant, PTL

-----------------------------------------------------------------------------
(* The client beside the keeper.                                             *)

(* Every step of the composition is one of the client's model: a keeper that    *)
(* installs the tunnel is its Replug, a pull of the phone its Unplug, or        *)
(* nothing where there was no tunnel.                                        *)
LEMMA ClientPart == RSpec => Spec
<1>1. RInit => Init
  BY DEF RInit
<1>2. [RNext]_allVars => [Next]_vars
  <2> SUFFICES ASSUME [RNext]_allVars PROVE [Next]_vars
    OBVIOUS
  <2>1. CASE KeepTunnel
    BY <2>1 DEF KeepTunnel, Install, Next, World
  <2>2. CASE Pull
    BY <2>2 DEF Pull, Next, World
  <2>3. CASE Plug
    BY <2>3 DEF Plug
  <2>4. CASE Rest
    BY <2>4 DEF Rest, Next, World
  <2>5. CASE UNCHANGED allVars
    BY <2>5 DEF allVars
  <2> QED
    BY <2>1, <2>2, <2>3, <2>4, <2>5 DEF RNext
<1> QED
  BY <1>1, <1>2, PTL DEF RSpec, Spec

-----------------------------------------------------------------------------
(* The keeper's side.  Of the client it needs only what becomes of the cable.  *)

LEMMA RestKeepsTunnel == Rest => UNCHANGED K!vars
<1> SUFFICES ASSUME Rest PROVE UNCHANGED cable
  BY DEF Rest, K!vars, keeperVars
<1>1. CASE Client
  BY <1>1, Zenon DEF Client, CheckRunning, OpenSocket, Connect, ConnectFails, SayHello,
     WriteFails, ReadReply, ReadRefusal, HandshakeEnds, Establish, Pump, ReadFrame,
     ReadPong, Ack, PumpEnds, Finally, Catch, Sleep, world
<1>2. CASE Pingers
  BY <1>2 DEF Pingers, PingCheck, PingWrite, PingFails, StrayEnds, world
<1>3. CASE ClearRunning \/ CloseSocket
  BY <1>3 DEF ClearRunning, CloseSocket, world
<1>4. CASE HostAnswers \/ HostReplies \/ HostFrame
  BY <1>4 DEF HostAnswers, HostReplies, HostFrame, HostSends, world
<1>5. CASE HostDies \/ HostStarts
  BY <1>5 DEF HostDies, HostStarts
<1> QED
  BY <1>1, <1>2, <1>3, <1>4, <1>5 DEF Rest

LEMMA KeeperStep == [RNext]_allVars => [K!Next]_(K!vars)
<1> SUFFICES ASSUME [RNext]_allVars PROVE K!Next \/ UNCHANGED K!vars
  OBVIOUS
<1>1. CASE KeepTunnel
  BY <1>1 DEF KeepTunnel, Install, K!Next
<1>2. CASE Pull \/ Plug
  BY <1>2 DEF Pull, Plug, K!Next
<1>3. CASE Rest
  BY <1>3, RestKeepsTunnel
<1>4. CASE UNCHANGED allVars
  BY <1>4 DEF allVars, vars, world, keeperVars, K!vars
<1> QED
  BY <1>1, <1>2, <1>3, <1>4 DEF RNext

(* There is no tunnel without a phone.                                       *)
THEOREM TunnelNeedsPhone == RSpec => []KeeperTypeOK
<1>1. RInit => KeeperTypeOK
  BY DEF RInit, KeeperTypeOK, K!Init, K!TypeOK
<1>2. KeeperTypeOK /\ [RNext]_allVars => KeeperTypeOK'
  <2> SUFFICES ASSUME KeeperTypeOK, K!Next \/ UNCHANGED K!vars PROVE KeeperTypeOK'
    BY KeeperStep
  <2>1. CASE K!WaitForDevice \/ K!InstallFails \/ K!Look
    <3>1. plugged' = plugged /\ cable' = cable /\ missed' = missed
      BY <2>1 DEF K!WaitForDevice, K!InstallFails, K!Look
    <3>2. keeper' \in {"install", "dead", "wait"}
      BY <2>1 DEF K!WaitForDevice, K!InstallFails, K!Look, K!At
    <3> QED
      BY <3>1, <3>2, Zenon DEF KeeperTypeOK, K!TypeOK
  <2>2. CASE K!InstallTunnel
    BY <2>2, Zenon DEF KeeperTypeOK, K!TypeOK, K!InstallTunnel, K!At
  <2>3. CASE K!Pull
    BY <2>3, Zenon DEF KeeperTypeOK, K!TypeOK, K!Pull
  <2>4. CASE K!Plug
    BY <2>4, Zenon DEF KeeperTypeOK, K!TypeOK, K!Plug
  <2>5. CASE UNCHANGED K!vars
    BY <2>5, Zenon DEF KeeperTypeOK, K!TypeOK, K!vars
  <2> QED
    BY <2>1, <2>2, <2>3, <2>4, <2>5, Zenon DEF K!Next
<1> QED
  BY <1>1, <1>2, PTL DEF RSpec

(* A script that watches has not lost the tunnel of a plugged phone, unless the *)
(* phone was gone for so short that no look fell in between.                  *)
THEOREM OnlyAMissLoses == RSpec => []TunnelUnlessMissed
<1>1. RInit => TunnelUnlessMissed
  BY DEF RInit, TunnelUnlessMissed, K!TunnelUnlessMissed, K!Init
<1>2. TunnelUnlessMissed /\ [RNext]_allVars => TunnelUnlessMissed'
  <2> SUFFICES ASSUME TunnelUnlessMissed, K!Next \/ UNCHANGED K!vars
               PROVE  TunnelUnlessMissed'
    BY KeeperStep
  <2> QED
    BY DEF TunnelUnlessMissed, K!TunnelUnlessMissed, K!Next, K!WaitForDevice,
       K!InstallTunnel, K!InstallFails, K!Look, K!Pull, K!Plug, K!At, K!vars
<1> QED
  BY <1>1, <1>2, PTL DEF RSpec

-----------------------------------------------------------------------------
(* What the client guarantees against any cable it guarantees with this one:   *)
(* it never calls in a busy loop, pumps only sessions its host granted, leaves  *)
(* no connection behind, and hands over one thing at most after stop.          *)
THEOREM ClientIsSafe == RSpec => []ClientSafe
<1> QED
  BY ClientPart, ClientTypeCorrect, NeverBusy, SessionAgreed, NothingLeft, OneLate, PTL
  DEF ClientSafe

(* The keeper's state is typed, and only an unseen replug loses its tunnel.     *)
THEOREM KeeperIsSafe == RSpec => []KeeperSafe
  BY TunnelNeedsPhone, OnlyAMissLoses, PTL DEF KeeperSafe
=============================================================================
