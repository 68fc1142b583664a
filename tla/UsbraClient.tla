----------------------------- MODULE UsbraClient ------------------------------
(***************************************************************************)
(* The network client of the phone (UsbraClient.kt): a thread that connects,   *)
(* shakes hands, pumps messages and, when the connection ends, backs off and   *)
(* starts again; a ping thread for each session; and stop(), which the        *)
(* activity calls on another thread.  The cable is unplugged and the host      *)
(* restarted under it at any moment.                                         *)
(*                                                                         *)
(* Host and cable are the environment, as far as the client can tell: the      *)
(* handshake as handle_conn answers it, frames, pongs.  Time is left out, but   *)
(* for the delay between attempts.                                           *)
(***************************************************************************)
EXTENDS Integers, Sequences

CONSTANTS
    MaxFaults,      \* bound: cables pulled and hosts restarted
    MaxFrames,      \* bound: frames per connection
    Buffer          \* messages on their way to the client

ASSUME ClientAssumption == MaxFaults \in Nat /\ MaxFrames \in Nat /\ Buffer \in Nat

VARIABLES
    running, caller,                    \* stop(): the flag, and its caller
    pc, failed, backoff,                \* runLoop
    sessionId, lastFrame,               \* the client's fields
    sock,                               \* what its field socket refers to
    got, offered,                       \* replies read; the session they offer
    pinger, strays,                     \* the ping thread; those of dead sockets
    link, toHost, toClient, sent,       \* the connection as host and cable have it
    cable, hostUp, known, granted,      \* tunnel, host process and its sessions
    faults,
    late, tries                         \* history, see the properties

stopper == <<running, caller>>
loop    == <<pc, failed, backoff>>
fields  == <<sessionId, lastFrame>>
shake   == <<got, offered>>
pingers == <<pinger, strays>>
chan    == <<link, toHost, toClient, sent>>
world   == <<cable, hostUp, known, granted, faults>>
hist    == <<late, tries>>
vars    == <<stopper, loop, fields, sock, shake, pingers, chan, world, hist>>

Replies == {"ok", "display", "config"}
Msg(type, n) == [type |-> type, n |-> n]

Init ==
    /\ running = TRUE /\ caller = "idle"
    /\ pc = "loop" /\ failed = FALSE /\ backoff = 250
    /\ sessionId = 0 /\ lastFrame = 0
    /\ sock = "none"
    /\ got = {} /\ offered = 0
    /\ pinger = "none" /\ strays = 0
    /\ link = "none" /\ toHost = <<>> /\ toClient = <<>> /\ sent = 0
    /\ cable \in BOOLEAN /\ hostUp \in BOOLEAN /\ known = {} /\ granted = 0 /\ faults = 0
    /\ late = 0 /\ tries = 0

Goto(from, to) == pc = from /\ pc' = to

(* An exception on its way to runLoop; a return from connectAndPump.          *)
Throw == pc' = "finally" /\ failed' = TRUE
Leave == pc' = "finally" /\ failed' = FALSE

(* Something handed to the events, late if the client was stopped before.     *)
Deliver == late' = IF running THEN late ELSE late + 1

Broken == sock = "closed" \/ link = "cut"

(* The host has something for the client.                                    *)
Queue(msg) == Len(toClient) < Buffer /\ toClient' = Append(toClient, msg)

-----------------------------------------------------------------------------
(* connectAndPump.                                                           *)

CheckRunning == /\ Goto("loop", IF running THEN "new" ELSE "ended")
                /\ UNCHANGED <<stopper, failed, backoff, fields, sock, shake, pingers,
                               chan, world, hist>>

(* From here the socket that stop would close is the new one.                 *)
OpenSocket == /\ Goto("new", "connect")
              /\ sock' = "new"
              /\ got' = {} /\ offered' = 0
              /\ toHost' = <<>> /\ toClient' = <<>> /\ sent' = 0
              /\ tries' = tries + 1
              /\ UNCHANGED <<stopper, failed, backoff, fields, pingers, link, world,
                             late>>

(* With the tunnel up adbd accepts, and closes if there is no host behind it. *)
Connect == /\ Goto("connect", "hello")
           /\ sock = "new" /\ cable
           /\ sock' = "open"
           /\ link' = IF hostUp THEN "up" ELSE "cut"
           /\ UNCHANGED <<stopper, failed, backoff, fields, shake, pingers, toHost,
                          toClient, sent, world, hist>>

ConnectFails == /\ pc = "connect"
                /\ sock = "closed" \/ ~cable
                /\ Throw
                /\ UNCHANGED <<stopper, backoff, fields, sock, shake, pingers, chan,
                               world, hist>>

(* RECONNECT if a session is known, else HELLO.                               *)
SayHello == /\ Goto("hello", "replies")
            /\ sock = "open"
            /\ toHost' = Append(toHost, [session |-> sessionId,
                                         last |-> IF sessionId # 0 THEN lastFrame ELSE 0])
            /\ UNCHANGED <<stopper, failed, backoff, fields, sock, shake, pingers, link,
                           toClient, sent, world, hist>>

(* A write fails once the connection is gone, if not at once.                 *)
WriteFails == /\ pc = "hello" \/ pc = "ack"
              /\ Broken
              /\ Throw
              /\ UNCHANGED <<stopper, backoff, fields, sock, shake, pingers, chan, world,
                             hist>>

ReadReply == /\ pc = "replies"
             /\ toClient # <<>> /\ Head(toClient).type \in Replies
             /\ got' = got \union {Head(toClient).type}
             /\ offered' = IF Head(toClient).type = "ok" THEN Head(toClient).n ELSE offered
             /\ toClient' = Tail(toClient)
             /\ pc' = IF got' = Replies THEN "session" ELSE "replies"
             /\ UNCHANGED <<stopper, failed, backoff, fields, sock, pingers, link, toHost,
                            sent, world, hist>>

\* Fault: the session the host does not know is kept.
ReadRefusalFault == /\ pc = "replies"
                    /\ toClient # <<>> /\ Head(toClient).type = "unknown"
                    /\ toClient' = Tail(toClient)
                    /\ Throw
                    /\ UNCHANGED <<stopper, backoff, fields, sock, shake, pingers, link,
                                   toHost, sent, world, hist>>

(* DISCONNECT(UNKNOWN_SESSION): the next attempt begins anew.  The host has no *)
(* other reason to refuse this client.                                       *)
ReadRefusal == /\ pc = "replies"
               /\ toClient # <<>> /\ Head(toClient).type = "unknown"
               /\ sessionId' = 0
               /\ toClient' = Tail(toClient)
               /\ Throw
               /\ UNCHANGED <<stopper, backoff, lastFrame, sock, shake, pingers,
                               link, toHost, sent, world, hist>>

(* End of the stream while replies are awaited, clean or not: an exception.   *)
NoMore == \/ Broken
          \/ link = "closed" /\ toClient = <<>>

\* Fault: a clean end of the stream is no exception.
HandshakeEndsFault == /\ pc = "replies"
                      /\ NoMore
                      /\ Leave
                      /\ UNCHANGED <<stopper, backoff, fields, sock, shake, pingers, chan,
                                     world, hist>>

HandshakeEnds == /\ pc = "replies"
                 /\ NoMore
                 /\ Throw
                 /\ UNCHANGED <<stopper, backoff, fields, sock, shake, pingers, chan,
                                world, hist>>

(* All three replies are there: onSession, and the ping thread.               *)
Establish == /\ Goto("session", "pump")
             /\ sessionId' = offered
             /\ pinger' = "check"
             /\ tries' = 0
             /\ Deliver
             /\ UNCHANGED <<stopper, failed, backoff, lastFrame, sock, shake, strays,
                            chan, world>>

\* Fault: the pump does not look at running.
PumpFault == /\ Goto("pump", "read")
             /\ UNCHANGED <<stopper, failed, backoff, fields, sock, shake, pingers, chan,
                            world, hist>>

Pump == /\ pc = "pump"
        /\ IF running THEN pc' = "read" /\ UNCHANGED failed ELSE Leave
        /\ UNCHANGED <<stopper, backoff, fields, sock, shake, pingers, chan, world, hist>>

(* A frame is delivered, and acknowledged if CONFIG asked for it.             *)
ReadFrame == /\ pc = "read"
             /\ toClient # <<>> /\ Head(toClient).type = "frame"
             /\ lastFrame' = Head(toClient).n
             /\ toClient' = Tail(toClient)
             /\ pc' \in {"ack", "pump"}
             /\ Deliver
             /\ UNCHANGED <<stopper, failed, backoff, sessionId, sock, shake, pingers,
                             link, toHost, sent, world, tries>>

ReadPong == /\ Goto("read", "pump")
            /\ toClient # <<>> /\ Head(toClient).type = "pong"
            /\ toClient' = Tail(toClient)
            /\ UNCHANGED <<stopper, failed, backoff, fields, sock, shake, pingers, link,
                           toHost, sent, world, hist>>

Ack == /\ Goto("ack", "pump")
       /\ sock = "open"
       /\ UNCHANGED <<stopper, failed, backoff, fields, sock, shake, pingers, chan, world,
                      hist>>

(* The stream ends: in an exception, or cleanly if it was not closed here.    *)
PumpEnds == /\ pc = "read"
            /\ NoMore
            /\ Throw \/ (sock = "open" /\ Leave)
            /\ UNCHANGED <<stopper, backoff, fields, sock, shake, pingers, chan, world,
                           hist>>

\* Fault: the socket is closed only after an exception.
FinallyFault == /\ Goto("finally", IF failed THEN "catch" ELSE "loop")
                /\ IF failed THEN sock' = "closed" /\ link' = "none"
                             ELSE UNCHANGED <<sock, link>>
                /\ backoff' = IF failed THEN backoff ELSE 250
                /\ pinger' = "none"
                /\ strays' = IF pinger = "none" THEN strays ELSE strays + 1
                /\ UNCHANGED <<stopper, failed, fields, shake, toHost, toClient, sent,
                               world, hist>>

(* The socket is closed.  Its ping thread finds out by itself.  A session that *)
(* ended cleanly resets the delay.                                           *)
Finally == /\ Goto("finally", IF failed THEN "catch" ELSE "loop")
           /\ sock' = "closed" /\ link' = "none"
           /\ backoff' = IF failed THEN backoff ELSE 250
           /\ pinger' = "none"
           /\ strays' = IF pinger = "none" THEN strays ELSE strays + 1
           /\ UNCHANGED <<stopper, failed, fields, shake, toHost, toClient, sent, world,
                          hist>>

-----------------------------------------------------------------------------
(* runLoop's catch.                                                          *)

Catch == /\ Goto("catch", IF running THEN "sleep" ELSE "ended")
         /\ UNCHANGED <<stopper, failed, backoff, fields, sock, shake, pingers, chan,
                        world, hist>>

\* Fault: the delay is doubled without a limit.
SleepFault == /\ Goto("sleep", "loop")
              /\ backoff' = 2 * backoff
              /\ tries' = 0
              /\ UNCHANGED <<stopper, failed, fields, sock, shake, pingers, chan, world,
                             late>>

Sleep == /\ Goto("sleep", "loop")
         /\ backoff' = IF 2 * backoff < 2000 THEN 2 * backoff ELSE 2000
         /\ tries' = 0
         /\ UNCHANGED <<stopper, failed, fields, sock, shake, pingers, chan, world,
                        late>>

Client == \/ CheckRunning \/ OpenSocket \/ Connect \/ ConnectFails \/ SayHello
          \/ WriteFails \/ ReadReply \/ ReadRefusal \/ HandshakeEnds \/ Establish
          \/ Pump \/ ReadFrame \/ ReadPong \/ Ack \/ PumpEnds \/ Finally \/ Catch
          \/ Sleep

-----------------------------------------------------------------------------
(* The ping threads.  Socket.isConnected stays true for ever: one ends when   *)
(* its client is stopped, or at its first write to a dead socket.             *)

PingCheck == /\ pinger = "check"
             /\ pinger' = IF running THEN "write" ELSE "none"
             /\ UNCHANGED <<stopper, loop, fields, sock, shake, strays, chan, world, hist>>

(* The host answers, unless its queue is full.                                *)
PingWrite == /\ pinger = "write"
             /\ sock = "open"
             /\ pinger' = "check"
             /\ \/ UNCHANGED toClient
                \/ link = "up" /\ Queue(Msg("pong", 0))
             /\ UNCHANGED <<stopper, loop, fields, sock, shake, strays, link, toHost, sent,
                            world, hist>>

PingFails == /\ pinger = "write"
             /\ Broken
             /\ pinger' = "none"
             /\ UNCHANGED <<stopper, loop, fields, sock, shake, strays, chan, world, hist>>

StrayEnds == /\ strays > 0
             /\ strays' = strays - 1
             /\ UNCHANGED <<stopper, loop, fields, sock, shake, pinger, chan, world, hist>>

Pingers == PingCheck \/ PingWrite \/ PingFails \/ StrayEnds

-----------------------------------------------------------------------------
(* stop(), in two steps: another thread may come between them.                *)

ClearRunning == /\ caller = "idle"
                /\ caller' = "close"
                /\ running' = FALSE
                /\ UNCHANGED <<loop, fields, sock, shake, pingers, chan, world, hist>>

\* Fault: stop leaves the socket to the client thread.
CloseSocketFault == /\ caller = "close"
                    /\ caller' = "done"
                    /\ UNCHANGED <<running, loop, fields, sock, shake, pingers, chan,
                                   world, hist>>

CloseSocket == /\ caller = "close"
               /\ caller' = "done"
               /\ sock' = IF sock = "none" THEN "none" ELSE "closed"
               /\ link' = IF link = "none" THEN "none" ELSE "cut"
               /\ UNCHANGED <<running, loop, fields, shake, pingers, toHost, toClient,
                              sent, world, hist>>

-----------------------------------------------------------------------------
(* Host and cable.                                                           *)

(* The first message is answered: HELLO_OK under a new session or the one     *)
(* asked for, or a refusal, and the host closes.                             *)
HostAnswers ==
    /\ link = "up" /\ toHost # <<>> /\ sent = 0
    /\ toHost' = <<>>
    /\ LET id == Head(toHost).session IN
       \/ /\ id = 0
          /\ granted' = granted + 1
          /\ known' = known \union {granted'}
          /\ Queue(Msg("ok", granted'))
          /\ sent' = 1
          /\ UNCHANGED link
       \/ /\ id \in known
          /\ Queue(Msg("ok", id))
          /\ sent' = 1
          /\ UNCHANGED <<link, granted, known>>
       \/ /\ id \notin known \union {0}
          /\ Queue(Msg("unknown", 0))
          /\ link' = "closed"
          /\ UNCHANGED <<sent, granted, known>>
    /\ UNCHANGED <<stopper, loop, fields, sock, shake, pingers, cable, hostUp, faults,
                   hist>>

HostSends(type, n) ==
    /\ link = "up"
    /\ Queue(Msg(type, n))
    /\ sent' = sent + 1
    /\ UNCHANGED <<stopper, loop, fields, sock, shake, pingers, link, toHost, world, hist>>

HostReplies == \/ sent = 1 /\ HostSends("display", 0)
               \/ sent = 2 /\ HostSends("config", 0)

HostFrame == sent \in 3..(2 + MaxFrames) /\ HostSends("frame", sent - 2)

Unplug == /\ cable /\ faults < MaxFaults
          /\ cable' = FALSE
          /\ faults' = faults + 1
          /\ link' = IF link = "none" THEN "none" ELSE "cut"
          /\ UNCHANGED <<stopper, loop, fields, sock, shake, pingers, toHost, toClient,
                         sent, hostUp, known, granted, hist>>

Replug == /\ ~cable
          /\ cable' = TRUE
          /\ UNCHANGED <<stopper, loop, fields, sock, shake, pingers, chan, hostUp, known,
                         granted, faults, hist>>

HostDies == /\ hostUp /\ faults < MaxFaults
            /\ hostUp' = FALSE
            /\ known' = {}
            /\ faults' = faults + 1
            /\ link' = IF link = "up" THEN "cut" ELSE link
            /\ UNCHANGED <<stopper, loop, fields, sock, shake, pingers, toHost, toClient,
                           sent, cable, granted, hist>>

HostStarts == /\ ~hostUp
              /\ hostUp' = TRUE
              /\ UNCHANGED <<stopper, loop, fields, sock, shake, pingers, chan, cable,
                             known, granted, faults, hist>>

World == HostAnswers \/ HostReplies \/ HostFrame \/ Unplug \/ Replug \/ HostDies \/ HostStarts

Next == Client \/ Pingers \/ ClearRunning \/ CloseSocket \/ World

Spec == Init /\ [][Next]_vars

(* Every thread that can run does; a host that is up answers, and one that     *)
(* died is started again.                                                    *)
Fairness == /\ WF_vars(Client)
            /\ WF_vars(PingCheck \/ PingWrite \/ PingFails)
            /\ WF_vars(StrayEnds)
            /\ WF_vars(CloseSocket)
            /\ WF_vars(HostAnswers \/ HostReplies)
            /\ WF_vars(HostStarts)

-----------------------------------------------------------------------------
(* Properties.                                                               *)

Pumping == {"pump", "read", "ack"}
Places == {"loop", "new", "connect", "hello", "replies", "session", "finally", "catch",
           "sleep", "ended"} \union Pumping

(* The delay never exceeds its limit.                                        *)
TypeOK ==
    /\ running \in BOOLEAN /\ caller \in {"idle", "close", "done"}
    /\ pc \in Places /\ failed \in BOOLEAN /\ backoff \in {250, 500, 1000, 2000}
    /\ sessionId \in Nat /\ lastFrame \in Nat
    /\ sock \in {"none", "new", "open", "closed"}
    /\ got \in SUBSET Replies /\ offered \in Nat
    /\ pinger \in {"none", "check", "write"} /\ strays \in Nat
    /\ link \in {"none", "up", "closed", "cut"}
    /\ toHost \in Seq([session : Nat, last : Nat])
    /\ toClient \in Seq([type : Replies \union {"unknown", "frame", "pong"}, n : Nat])
    /\ Len(toClient) <= Buffer /\ sent \in Nat
    /\ cable \in BOOLEAN /\ hostUp \in BOOLEAN
    /\ known \in SUBSET (1..granted) /\ granted \in Nat /\ faults \in 0..MaxFaults
    /\ late \in Nat /\ tries \in Nat

(* After stop at most one session or frame is still handed to the activity,   *)
(* whatever waits to be read.                                                *)
AtMostOneLate == late <= 1

(* Two attempts without a delay are separated by a session: a host that is not *)
(* there, or closes in the handshake, is not called in a busy loop.           *)
NoBusyRetry == tries <= 1

(* While a session is pumped over a connection that stands, it is one the     *)
(* host process at the other end has granted.                                *)
Agreed == pc \in Pumping /\ link = "up" => sessionId \in known

(* Outside an attempt the client keeps no connection, and a client that ended  *)
(* leaves none behind.                                                       *)
NoSocketLeft == pc \in {"loop", "new", "catch", "sleep", "ended"} =>
                    sock \in {"none", "closed"} /\ link = "none"

(* A stopped client ends with all its threads, wherever stop met it.          *)
StopEnds == ~running ~> (pc = "ended" /\ pinger = "none" /\ strays = 0)
=============================================================================
