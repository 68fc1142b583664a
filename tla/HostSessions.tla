---------------------------- MODULE HostSessions ----------------------------
(***************************************************************************)
(* The host as its clients see it over many connections (host/src/server.rs): *)
(* the accept loop, the handshake of each connection (HELLO or RECONNECT),   *)
(* the session table all connections share behind one mutex, the frames each *)
(* connection's writer notes in it, the FRAME_ACKs looked up in it, and the  *)
(* end of the process, with which the table is lost.                        *)
(*                                                                         *)
(* The threads and the queue of one connection are FramePipeline; here they   *)
(* are what FrameChannel promises, frames in order of which some are lost.    *)
(* A step is one critical section of the table's mutex, or one message       *)
(* written or read.  A client may send anything, at any time.                *)
(***************************************************************************)
EXTENDS Integers, Sequences, FiniteSets

CONSTANTS
    Conn,           \* connections, each accepted once
    SessionId,      \* ids that new_session_id can return, all distinct
    Bogus,          \* an id no host ever issued
    NoSession,      \* no session: a connection before its handshake
    NoFrame,        \* no timestamp was found
    Window,         \* entries kept for FRAME_ACK (512 in the code)
    MaxFrames,      \* bound: frames made per connection
    MaxRestarts     \* bound: ends of the host process

ASSUME SessionsAssumption ==
    /\ Bogus \notin SessionId
    /\ NoSession \notin SessionId \cup {Bogus}
    /\ NoFrame \notin Conn
    /\ Window \in Nat \ {0}
    /\ MaxFrames \in Nat
    /\ MaxRestarts \in Nat

VARIABLES
    st,             \* where each connection's thread is
    sess,           \* its session
    resumed,        \* it came with RECONNECT
    bye,            \* the DISCONNECT reason the handshake was refused with
    written,        \* the numbers of the frames it has written
    noting,         \* written and not yet noted: a frame number, or 0
    sessions,       \* SessionTable.sessions: id -> last frame noted
    frames,         \* SessionTable.frames: a window of [id, of] entries, "of"
                    \* being the connection whose clock stamped the frame
    ack,            \* the last FRAME_ACK: connection, frame, whose stamp it got
    restarts,
    issued,         \* history: every id ever granted
    granted         \* history: ids granted since the process started

connVars  == <<st, sess, resumed, bye>>
frameVars == <<written, noting>>
table     == <<sessions, frames>>
history   == <<restarts, issued, granted>>
vars      == <<connVars, frameVars, table, ack, history>>

NoAck == [conn |-> NoFrame, frame |-> 0, found |-> NoFrame]

Init ==
    /\ st = [c \in Conn |-> "free"]
    /\ sess = [c \in Conn |-> NoSession]
    /\ resumed = [c \in Conn |-> FALSE]
    /\ bye = [c \in Conn |-> "none"]
    /\ written = [c \in Conn |-> {}]
    /\ noting = [c \in Conn |-> 0]
    /\ sessions = [s \in {} |-> 0]
    /\ frames = <<>>
    /\ ack = NoAck
    /\ restarts = 0
    /\ issued = {}
    /\ granted = {}

-----------------------------------------------------------------------------
(* Handshake.                                                                *)

Goto(c, from, to) == st[c] = from /\ st' = [st EXCEPT ![c] = to]

Accept(c) == /\ Goto(c, "free", "handshake")
             /\ UNCHANGED <<sess, resumed, bye, frameVars, table, ack, history>>

(* A HELLO of the host's version starts a session under a new id.            *)
ReadHello(c) ==
    /\ Goto(c, "handshake", "granted")
    /\ \E s \in SessionId \ issued :
         /\ sess' = [sess EXCEPT ![c] = s]
         /\ issued' = issued \cup {s}
         /\ granted' = granted \cup {s}
    /\ UNCHANGED <<resumed, bye, frameVars, table, ack, restarts>>

Refuse(c, reason) ==
    /\ Goto(c, "handshake", "closed")
    /\ bye' = [bye EXCEPT ![c] = reason]
    /\ UNCHANGED <<sess, resumed, frameVars, table, ack, history>>

(* A HELLO of another version, or a first message of another type.            *)
ReadOther(c) == Refuse(c, "PROTOCOL")

(* RECONNECT: the table is locked for the look, and again to note the session. *)
Resume(c, s) ==
    /\ Goto(c, "handshake", "granted")
    /\ sess' = [sess EXCEPT ![c] = s]
    /\ resumed' = [resumed EXCEPT ![c] = TRUE]
    /\ UNCHANGED <<bye, frameVars, table, ack, history>>

\* Fault: any session id is resumed.
ReadReconnectFault(c) == \E s \in issued : Resume(c, s)

ReadReconnect(c) ==
    \E s \in issued \cup {Bogus} :
       \/ s \in DOMAIN sessions /\ Resume(c, s)
       \/ s \notin DOMAIN sessions /\ Refuse(c, "UNKNOWN_SESSION")

(* The client closes, sends what does not decode, or says nothing for 10 s.  *)
ReadNothing(c) == /\ Goto(c, "handshake", "closed")
                  /\ UNCHANGED <<sess, resumed, bye, frameVars, table, ack, history>>

NoteStep(c) == /\ Goto(c, "granted", "replying")
               /\ UNCHANGED <<sess, resumed, bye, frameVars, frames, ack, history>>

\* Fault: the entry of a resumed session is overwritten.
NoteSessionFault(c) ==
    /\ NoteStep(c)
    /\ sessions' = [s \in DOMAIN sessions \cup {sess[c]} |->
                      IF s = sess[c] THEN 0 ELSE sessions[s]]

NoteSession(c) ==
    /\ NoteStep(c)
    /\ sessions' = [s \in DOMAIN sessions \cup {sess[c]} |->
                      IF s \in DOMAIN sessions THEN sessions[s] ELSE 0]

(* HELLO_OK, DISPLAY_INFO and CONFIG, then the threads are started.           *)
Reply(c) == /\ Goto(c, "replying", "streaming")
            /\ UNCHANGED <<sess, resumed, bye, frameVars, table, ack, history>>

ReplyFails(c) == /\ Goto(c, "replying", "closed")
                 /\ UNCHANGED <<sess, resumed, bye, frameVars, table, ack, history>>

-----------------------------------------------------------------------------
(* Streaming.                                                                *)

Live(c) == st[c] \in {"streaming", "leaving"}

LastOf(S) == CHOOSE n \in S \cup {0} : \A m \in S : m <= n

\* Fault: the error of a write is ignored and the frame noted all the same.
WriteFrameFault(c) ==
    /\ Live(c)
    /\ noting[c] = 0
    /\ \E n \in 1..MaxFrames :
         /\ n > LastOf(written[c])
         /\ written' \in {written, [written EXCEPT ![c] = @ \cup {n}]}
         /\ noting' = [noting EXCEPT ![c] = n]
    /\ UNCHANGED <<connVars, table, ack, history>>

(* Every connection opens a source of its own, so its frames count from 1.    *)
(* They are written in order; any of them may be lost on the way to the writer. *)
WriteFrame(c) ==
    /\ Live(c)
    /\ noting[c] = 0
    /\ \E n \in 1..MaxFrames :
         /\ n > LastOf(written[c])
         /\ written' = [written EXCEPT ![c] = @ \cup {n}]
         /\ noting' = [noting EXCEPT ![c] = n]
    /\ UNCHANGED <<connVars, table, ack, history>>

Keep(s) == IF Len(s) > Window THEN Tail(s) ELSE s

\* Fault: the window grows without limit.
NoteFrameUnboundedFault(c) ==
    /\ noting[c] # 0
    /\ frames' = Append(frames, [id |-> noting[c], of |-> c])
    /\ sessions' = [sessions EXCEPT ![sess[c]] = noting[c]]
    /\ noting' = [noting EXCEPT ![c] = 0]
    /\ UNCHANGED <<connVars, written, ack, history>>

(* note_frame, after the write has returned.                                  *)
NoteFrame(c) ==
    /\ noting[c] # 0
    /\ sessions' = [sessions EXCEPT ![sess[c]] = noting[c]]
    /\ frames' = Keep(Append(frames, [id |-> noting[c], of |-> c]))
    /\ noting' = [noting EXCEPT ![c] = 0]
    /\ UNCHANGED <<connVars, written, ack, history>>

(* frame_ts: the stamp of the newest noted frame with this number.            *)
FrameTs(n) ==
    LET found == {i \in 1..Len(frames) : frames[i].id = n}
    IN  IF found = {} THEN NoFrame
        ELSE frames[CHOOSE i \in found : \A j \in found : j <= i].of

(* The client acknowledges a frame it was sent.                               *)
ReadAck(c) ==
    /\ st[c] = "streaming"
    /\ \E n \in written[c] :
         ack' = [conn |-> c, frame |-> n, found |-> FrameTs(n)]
    /\ UNCHANGED <<connVars, frameVars, table, history>>

Leave(c) == /\ Goto(c, "streaming", "leaving")
            /\ UNCHANGED <<sess, resumed, bye, frameVars, table, ack, history>>

\* Fault: the connection ends without joining its writer.
JoinThreadsFault(c) ==
    /\ Goto(c, "leaving", "closed")
    /\ UNCHANGED <<sess, resumed, bye, frameVars, table, ack, history>>

JoinThreads(c) ==
    /\ Goto(c, "leaving", "closed")
    /\ noting[c] = 0
    /\ UNCHANGED <<sess, resumed, bye, frameVars, table, ack, history>>

-----------------------------------------------------------------------------
(* The process ends (an error of accept ends it too) and is started again:    *)
(* its connections and its table are gone, the ids the clients hold are not.  *)
Restart ==
    /\ restarts < MaxRestarts
    /\ restarts' = restarts + 1
    /\ st' = [c \in Conn |-> IF st[c] = "free" THEN "free" ELSE "closed"]
    /\ noting' = [c \in Conn |-> 0]
    /\ sessions' = [s \in {} |-> 0]
    /\ frames' = <<>>
    /\ granted' = {}
    /\ UNCHANGED <<sess, resumed, bye, written, ack, issued>>

ConnStep(c) == \/ Accept(c) \/ ReadHello(c) \/ ReadOther(c) \/ ReadReconnect(c)
               \/ ReadNothing(c) \/ NoteSession(c) \/ Reply(c) \/ ReplyFails(c)
               \/ WriteFrame(c) \/ NoteFrame(c) \/ ReadAck(c) \/ Leave(c)
               \/ JoinThreads(c)

Done == /\ \A c \in Conn : st[c] = "closed"
        /\ UNCHANGED vars

Next == (\E c \in Conn : ConnStep(c)) \/ Restart \/ Done

Spec == Init /\ [][Next]_vars

-----------------------------------------------------------------------------
(* Properties.                                                               *)

TypeOK ==
    /\ st \in [Conn -> {"free", "handshake", "granted", "replying", "streaming",
                        "leaving", "closed"}]
    /\ sess \in [Conn -> SessionId \cup {NoSession}]
    /\ resumed \in [Conn -> BOOLEAN]
    /\ bye \in [Conn -> {"none", "PROTOCOL", "UNKNOWN_SESSION"}]
    /\ written \in [Conn -> SUBSET (1..MaxFrames)]
    /\ noting \in [Conn -> 0..MaxFrames]
    /\ DOMAIN sessions \subseteq SessionId
    /\ sessions \in [DOMAIN sessions -> 0..MaxFrames]
    /\ frames \in Seq([id : 1..MaxFrames, of : Conn]) /\ Len(frames) <= Window
    /\ ack \in [conn : Conn \cup {NoFrame}, frame : 0..MaxFrames,
                found : Conn \cup {NoFrame}]
    /\ restarts \in 0..MaxRestarts
    /\ issued \subseteq SessionId
    /\ granted \subseteq issued

Serving(c) == st[c] \in {"granted", "replying", "streaming", "leaving"}

(* A connection is served only under a session this process has granted: ids  *)
(* of before a restart are refused, although the check of the table and the   *)
(* note of the session are two critical sections.                            *)
ServedWasGranted == \A c \in Conn : Serving(c) => sess[c] \in granted

(* The table keeps every session granted and noted by this process, for as    *)
(* long as it runs: a client that reconnects is never refused for it.         *)
SessionsRetained ==
    [][restarts' = restarts => /\ DOMAIN sessions \subseteq DOMAIN sessions'
                               /\ \A s \in DOMAIN sessions :
                                    sessions[s] # 0 => sessions'[s] # 0]_vars

(* What the table retains of a session after its only connection has ended is *)
(* the last frame that was written to it.                                    *)
LastFrameRetained ==
    \A c \in Conn :
       /\ st[c] = "closed"
       /\ sess[c] \in DOMAIN sessions
       /\ \A d \in Conn \ {c} : sess[d] # sess[c]
       => sessions[sess[c]] = LastOf(written[c])

(* The table never names a frame that was not written under the session.      *)
NotedWasWritten ==
    \A s \in DOMAIN sessions :
       sessions[s] # 0 => \E c \in Conn : sess[c] = s /\ sessions[s] \in written[c]

(* What a client that reconnects rests on: the three together.                *)
TableSafe == ServedWasGranted /\ LastFrameRetained /\ NotedWasWritten

(* A claim of the documentation.                                             *)

(* FRAME_ACK: "Host computes latency = host_now - FRAME.timestamp_ns": of the *)
(* frame that was acknowledged, as long as the window still holds it.         *)
AckUsesOwnFrame == ack.found \in {ack.conn, NoFrame}
=============================================================================
