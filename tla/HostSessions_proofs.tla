------------------------- MODULE HostSessions_proofs -------------------------
(***************************************************************************)
(* Proofs about HostSessions, for every set of connections and of session    *)
(* ids, every window, and every number of frames and of restarts.           *)
(***************************************************************************)
EXTENDS HostSessions, TLAPS, WellFoundedInduction

-----------------------------------------------------------------------------
(* The greatest of a bounded set of numbers.                                 *)

(* A bounded set of numbers that is not empty has a greatest element: the     *)
(* least of its upper bounds.                                               *)
LEMMA GreatestExists ==
    ASSUME NEW k \in Nat, NEW S \in SUBSET (0..k), S # {}
    PROVE  \E i \in S : \A j \in S : j <= i
<1> DEFINE R == OpToRel(<, Nat)
           T == {b \in Nat : \A j \in S : j <= b}
<1>1. \A x, y \in Nat : x < y => <<x, y>> \in R
  BY DEF OpToRel
<1>2. IsWellFoundedOn(R, Nat)
  BY NatLessThanWellFounded
<1>3. T # {} /\ T \subseteq Nat
  OBVIOUS
<1> HIDE DEF R
<1>4. \E x \in T : \A y \in T : ~ (<<y, x>> \in R)
  <2> HIDE DEF T
  <2> QED
    BY <1>2, <1>3, WFMin
<1>5. PICK b \in T : \A y \in T : ~ (<<y, b>> \in R)
  BY <1>4
<1>6. b \in S
  <2> SUFFICES ASSUME b \notin S PROVE FALSE
    OBVIOUS
  <2>1. b \in Nat /\ \A j \in S : j \in Nat /\ j <= b /\ j # b
    OBVIOUS
  <2>2. PICK j \in S : TRUE
    OBVIOUS
  <2>3. b - 1 \in Nat /\ \A l \in S : l <= b - 1
    BY <2>1, <2>2
  <2>4. b - 1 \in T
    BY <2>3
  <2>5. <<b - 1, b>> \in R
    BY <1>1, <2>1, <2>3
  <2> QED
    BY <1>5, <2>4, <2>5
<1> QED
  BY <1>6

(* The last of a connection's frames is one of them, or 0 if it has none.     *)
LEMMA LastOfFacts ==
    ASSUME NEW S \in SUBSET (1..MaxFrames)
    PROVE  /\ LastOf(S) \in S \cup {0}
           /\ LastOf(S) \in 0..MaxFrames
           /\ \A m \in S : m <= LastOf(S)
<1>1. S \cup {0} \in SUBSET (0..MaxFrames) /\ S \cup {0} # {} /\ MaxFrames \in Nat
  BY SessionsAssumption
<1>2. \E n \in S \cup {0} : \A m \in S \cup {0} : m <= n
  BY <1>1, GreatestExists
<1>3. LastOf(S) \in S \cup {0} /\ \A m \in S : m <= LastOf(S)
  BY <1>2 DEF LastOf
<1> QED
  BY <1>1, <1>3

(* A frame after the last one becomes the last one.                           *)
LEMMA LastOfNext ==
    ASSUME NEW S \in SUBSET (1..MaxFrames), NEW n \in 1..MaxFrames, n > LastOf(S)
    PROVE  LastOf(S \cup {n}) = n
<1>1. S \cup {n} \in SUBSET (1..MaxFrames)
  OBVIOUS
<1>2. /\ LastOf(S \cup {n}) \in S \cup {n} \cup {0}
      /\ n <= LastOf(S \cup {n})
  BY <1>1, LastOfFacts
<1>3. \A m \in S : m <= LastOf(S) /\ m \in Nat
  BY LastOfFacts
<1>4. LastOf(S) \in Nat
  BY LastOfFacts
<1> DEFINE l == LastOf(S \cup {n})
<1>5. l \in S \/ l = n \/ l = 0
  BY <1>2
<1>6. n <= l /\ n > LastOf(S) /\ n \in Nat /\ n >= 1
  BY <1>2
<1> HIDE DEF l
<1>7. l \notin S
  <2> SUFFICES ASSUME l \in S PROVE FALSE
    OBVIOUS
  <2>1. l <= LastOf(S) /\ l \in Nat
    BY <1>3
  <2> QED
    BY <1>4, <1>6, <2>1
<1>8. l = n
  BY <1>5, <1>6, <1>7
<1> QED
  BY <1>8 DEF l

-----------------------------------------------------------------------------
(* Types.                                                                    *)

(* The elements of a sequence are of its type.                               *)
LEMMA ElementTypes ==
    ASSUME NEW S, NEW s \in Seq(S), NEW i \in 1..Len(s)
    PROVE  s[i] \in S
OBVIOUS

(* The window of frames keeps its length when a frame is noted.              *)
LEMMA KeepTypes ==
    ASSUME NEW S, NEW s \in Seq(S), NEW e \in S, Len(s) <= Window
    PROVE  /\ Keep(Append(s, e)) \in Seq(S)
           /\ Len(Keep(Append(s, e))) <= Window
<1>1. /\ Append(s, e) \in Seq(S) /\ Append(s, e) # <<>>
      /\ Len(Append(s, e)) = Len(s) + 1
      /\ Len(s) \in Nat
  OBVIOUS
<1>2. CASE Len(s) + 1 > Window
  <2>1. Keep(Append(s, e)) = Tail(Append(s, e))
    BY <1>1, <1>2 DEF Keep
  <2>2. Tail(Append(s, e)) \in Seq(S) /\ Len(Tail(Append(s, e))) = Len(s)
    BY <1>1
  <2> QED
    BY <2>1, <2>2
<1>3. CASE ~(Len(s) + 1 > Window)
  BY <1>1, <1>3, SessionsAssumption DEF Keep
<1> QED
  BY <1>2, <1>3

(* A look in the window finds the stamp of a frame of some connection, or none. *)
LEMMA FrameTsTypes ==
    ASSUME TypeOK, NEW n \in Nat
    PROVE  FrameTs(n) \in Conn \cup {NoFrame}
<1> DEFINE found == {i \in 1..Len(frames) : frames[i].id = n}
<1>1. CASE found = {}
  BY <1>1 DEF FrameTs
<1>2. CASE found # {}
  <2>1. Len(frames) \in Nat /\ found \in SUBSET (0..Len(frames))
    BY DEF TypeOK
  <2>2. \E i \in found : \A j \in found : j <= i
    <3> HIDE DEF found
    <3> QED
      BY <1>2, <2>1, GreatestExists
  <2> DEFINE last == CHOOSE i \in found : \A j \in found : j <= i
  <2>3. last \in 1..Len(frames)
    BY <2>2
  <2>4. frames[last] \in [id : 1..MaxFrames, of : Conn]
    <3> HIDE DEF last
    <3> QED
      BY <2>3, ElementTypes DEF TypeOK
  <2>5. FrameTs(n) = frames[last].of
    BY <1>2 DEF FrameTs
  <2> QED
    BY <2>4, <2>5
<1> QED
  BY <1>1, <1>2

(* A connection has its session from its handshake on, and the process knows  *)
(* it; the table names no other sessions than the ones the process granted.  *)
Granted == /\ \A c \in Conn : Serving(c) => sess[c] \in granted
           /\ DOMAIN sessions \subseteq granted

(* Every variable keeps its type, the window its limit, and a session is      *)
(* granted before it is served or noted.                                     *)
LEMMA TypedAndGranted == Spec => [](TypeOK /\ Granted)
<1> USE SessionsAssumption
<1>1. Init => TypeOK /\ Granted
  BY DEF Init, TypeOK, NoAck, Granted, Serving
<1>2. TypeOK /\ Granted /\ [Next]_vars => TypeOK' /\ Granted'
  <2> SUFFICES ASSUME TypeOK, Granted, [Next]_vars PROVE TypeOK' /\ Granted'
    OBVIOUS
  <2> USE DEF TypeOK, Granted, Serving
  <2>1. ASSUME NEW c \in Conn,
               \/ Accept(c) \/ ReadNothing(c) \/ Reply(c) \/ ReplyFails(c)
               \/ Leave(c) \/ JoinThreads(c)
        PROVE  TypeOK' /\ Granted'
    <3>1. TypeOK'
      BY <2>1 DEF Accept, ReadNothing, Reply, ReplyFails, Leave, JoinThreads,
                  Goto, frameVars, table, history
    <3>2. Granted'
      BY <2>1 DEF Accept, ReadNothing, Reply, ReplyFails, Leave, JoinThreads,
                  Goto, frameVars, table, history
    <3> QED
      BY <3>1, <3>2
  <2>2. ASSUME NEW c \in Conn, ReadHello(c) PROVE TypeOK' /\ Granted'
    BY <2>2 DEF ReadHello, Goto, frameVars, table
  <2>3. ASSUME NEW c \in Conn, ReadOther(c) PROVE TypeOK' /\ Granted'
    BY <2>3 DEF ReadOther, Refuse, Goto, frameVars, table, history
  <2>4. ASSUME NEW c \in Conn, ReadReconnect(c) PROVE TypeOK' /\ Granted'
    <3>1. ASSUME NEW s \in DOMAIN sessions, Resume(c, s)
          PROVE  TypeOK' /\ Granted'
      BY <3>1 DEF Resume, Goto, frameVars, table, history
    <3>2. CASE Refuse(c, "UNKNOWN_SESSION")
      BY <3>2 DEF Refuse, Goto, frameVars, table, history
    <3> QED
      BY <2>4, <3>1, <3>2 DEF ReadReconnect
  <2>5. ASSUME NEW c \in Conn, NoteSession(c) PROVE TypeOK' /\ Granted'
    <3>1. /\ sess[c] \in granted /\ sess' = sess /\ granted' = granted
          /\ issued' = issued
      BY <2>5 DEF NoteSession, NoteStep, Goto, history
    <3>2. /\ DOMAIN sessions' = DOMAIN sessions \cup {sess[c]}
          /\ sessions' \in [DOMAIN sessions' -> 0..MaxFrames]
      BY <2>5 DEF NoteSession
    <3>3. TypeOK'
      BY <2>5, <3>1, <3>2 DEF NoteSession, NoteStep, Goto, frameVars, history
    <3>4. Granted'
      BY <2>5, <3>1, <3>2 DEF NoteSession, NoteStep, Goto
    <3> QED
      BY <3>3, <3>4
  <2>6. ASSUME NEW c \in Conn, WriteFrame(c) PROVE TypeOK' /\ Granted'
    BY <2>6 DEF WriteFrame, connVars, table, history
  <2>7. ASSUME NEW c \in Conn, NoteFrame(c) PROVE TypeOK' /\ Granted'
    <3>1. noting[c] \in 1..MaxFrames
      BY <2>7 DEF NoteFrame
    <3>2. /\ DOMAIN sessions' = DOMAIN sessions
          /\ sessions' \in [DOMAIN sessions -> 0..MaxFrames]
      BY <2>7, <3>1 DEF NoteFrame
    <3>3. /\ frames' \in Seq([id : 1..MaxFrames, of : Conn])
          /\ Len(frames') <= Window
      <4> DEFINE Entry == [id : 1..MaxFrames, of : Conn]
                 e == [id |-> noting[c], of |-> c]
      <4>1. e \in Entry /\ frames \in Seq(Entry) /\ Len(frames) <= Window
        BY <3>1
      <4>2. frames' = Keep(Append(frames, e))
        BY <2>7 DEF NoteFrame
      <4> HIDE DEF Entry, e
      <4>3. frames' \in Seq(Entry) /\ Len(frames') <= Window
        BY <4>1, <4>2, KeepTypes
      <4> QED
        BY <4>3 DEF Entry
    <3>4. noting' \in [Conn -> 0..MaxFrames]
      BY <2>7 DEF NoteFrame
    <3> QED
      BY <2>7, <3>2, <3>3, <3>4 DEF NoteFrame, connVars, history
  <2>8. ASSUME NEW c \in Conn, ReadAck(c) PROVE TypeOK' /\ Granted'
    <3>1. PICK n \in written[c] :
             ack' = [conn |-> c, frame |-> n, found |-> FrameTs(n)]
      BY <2>8 DEF ReadAck
    <3>2. n \in Nat /\ n \in 0..MaxFrames
      BY <3>1
    <3>3. ack' \in [conn : Conn \cup {NoFrame}, frame : 0..MaxFrames,
                    found : Conn \cup {NoFrame}]
      BY <3>1, <3>2, FrameTsTypes
    <3> QED
      BY <2>8, <3>3 DEF ReadAck, connVars, frameVars, table, history
  <2>9. CASE Restart
    BY <2>9 DEF Restart
  <2>10. CASE UNCHANGED vars
    BY <2>10 DEF vars, connVars, frameVars, table, history
  <2> QED
    BY <2>1, <2>2, <2>3, <2>4, <2>5, <2>6, <2>7, <2>8, <2>9, <2>10
       DEF Next, ConnStep, Done
<1> QED
  BY <1>1, <1>2, PTL DEF Spec

(* Every variable keeps its type; in particular the shared window of frames   *)
(* never grows beyond its limit, however many connections note into it.      *)
THEOREM HostTypeCorrect == Spec => []TypeOK
BY TypedAndGranted, PTL

(* A connection is served only under a session that this process granted.     *)
THEOREM Served == Spec => []ServedWasGranted
<1>1. Granted => ServedWasGranted
  BY DEF Granted, ServedWasGranted
<1> QED
  BY <1>1, TypedAndGranted, PTL

-----------------------------------------------------------------------------
(* What the table names was written.                                         *)

(* A frame that is being noted was written by a connection that still streams, *)
(* under a session the table has; before its threads run it wrote nothing.    *)
Noting == \A c \in Conn :
    /\ noting[c] # 0 => Live(c) /\ noting[c] \in written[c]
    /\ st[c] \in {"free", "handshake", "granted", "replying"} => written[c] = {}
    /\ st[c] \in {"replying", "streaming", "leaving"} => sess[c] \in DOMAIN sessions

(* What is noted was written: at the note, and in the table ever after.       *)
LEMMA NotingInvariant == Spec => [](Noting /\ NotedWasWritten)
<1> DEFINE Inv == Noting /\ NotedWasWritten
<1> USE SessionsAssumption
<1>1. Init => Inv
  BY DEF Init, Noting, NotedWasWritten
<1>2. TypeOK /\ Granted /\ Inv /\ [Next]_vars => Inv'
  <2> SUFFICES ASSUME TypeOK, Granted, Inv, [Next]_vars PROVE Inv'
    OBVIOUS
  <2> USE DEF TypeOK, Noting, Live, NotedWasWritten
  <2>1. ASSUME NEW c \in Conn,
               \/ Accept(c) \/ ReadNothing(c) \/ Reply(c) \/ ReplyFails(c)
               \/ Leave(c) \/ JoinThreads(c) \/ ReadOther(c)
        PROVE  Inv'
    <3>1. /\ sess' = sess /\ written' = written /\ noting' = noting
          /\ sessions' = sessions
      BY <2>1 DEF Accept, ReadNothing, Reply, ReplyFails, Leave, JoinThreads,
                  ReadOther, Refuse, frameVars, table
    <3>2. \/ st[c] = "free" /\ st' = [st EXCEPT ![c] = "handshake"]
          \/ st[c] \in {"handshake", "replying"} /\ st' = [st EXCEPT ![c] = "closed"]
          \/ st[c] = "replying" /\ st' = [st EXCEPT ![c] = "streaming"]
          \/ st[c] = "streaming" /\ st' = [st EXCEPT ![c] = "leaving"]
          \/ st[c] = "leaving" /\ noting[c] = 0 /\ st' = [st EXCEPT ![c] = "closed"]
      BY <2>1 DEF Accept, ReadNothing, Reply, ReplyFails, Leave, JoinThreads,
                  ReadOther, Refuse, Goto
    <3>3. Noting'
      BY <3>1, <3>2
    <3>4. NotedWasWritten'
      BY <3>1
    <3> QED
      BY <3>3, <3>4
  <2>2. ASSUME NEW c \in Conn, ReadHello(c) \/ ReadReconnect(c) PROVE Inv'
    <3>1. /\ st[c] = "handshake" /\ written[c] = {} /\ noting[c] = 0
          /\ written' = written /\ noting' = noting /\ sessions' = sessions
          /\ \E to \in {"granted", "closed"} : st' = [st EXCEPT ![c] = to]
          /\ \A d \in Conn : d # c => sess'[d] = sess[d]
      <4>1. CASE ReadHello(c)
        BY <4>1 DEF ReadHello, Goto, frameVars, table
      <4>2. CASE ReadReconnect(c)
        BY <4>2 DEF ReadReconnect, Resume, Refuse, Goto, frameVars, table
      <4> QED
        BY <2>2, <4>1, <4>2
    <3>2. Noting'
      BY <3>1
    <3>3. NotedWasWritten'
      <4> SUFFICES ASSUME NEW s \in DOMAIN sessions, sessions[s] # 0
                   PROVE  \E d \in Conn : sess'[d] = s /\ sessions[s] \in written[d]
        BY <3>1
      <4>1. PICK d \in Conn : sess[d] = s /\ sessions[s] \in written[d]
        OBVIOUS
      <4>2. d # c
        BY <3>1, <4>1
      <4> QED
        BY <3>1, <4>1, <4>2
    <3> QED
      BY <3>2, <3>3
  <2>3. ASSUME NEW c \in Conn, NoteSession(c) PROVE Inv'
    <3>1. /\ st[c] = "granted" /\ st' = [st EXCEPT ![c] = "replying"]
          /\ sess' = sess /\ written' = written /\ noting' = noting
          /\ sessions' = [s \in DOMAIN sessions \cup {sess[c]} |->
                            IF s \in DOMAIN sessions THEN sessions[s] ELSE 0]
      BY <2>3 DEF NoteSession, NoteStep, Goto, frameVars
    <3>2. Noting'
      BY <3>1
    <3>3. NotedWasWritten'
      BY <3>1
    <3> QED
      BY <3>2, <3>3
  <2>4. ASSUME NEW c \in Conn, WriteFrame(c) PROVE Inv'
    BY <2>4 DEF WriteFrame, connVars, table
  <2>5. ASSUME NEW c \in Conn, NoteFrame(c) PROVE Inv'
    BY <2>5 DEF NoteFrame, connVars
  <2>6. ASSUME NEW c \in Conn, ReadAck(c) PROVE Inv'
    BY <2>6 DEF ReadAck, connVars, frameVars, table
  <2>7. CASE Restart
    BY <2>7 DEF Restart
  <2>8. CASE UNCHANGED vars
    BY <2>8 DEF vars, connVars, frameVars, table
  <2> QED
    BY <2>1, <2>2, <2>3, <2>4, <2>5, <2>6, <2>7, <2>8 DEF Next, ConnStep, Done
<1> QED
  BY <1>1, <1>2, TypedAndGranted, PTL DEF Spec

(* Whatever the table names as a session's last frame was written under it.   *)
THEOREM NotedWritten == Spec => []NotedWasWritten
BY NotingInvariant, PTL

(* While the process runs no session leaves the table and no frame noted for  *)
(* it is forgotten.                                                          *)
THEOREM Retained == Spec => SessionsRetained
<1> DEFINE Kept == /\ DOMAIN sessions \subseteq DOMAIN sessions'
                   /\ \A s \in DOMAIN sessions :
                        sessions[s] # 0 => sessions'[s] # 0
<1>1. TypeOK /\ [Next]_vars => [restarts' = restarts => Kept]_vars
  <2> SUFFICES ASSUME TypeOK, [Next]_vars, restarts' = restarts PROVE Kept
    OBVIOUS
  <2>1. CASE sessions' = sessions
    BY <2>1
  <2>2. ASSUME NEW c \in Conn, NoteSession(c) PROVE Kept
    BY <2>2 DEF NoteSession
  <2>3. ASSUME NEW c \in Conn, NoteFrame(c) PROVE Kept
    BY <2>3 DEF NoteFrame
  <2>4. CASE Restart
    BY <2>4 DEF Restart, TypeOK
  <2>5. ASSUME NEW c \in Conn, ConnStep(c), ~NoteSession(c), ~NoteFrame(c)
        PROVE  sessions' = sessions
    BY <2>5 DEF ConnStep, Accept, ReadHello, ReadOther, ReadReconnect, Resume,
                Refuse, ReadNothing, Reply, ReplyFails, WriteFrame, ReadAck, Leave,
                JoinThreads, table
  <2>6. CASE UNCHANGED vars
    BY <2>6, <2>1 DEF vars, table
  <2> QED
    BY <2>1, <2>2, <2>3, <2>4, <2>5, <2>6 DEF Next, Done
<1>2. Spec => [][restarts' = restarts => Kept]_vars
  BY <1>1, HostTypeCorrect, PTL DEF Spec
<1> QED
  BY <1>2 DEF SessionsRetained

-----------------------------------------------------------------------------
(* What the table retains.                                                   *)

Sole(c) == \A d \in Conn : d # c => sess[d] # sess[c]

(* A session has a connection and is known to have been issued; only a        *)
(* connection past its handshake has one.                                   *)
Owned == /\ \A c \in Conn : sess[c] \in issued \cup {NoSession}
         /\ \A c \in Conn : st[c] \in {"free", "handshake"} => sess[c] = NoSession
         /\ \A s \in DOMAIN sessions : \E c \in Conn : sess[c] = s

(* The entry of a session with one connection is that connection's last frame, *)
(* but for the one it is noting; a session no table knows starts without entry. *)
UpToDate == \A c \in Conn :
    /\ noting[c] # 0 => noting[c] = LastOf(written[c])
    /\ Sole(c) /\ sess[c] \in DOMAIN sessions /\ noting[c] = 0
          => sessions[sess[c]] = LastOf(written[c])
    /\ Sole(c) /\ st[c] = "granted" => sess[c] \notin DOMAIN sessions

(* Every session of the table keeps a connection it belongs to.               *)
LEMMA OwnedInvariant == Spec => []Owned
<1>1. Init => Owned
  BY DEF Init, Owned
<1>2. TypeOK /\ Granted /\ Owned /\ [Next]_vars => Owned'
  <2> SUFFICES ASSUME TypeOK, Granted, Owned, [Next]_vars PROVE Owned'
    OBVIOUS
  <2> USE DEF TypeOK, Granted, Owned
  <2>1. ASSUME NEW c \in Conn,
               \/ Accept(c) \/ ReadNothing(c) \/ Reply(c) \/ ReplyFails(c)
               \/ Leave(c) \/ JoinThreads(c) \/ ReadOther(c)
        PROVE  Owned'
    <3>1. sess' = sess /\ sessions' = sessions /\ issued' = issued
      BY <2>1 DEF Accept, ReadNothing, Reply, ReplyFails, Leave, JoinThreads,
                  ReadOther, Refuse, table, history
    <3>2. \A d \in Conn : st'[d] \in {"free", "handshake"} =>
                             st[d] \in {"free", "handshake"}
      BY <2>1 DEF Accept, ReadNothing, Reply, ReplyFails, Leave, JoinThreads,
                  ReadOther, Refuse, Goto
    <3> QED
      BY <3>1, <3>2
  <2>2. ASSUME NEW c \in Conn, NEW s \in SessionId,
               sess[c] = NoSession, sess' = [sess EXCEPT ![c] = s],
               st' = [st EXCEPT ![c] = "granted"], sessions' = sessions,
               issued \subseteq issued', s \in issued'
        PROVE  Owned'
    <3>1. \A t \in DOMAIN sessions : t # NoSession
      BY SessionsAssumption
    <3>2. ASSUME NEW t \in DOMAIN sessions PROVE \E d \in Conn : sess'[d] = t
      <4>1. PICK d \in Conn : sess[d] = t
        OBVIOUS
      <4>2. d # c
        BY <2>2, <3>1, <4>1
      <4> QED
        BY <2>2, <4>1, <4>2
    <3> QED
      BY <2>2, <3>2
  <2>3. ASSUME NEW c \in Conn, ReadHello(c) PROVE Owned'
    <3>1. PICK s \in SessionId : sess' = [sess EXCEPT ![c] = s] /\ issued' = issued \cup {s}
      BY <2>3 DEF ReadHello
    <3> QED
      BY <2>2, <2>3, <3>1 DEF ReadHello, Goto, table
  <2>4. ASSUME NEW c \in Conn, ReadReconnect(c) PROVE Owned'
    <3>1. ASSUME NEW s \in DOMAIN sessions, Resume(c, s) PROVE Owned'
      BY <2>2, <3>1 DEF Resume, Goto, table, history
    <3>2. CASE Refuse(c, "UNKNOWN_SESSION")
      BY <3>2 DEF Refuse, Goto, table, history
    <3> QED
      BY <2>4, <3>1, <3>2 DEF ReadReconnect
  <2>5. ASSUME NEW c \in Conn, NoteSession(c) PROVE Owned'
    BY <2>5 DEF NoteSession, NoteStep, Goto, history
  <2>6. ASSUME NEW c \in Conn, WriteFrame(c) \/ NoteFrame(c) \/ ReadAck(c)
        PROVE  Owned'
    BY <2>6 DEF WriteFrame, NoteFrame, ReadAck, connVars, table, history
  <2>7. CASE Restart
    BY <2>7 DEF Restart
  <2>8. CASE UNCHANGED vars
    BY <2>8 DEF vars, connVars, table, history
  <2> QED
    BY <2>1, <2>3, <2>4, <2>5, <2>6, <2>7, <2>8 DEF Next, ConnStep, Done
<1> QED
  BY <1>1, <1>2, TypedAndGranted, PTL DEF Spec

(* Once the only connection of a session has ended, the table retains the     *)
(* last frame that was written to it: the join of the writer is what makes   *)
(* the note of that frame precede the end.                                  *)
THEOREM LastRetained == Spec => []LastFrameRetained
<1>1. Init => UpToDate
  BY DEF Init, UpToDate
<1>2. TypeOK /\ Granted /\ Owned /\ Noting /\ UpToDate /\ [Next]_vars => UpToDate'
  <2> SUFFICES ASSUME TypeOK, Granted, Owned, Noting, UpToDate, [Next]_vars
               PROVE  UpToDate'
    OBVIOUS
  <2> USE DEF TypeOK, UpToDate, Sole
  <2>1. ASSUME NEW c \in Conn,
               \/ Accept(c) \/ ReadNothing(c) \/ Reply(c) \/ ReplyFails(c)
               \/ Leave(c) \/ JoinThreads(c) \/ ReadOther(c)
        PROVE  UpToDate'
    <3>1. /\ sess' = sess /\ sessions' = sessions /\ written' = written
          /\ noting' = noting
      BY <2>1 DEF Accept, ReadNothing, Reply, ReplyFails, Leave, JoinThreads,
                  ReadOther, Refuse, frameVars, table
    <3>2. \A d \in Conn : st'[d] = "granted" => st[d] = "granted"
      BY <2>1 DEF Accept, ReadNothing, Reply, ReplyFails, Leave, JoinThreads,
                  ReadOther, Refuse, Goto
    <3> QED
      BY <3>1, <3>2
  <2>2. ASSUME NEW c \in Conn, NEW s \in SessionId,
               st[c] = "handshake", sess' = [sess EXCEPT ![c] = s],
               st' = [st EXCEPT ![c] = "granted"],
               UNCHANGED <<frameVars, table>>,
               Sole(c)' => s \notin DOMAIN sessions
        PROVE  UpToDate'
    <3>1. /\ sess[c] = NoSession /\ NoSession \notin DOMAIN sessions
          /\ written' = written /\ noting' = noting /\ sessions' = sessions
      BY <2>2, SessionsAssumption DEF Owned, frameVars, table
    <3>2. ASSUME NEW d \in Conn, d # c, Sole(d)', sess[d] # NoSession PROVE Sole(d)
      BY <2>2, <3>1, <3>2
    <3>3. \A d \in Conn : d # c => sess'[d] = sess[d] /\ st'[d] = st[d]
      BY <2>2
    <3>4. sess'[c] = s
      BY <2>2
    <3>5. ASSUME NEW d \in Conn
          PROVE  /\ noting'[d] # 0 => noting'[d] = LastOf(written'[d])
                 /\ Sole(d)' /\ sess'[d] \in DOMAIN sessions' /\ noting'[d] = 0
                      => sessions'[sess'[d]] = LastOf(written'[d])
                 /\ Sole(d)' /\ st'[d] = "granted" => sess'[d] \notin DOMAIN sessions'
      <4>1. CASE d = c
        BY <2>2, <3>1, <3>4, <4>1
      <4>2. CASE d # c
        <5>1. noting'[d] # 0 => noting'[d] = LastOf(written'[d])
          BY <3>1
        <5>2. Sole(d)' /\ sess[d] # NoSession => Sole(d)
          BY <3>2, <4>2
        <5> HIDE DEF Sole
        <5> QED
          BY <3>1, <3>3, <4>2, <5>1, <5>2
      <4> QED
        BY <4>1, <4>2
    <3> QED
      BY <3>5
  <2>3. ASSUME NEW c \in Conn, ReadHello(c) PROVE UpToDate'
    <3>1. PICK s \in SessionId \ issued : sess' = [sess EXCEPT ![c] = s]
      BY <2>3 DEF ReadHello
    <3>2. s \notin DOMAIN sessions
      BY <3>1 DEF Granted
    <3> QED
      BY <2>2, <2>3, <3>1, <3>2 DEF ReadHello, Goto
  <2>4. ASSUME NEW c \in Conn, ReadReconnect(c) PROVE UpToDate'
    <3>1. ASSUME NEW s \in DOMAIN sessions, Resume(c, s) PROVE UpToDate'
      <4>1. PICK d \in Conn : sess[d] = s
        BY DEF Owned
      <4>2. d # c
        BY <3>1, <4>1, SessionsAssumption DEF Owned, Resume, Goto
      <4>3. ~Sole(c)'
        BY <3>1, <4>1, <4>2 DEF Resume
      <4> HIDE DEF Sole
      <4> QED
        BY <2>2, <3>1, <4>3 DEF Resume, Goto
    <3>2. CASE Refuse(c, "UNKNOWN_SESSION")
      BY <3>2 DEF Refuse, Goto, frameVars, table
    <3> QED
      BY <2>4, <3>1, <3>2 DEF ReadReconnect
  <2>5. ASSUME NEW c \in Conn, NoteSession(c) PROVE UpToDate'
    <3>1. /\ st[c] = "granted" /\ st' = [st EXCEPT ![c] = "replying"]
          /\ sess' = sess /\ written' = written /\ noting' = noting
          /\ sessions' = [s \in DOMAIN sessions \cup {sess[c]} |->
                            IF s \in DOMAIN sessions THEN sessions[s] ELSE 0]
      BY <2>5 DEF NoteSession, NoteStep, Goto, frameVars
    <3>2. written[c] = {} /\ LastOf({}) = 0
      BY <3>1, LastOfFacts DEF Noting
    <3>3. ASSUME NEW d \in Conn, Sole(d), sess[d] \in DOMAIN sessions', noting[d] = 0
          PROVE  sessions'[sess[d]] = LastOf(written[d])
      <4>1. CASE d = c
        BY <3>1, <3>2, <3>3, <4>1
      <4>2. CASE d # c
        BY <3>1, <3>3, <4>2
      <4> QED
        BY <4>1, <4>2
    <3>4. ASSUME NEW d \in Conn, Sole(d), st'[d] = "granted"
          PROVE  sess[d] \notin DOMAIN sessions'
      BY <3>1, <3>4
    <3> QED
      BY <3>1, <3>3, <3>4
  <2>6. ASSUME NEW c \in Conn, WriteFrame(c) PROVE UpToDate'
    <3>1. PICK n \in 1..MaxFrames : /\ n > LastOf(written[c])
                                    /\ written' = [written EXCEPT ![c] = @ \cup {n}]
                                    /\ noting' = [noting EXCEPT ![c] = n]
      BY <2>6 DEF WriteFrame
    <3>2. LastOf(written'[c]) = n
      BY <3>1, LastOfNext
    <3>3. sess' = sess /\ st' = st /\ sessions' = sessions
      BY <2>6 DEF WriteFrame, connVars, table
    <3> QED
      BY <3>1, <3>2, <3>3
  <2>7. ASSUME NEW c \in Conn, NoteFrame(c) PROVE UpToDate'
    <3>1. /\ noting[c] # 0 /\ noting[c] = LastOf(written[c])
          /\ sessions' = [sessions EXCEPT ![sess[c]] = noting[c]]
          /\ noting' = [noting EXCEPT ![c] = 0]
          /\ sess' = sess /\ st' = st /\ written' = written
      BY <2>7 DEF NoteFrame, connVars
    <3>2. ASSUME NEW d \in Conn, Sole(d), sess[d] \in DOMAIN sessions, noting'[d] = 0
          PROVE  sessions'[sess[d]] = LastOf(written[d])
      <4>1. CASE d = c
        BY <3>1, <3>2, <4>1
      <4>2. CASE d # c
        BY <3>1, <3>2, <4>2
      <4> QED
        BY <4>1, <4>2
    <3> QED
      BY <3>1, <3>2
  <2>8. ASSUME NEW c \in Conn, ReadAck(c) PROVE UpToDate'
    BY <2>8 DEF ReadAck, connVars, frameVars, table
  <2>9. CASE Restart
    BY <2>9 DEF Restart
  <2>10. CASE UNCHANGED vars
    BY <2>10 DEF vars, connVars, frameVars, table
  <2> QED
    BY <2>1, <2>3, <2>4, <2>5, <2>6, <2>7, <2>8, <2>9, <2>10 DEF Next, ConnStep, Done
<1>3. Noting /\ UpToDate => LastFrameRetained
  <2> SUFFICES ASSUME Noting, UpToDate,
                      NEW c \in Conn, st[c] = "closed", sess[c] \in DOMAIN sessions,
                      \A d \in Conn \ {c} : sess[d] # sess[c]
               PROVE  sessions[sess[c]] = LastOf(written[c])
    BY DEF LastFrameRetained
  <2>1. Sole(c)
    BY DEF Sole
  <2>2. noting[c] = 0
    BY DEF Noting, Live
  <2> QED
    BY <2>1, <2>2 DEF UpToDate
<1> QED
  BY <1>1, <1>2, <1>3, TypedAndGranted, OwnedInvariant, NotingInvariant, PTL DEF Spec

(* Who is served was granted the session, and what the table retains of a       *)
(* session was written under it, to the last frame when it has ended.          *)
THEOREM TableIsSafe == Spec => []TableSafe
  BY Served, NotedWritten, LastRetained, PTL DEF TableSafe
=============================================================================
