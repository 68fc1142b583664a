-------------------------- MODULE GnomeSource_proofs --------------------------
(***************************************************************************)
(* Proofs about GnomeSource, for every depth of the pipe and every number of  *)
(* canvases.                                                                *)
(***************************************************************************)
EXTENDS GnomeSource, TLAPS

-----------------------------------------------------------------------------
(* Types.                                                                    *)

Flags == /\ bus \in BOOLEAN /\ listening \in BOOLEAN /\ heard \in BOOLEAN
         /\ stopped \in BOOLEAN /\ pending \in BOOLEAN
         /\ emitted \in BOOLEAN /\ ended \in BOOLEAN
         /\ stop \in BOOLEAN /\ rxGone \in BOOLEAN

Others == /\ pc \in Places
          /\ frameId \in Nat
          /\ cast \in {"none", "created", "recorded", "started"}
          /\ grabber \in {"none", "running", "closing", "exited", "reaped"}
          /\ pipe \in Seq(Nat) /\ Len(pipe) <= PipeCap
          /\ canvases \in 0..MaxCanvases
          /\ made \in [id : Nat, blank : BOOLEAN]

(* The flags stay Boolean: a step sets one, clears one or copies one.          *)
LEMMA FlagSteps ==
    ASSUME Flags, [Next]_vars
    PROVE  Flags'
<1> USE DEF Flags, host, mutter, child, threads
<1>1. CASE \/ Connect \/ ConnectFails \/ CreateSession \/ RecordVirtual \/ Subscribe
           \/ Start \/ StartFails \/ AwaitNode \/ HangUp
  BY <1>1 DEF Connect, ConnectFails, Advance, CreateSession, RecordVirtual,
              Subscribe, Start, StartFails, AwaitNode, HangUp
<1>2. CASE Spawn \/ SpawnFails \/ ReadFirst \/ FirstFails
  BY <1>2 DEF Spawn, SpawnFails, ReadFirst, FirstFails
<1>3. CASE \/ CheckStop \/ NextPending \/ NextCanvas \/ NextRetry \/ NextBlank
           \/ OfferFrame
  BY <1>3 DEF CheckStop, NextPending, NextCanvas, NextRetry, NextBlank, OfferFrame
<1>4. CASE KillGrabber \/ StopSession \/ DropSession
  BY <1>4 DEF KillGrabber, Stopping, StopSession, DropSession
<1>5. CASE Environment
  BY <1>5 DEF Environment, Announce, Vanish, CastEnds, GrabberWrites, GrabberCloses,
              GrabberExits, ReaderStops, WriterEnds
<1>6. CASE UNCHANGED vars
  BY <1>6 DEF vars
<1> QED
  BY <1>1, <1>2, <1>3, <1>4, <1>5, <1>6 DEF Next, Producer

(* The other variables keep their types.                                     *)
LEMMA OtherSteps ==
    ASSUME Flags, Others, [Next]_vars
    PROVE  Others'
<1> USE GnomeAssumption DEF Others, Goto, host, mutter, child, threads
<1>1. CASE \/ Connect \/ ConnectFails \/ CreateSession \/ RecordVirtual \/ Subscribe
           \/ Start \/ AwaitNode \/ HangUp
  BY <1>1 DEF Places, Connect, ConnectFails, Advance, CreateSession, RecordVirtual,
              Subscribe, Start, AwaitNode, HangUp
<1>2. CASE StartFails
  BY <1>2 DEF Places, StartFails
<1>3. CASE Spawn \/ SpawnFails \/ FirstFails
  BY <1>3 DEF Places, Spawn, SpawnFails, FirstFails
<1>4. CASE ReadFirst
  BY <1>4 DEF Places, ReadFirst
<1>5. CASE CheckStop \/ OfferFrame
  BY <1>5 DEF Places, CheckStop, OfferFrame
<1>6. CASE NextPending
  <2>1. made' \in [id : Nat, blank : BOOLEAN]
    BY <1>6 DEF NextPending
  <2>2. pc' \in Places
    BY <1>6 DEF NextPending, Places
  <2> QED
    BY <1>6, <2>1, <2>2 DEF NextPending
<1>7. CASE NextCanvas
  <2>1. /\ frameId' \in Nat
        /\ pipe' \in Seq(Nat) /\ Len(pipe') <= PipeCap
    BY <1>7 DEF NextCanvas
  <2>2. /\ pc' \in Places
        /\ made' \in [id : Nat, blank : BOOLEAN]
    <3>1. CASE pc' = "offer" /\ made' = [id |-> frameId', blank |-> FALSE]
      <4>1. pc' \in Places
        BY <3>1 DEF Places
      <4> QED
        BY <2>1, <3>1, <4>1
    <3>2. CASE UNCHANGED <<pc, made>>
      BY <3>2
    <3> QED
      BY <1>7, <3>1, <3>2 DEF NextCanvas
  <2> QED
    BY <1>7, <2>1, <2>2 DEF NextCanvas
<1>8. CASE NextBlank
  <2>1. made' \in [id : Nat, blank : BOOLEAN] /\ pipe' \in Seq(Nat) /\ Len(pipe') = 0
    BY <1>8 DEF NextBlank
  <2>2. pc' \in Places
    BY <1>8 DEF NextBlank, Places
  <2> QED
    BY <1>8, <2>1, <2>2 DEF NextBlank
<1>9. CASE KillGrabber
  BY <1>9 DEF Places, KillGrabber
<1>10. CASE StopSession \/ DropSession
  <2>1. cast' \in {"none", "created", "recorded", "started"}
    BY <1>10 DEF StopSession, DropSession, Stopping
  <2>2. pc' \in Places
    BY <1>10 DEF StopSession, DropSession, Places
  <2> QED
    BY <1>10, <2>1, <2>2 DEF StopSession, DropSession
<1>11. CASE Announce \/ Vanish \/ CastEnds
  BY <1>11 DEF Announce, Vanish, CastEnds
<1>12. CASE GrabberWrites
  BY <1>12 DEF GrabberWrites
<1>13. CASE GrabberCloses \/ GrabberExits \/ ReaderStops \/ WriterEnds
  BY <1>13 DEF GrabberCloses, GrabberExits, ReaderStops, WriterEnds
<1>14. CASE NextRetry
  BY <1>14 DEF NextRetry
<1>15. CASE UNCHANGED vars
  BY <1>15 DEF vars
<1> QED
  BY <1>1, <1>2, <1>3, <1>4, <1>5, <1>6, <1>7, <1>8, <1>9, <1>10, <1>11, <1>12, <1>13,
     <1>14, <1>15 DEF Next, Producer, Environment

(* Every variable keeps its type; the grabber is never further ahead of the   *)
(* source than the pipe holds.                                              *)
THEOREM GnomeTypeCorrect == Spec => []TypeOK
<1>1. Init => Flags /\ Others
  <2> SUFFICES ASSUME Init PROVE Flags /\ Others
    OBVIOUS
  <2>1. Flags
    BY DEF Init, Flags
  <2>2. Others
    <3>1. made \in [id : Nat, blank : BOOLEAN]
      BY DEF Init
    <3>2. pc \in Places
      BY DEF Init, Places
    <3> QED
      BY <3>1, <3>2, GnomeAssumption DEF Init, Others
  <2> QED
    BY <2>1, <2>2
<1>2. Flags /\ Others /\ [Next]_vars => (Flags /\ Others)'
  BY FlagSteps, OtherSteps
<1>3. Flags /\ Others => TypeOK
  BY DEF Flags, Others, TypeOK
<1> QED
  BY <1>1, <1>2, <1>3, PTL DEF Spec

-----------------------------------------------------------------------------
(* The lease of the monitor.                                                 *)

(* What the producer's place says of what it holds.                          *)
Lease ==
    /\ pc \in {"connect", "done"} => ~bus
    /\ pc \notin {"connect", "done"} => bus
    /\ Streaming \/ pc = "await" => cast = "started" \/ ended
    /\ pc \notin {"first", "check", "next", "offer", "kill"}
          => grabber \in {"none", "reaped"}
    /\ stopped => pc \in {"drop", "done"}

(* The host listens before the session is started.                           *)
Listens == /\ pc = "start" \/ cast = "started" => listening
           /\ emitted => heard

(* The producer holds what its place says.                                   *)
THEOREM LeaseInvariant == Spec => []Lease
<1> USE DEF Lease, Streaming
<1>1. Init => Lease
  BY DEF Init
<1>2. TypeOK /\ Lease /\ [Next]_vars => Lease'
  <2> SUFFICES ASSUME TypeOK, Lease, [Next]_vars
               PROVE  Lease'
    OBVIOUS
  <2> USE DEF Goto, host, mutter, child, threads
  <2>1. CASE \/ Connect \/ ConnectFails \/ CreateSession \/ RecordVirtual \/ Subscribe
           \/ Start \/ StartFails \/ AwaitNode \/ HangUp
    BY <2>1 DEF Connect, ConnectFails, Advance, CreateSession, RecordVirtual,
                Subscribe, Start, StartFails, AwaitNode, HangUp
  <2>2. CASE Spawn \/ SpawnFails \/ ReadFirst \/ FirstFails
    BY <2>2 DEF Spawn, SpawnFails, ReadFirst, FirstFails
  <2>3. CASE \/ CheckStop \/ NextPending \/ NextCanvas \/ NextRetry \/ NextBlank
           \/ OfferFrame
    BY <2>3 DEF CheckStop, NextPending, NextCanvas, NextRetry, NextBlank, OfferFrame
  <2>4. CASE KillGrabber \/ StopSession \/ DropSession
    BY <2>4 DEF KillGrabber, Stopping, StopSession, DropSession
  <2>5. CASE Environment
    BY <2>5 DEF Environment, Announce, Vanish, CastEnds, GrabberWrites, GrabberCloses,
                GrabberExits, ReaderStops, WriterEnds
  <2>6. CASE UNCHANGED vars
    BY <2>6 DEF vars
  <2> QED
    BY <2>1, <2>2, <2>3, <2>4, <2>5, <2>6 DEF Next, Producer
<1> QED
  BY <1>1, <1>2, GnomeTypeCorrect, PTL DEF Spec

(* Nothing is announced before the host listens.                             *)
THEOREM ListensInvariant == Spec => []Listens
<1> USE DEF Listens
<1>1. Init => Listens
  BY DEF Init
<1>2. TypeOK /\ Listens /\ [Next]_vars => Listens'
  <2> SUFFICES ASSUME TypeOK, Listens, [Next]_vars
               PROVE  Listens'
    OBVIOUS
  <2> USE DEF Goto, host, mutter, child, threads
  <2>1. CASE \/ Connect \/ ConnectFails \/ CreateSession \/ RecordVirtual \/ Subscribe
           \/ Start \/ StartFails \/ AwaitNode \/ HangUp
    BY <2>1 DEF Connect, ConnectFails, Advance, CreateSession, RecordVirtual,
                Subscribe, Start, StartFails, AwaitNode, HangUp
  <2>2. CASE Spawn \/ SpawnFails \/ ReadFirst \/ FirstFails
    BY <2>2 DEF Spawn, SpawnFails, ReadFirst, FirstFails
  <2>3. CASE \/ CheckStop \/ NextPending \/ NextCanvas \/ NextRetry \/ NextBlank
           \/ OfferFrame
    BY <2>3 DEF CheckStop, NextPending, NextCanvas, NextRetry, NextBlank, OfferFrame
  <2>4. CASE KillGrabber \/ StopSession \/ DropSession
    BY <2>4 DEF KillGrabber, Stopping, StopSession, DropSession
  <2>5. CASE Environment
    BY <2>5 DEF Environment, Announce, Vanish, CastEnds, GrabberWrites, GrabberCloses,
                GrabberExits, ReaderStops, WriterEnds
  <2>6. CASE UNCHANGED vars
    BY <2>6 DEF vars
  <2> QED
    BY <2>1, <2>2, <2>3, <2>4, <2>5, <2>6 DEF Next, Producer
<1> QED
  BY <1>1, <1>2, GnomeTypeCorrect, PTL DEF Spec

(* While frames are taken the host keeps the monitor: neither a failed call     *)
(* nor the drop of an object ends the session early.                          *)
THEOREM Held == Spec => []MonitorHeld
<1>1. Lease => MonitorHeld
  BY DEF Lease, MonitorHeld, Streaming
<1> QED
  BY <1>1, LeaseInvariant, PTL

(* However open fails and whenever shutdown comes, no grabber and no           *)
(* connection to the bus is left behind, and none runs on a stopped session.  *)
THEOREM SourceReleased == Spec => []Released
<1>1. Lease => Released
  BY DEF Lease, Released
<1> QED
  BY <1>1, LeaseInvariant, PTL

(* The signal that names the stream is never missed.                          *)
THEOREM Heard == Spec => []NodeIsHeard
<1>1. Listens => NodeIsHeard
  BY DEF Listens, NodeIsHeard
<1> QED
  BY <1>1, ListensInvariant, PTL

-----------------------------------------------------------------------------
(* The order of the canvases.                                                *)

Unopened == pc \in {"connect", "create", "record", "subscribe", "start", "await",
                    "spawn", "first"}

(* The canvases in the pipe are newer than the one read last, which is newer   *)
(* than what was handed out or is it; a blank frame means the pipe has dried   *)
(* up for good.                                                             *)
Order ==
    /\ frameId <= canvases
    /\ \A i \in 1..Len(pipe) : frameId < pipe[i] /\ pipe[i] <= canvases
    /\ \A i, j \in 1..Len(pipe) : i < j => pipe[i] < pipe[j]
    /\ ~made.blank => made.id <= frameId
    /\ pending => ~made.blank /\ made.id < frameId
    /\ made.blank => pipe = <<>> /\ grabber = "reaped"
    /\ Unopened => ~pending /\ ~made.blank /\ made.id = 0

(* What is left of a pipe after a read, and what a write makes of one.         *)
LEMMA PipeFacts ==
    ASSUME NEW p \in Seq(Nat)
    PROVE  /\ p # <<>> => /\ Head(p) = p[1] /\ Len(p) > 0 /\ Head(p) \in Nat
                         /\ Len(Tail(p)) = Len(p) - 1
                         /\ \A i \in 1..Len(Tail(p)) : Tail(p)[i] = p[i + 1]
           /\ \A n \in Nat : /\ Len(Append(p, n)) = Len(p) + 1
                            /\ \A i \in 1..Len(p) : Append(p, n)[i] = p[i]
                            /\ Append(p, n)[Len(p) + 1] = n
OBVIOUS

(* Reading takes the oldest canvas, which is older than those that stay.       *)
LEMMA ReadKeepsOrder ==
    ASSUME TypeOK, Order, pipe # <<>>, pipe' = Tail(pipe), frameId' = Head(pipe),
           canvases' = canvases
    PROVE  /\ frameId < frameId' /\ frameId' <= canvases'
           /\ \A i \in 1..Len(pipe') : frameId' < pipe'[i] /\ pipe'[i] <= canvases'
           /\ \A i, j \in 1..Len(pipe') : i < j => pipe'[i] < pipe'[j]
<1>1. /\ Head(pipe) = pipe[1] /\ 1 \in 1..Len(pipe)
      /\ Len(pipe') = Len(pipe) - 1
      /\ \A i \in 1..Len(pipe') : pipe'[i] = pipe[i + 1]
  BY PipeFacts DEF TypeOK
<1>2. \A i \in 1..Len(pipe') : i + 1 \in 1..Len(pipe) /\ 1 < i + 1
  BY <1>1 DEF TypeOK
<1>3. frameId < frameId' /\ frameId' <= canvases'
  BY <1>1 DEF TypeOK, Order
<1>4. \A i \in 1..Len(pipe') : frameId' < pipe'[i] /\ pipe'[i] <= canvases'
  BY <1>1, <1>2 DEF TypeOK, Order
<1>5. ASSUME NEW i \in 1..Len(pipe'), NEW j \in 1..Len(pipe'), i < j
      PROVE  pipe'[i] < pipe'[j]
  <2>1. i + 1 < j + 1
    BY <1>5
  <2> QED
    BY <1>1, <1>2, <1>5, <2>1 DEF Order
<1> QED
  BY <1>3, <1>4, <1>5

(* Canvases wait, are read and are handed out in their order.                  *)
THEOREM OrderInvariant == Spec => []Order
<1>1. Init => Order
  BY DEF Init, Order, Unopened
<1>2. TypeOK /\ Order /\ [Next]_vars => Order'
  <2> SUFFICES ASSUME TypeOK, Order, [Next]_vars
               PROVE  Order'
    OBVIOUS
  <2> USE DEF Goto, host, mutter, child, threads
  <2>1. CASE \/ Connect \/ ConnectFails \/ CreateSession \/ RecordVirtual \/ Subscribe
             \/ Start \/ StartFails \/ AwaitNode \/ HangUp
    BY <2>1 DEF Order, Unopened, Connect, ConnectFails, Advance, CreateSession,
                RecordVirtual, Subscribe, Start, StartFails, AwaitNode, HangUp
  <2>2. CASE Spawn \/ SpawnFails \/ FirstFails
    BY <2>2 DEF Order, Unopened, Spawn, SpawnFails, FirstFails
  <2>3. CASE ReadFirst
    <3>1. /\ pipe # <<>> /\ pipe' = Tail(pipe) /\ frameId' = Head(pipe)
          /\ UNCHANGED <<canvases, made, grabber>>
          /\ pc = "first" /\ pc' = "check"
      BY <2>3 DEF ReadFirst
    <3>2. ~made.blank /\ made.id = 0 /\ frameId < frameId'
      BY <3>1, ReadKeepsOrder DEF Order, Unopened
    <3>3. ~Unopened'
      BY <3>1 DEF Unopened
    <3>4. made'.id = 0 /\ ~made'.blank
      BY <3>1, <3>2
    <3>5. 0 < frameId' /\ 0 <= frameId'
      BY <3>1, <3>2, PipeFacts DEF TypeOK
    <3>6. /\ frameId' <= canvases'
          /\ \A i \in 1..Len(pipe') : frameId' < pipe'[i] /\ pipe'[i] <= canvases'
          /\ \A i, j \in 1..Len(pipe') : i < j => pipe'[i] < pipe'[j]
      BY <3>1, ReadKeepsOrder
    <3> QED
      BY <3>3, <3>4, <3>5, <3>6 DEF Order
  <2>4. CASE CheckStop \/ OfferFrame
    BY <2>4 DEF Order, Unopened, CheckStop, OfferFrame
  <2>5. CASE NextPending
    <3>1. made'.id = frameId /\ made'.blank = FALSE /\ pending' = FALSE
      BY <2>5 DEF NextPending
    <3>2. UNCHANGED <<frameId, pipe, canvases>> /\ ~Unopened'
      BY <2>5 DEF NextPending, Unopened
    <3> QED
      BY <3>1, <3>2 DEF Order, TypeOK
  <2>6. CASE NextCanvas
    <3>1. /\ pipe # <<>> /\ pipe' = Tail(pipe) /\ frameId' = Head(pipe)
          /\ canvases' = canvases /\ ~pending /\ pending' = pending
          /\ pc = "next" /\ pc' \in {"next", "offer"}
      BY <2>6 DEF NextCanvas
    <3>2. ~made.blank /\ made.id < frameId'
      BY <3>1, ReadKeepsOrder DEF Order, TypeOK
    <3>3. ~made'.blank /\ made'.id <= frameId'
      <4>1. CASE made' = [id |-> frameId', blank |-> FALSE]
        <5>1. frameId' \in Nat
          BY <3>1, PipeFacts DEF TypeOK
        <5> QED
          BY <4>1, <5>1
      <4>2. CASE made' = made
        <5>1. frameId' \in Nat
          BY <3>1, PipeFacts DEF TypeOK
        <5> QED
          BY <3>2, <4>2, <5>1 DEF TypeOK
      <4> QED
        BY <2>6, <4>1, <4>2 DEF NextCanvas
    <3>4. ~Unopened'
      BY <3>1 DEF Unopened
    <3> QED
      BY <3>1, <3>3, <3>4, ReadKeepsOrder DEF Order
  <2>7. CASE NextBlank
    <3>1. made'.blank /\ pipe' = <<>> /\ grabber' = "reaped" /\ ~pending /\ ~pending'
      BY <2>7 DEF NextBlank
    <3>2. UNCHANGED <<frameId, canvases>> /\ ~Unopened' /\ Len(<<>>) = 0
      BY <2>7 DEF NextBlank, Unopened
    <3> QED
      BY <3>1, <3>2 DEF Order
  <2>8. CASE KillGrabber \/ StopSession \/ DropSession
    BY <2>8 DEF Order, Unopened, KillGrabber, StopSession, DropSession
  <2>9. CASE GrabberWrites
    <3>1. /\ canvases' = canvases + 1 /\ pipe' = Append(pipe, canvases')
          /\ grabber = "running"
          /\ UNCHANGED <<pc, pending, frameId, grabber, made>>
      BY <2>9 DEF GrabberWrites
    <3>2. /\ Len(pipe') = Len(pipe) + 1
          /\ \A i \in 1..Len(pipe) : pipe'[i] = pipe[i]
          /\ pipe'[Len(pipe) + 1] = canvases + 1
      BY <3>1, PipeFacts DEF TypeOK
    <3>3. frameId < canvases + 1 /\ frameId <= canvases'
      BY <3>1 DEF TypeOK, Order
    <3>4. \A i \in 1..Len(pipe) : pipe[i] \in Nat /\ pipe[i] < canvases + 1
      BY DEF TypeOK, Order
    <3>5. ASSUME NEW i \in 1..Len(pipe')
          PROVE  frameId < pipe'[i] /\ pipe'[i] <= canvases'
      <4>1. CASE i \in 1..Len(pipe)
        BY <3>1, <3>2, <3>4, <4>1 DEF Order, TypeOK
      <4>2. CASE i = Len(pipe) + 1
        BY <3>1, <3>2, <3>3, <4>2 DEF TypeOK
      <4> QED
        BY <3>2, <3>5, <4>1, <4>2 DEF TypeOK
    <3>6. ASSUME NEW i \in 1..Len(pipe'), NEW j \in 1..Len(pipe'), i < j
          PROVE  pipe'[i] < pipe'[j]
      <4>1. i \in 1..Len(pipe)
        BY <3>2, <3>6 DEF TypeOK
      <4>2. CASE j \in 1..Len(pipe)
        BY <3>2, <3>6, <4>1, <4>2 DEF Order
      <4>3. CASE j = Len(pipe) + 1
        BY <3>2, <3>4, <4>1, <4>3
      <4> QED
        BY <3>2, <3>6, <4>2, <4>3 DEF TypeOK
    <3>7. ~made'.blank
      BY <3>1 DEF Order
    <3> QED
      BY <3>1, <3>3, <3>5, <3>6, <3>7 DEF Order, Unopened
  <2>10. CASE Announce \/ Vanish \/ CastEnds \/ ReaderStops \/ WriterEnds
    BY <2>10 DEF Order, Unopened, Announce, Vanish, CastEnds, ReaderStops, WriterEnds
  <2>11. CASE GrabberCloses \/ GrabberExits
    BY <2>11 DEF Order, Unopened, GrabberCloses, GrabberExits
  <2>12. CASE NextRetry
    <3>1. /\ pipe # <<>> /\ pipe' = Tail(pipe) /\ grabber \in {"running", "closing"}
          /\ UNCHANGED <<pc, pending, frameId, canvases, grabber, made>>
      BY <2>12 DEF NextRetry
    <3>2. /\ Len(pipe') = Len(pipe) - 1 /\ Len(pipe) \in Nat
          /\ \A i \in 1..Len(pipe') : pipe'[i] = pipe[i + 1] /\ i + 1 \in 1..Len(pipe)
      BY <3>1, PipeFacts DEF TypeOK
    <3>3. \A i \in 1..Len(pipe') : frameId' < pipe'[i] /\ pipe'[i] <= canvases'
      BY <3>1, <3>2 DEF Order
    <3>4. ASSUME NEW i \in 1..Len(pipe'), NEW j \in 1..Len(pipe'), i < j
          PROVE  pipe'[i] < pipe'[j]
      <4>1. i + 1 < j + 1
        BY <3>4
      <4> QED
        BY <3>2, <3>4, <4>1 DEF Order
    <3>5. ~made'.blank
      BY <3>1 DEF Order
    <3> QED
      BY <3>1, <3>3, <3>4, <3>5 DEF Order, Unopened
  <2>13. CASE UNCHANGED vars
    BY <2>13 DEF Order, Unopened, vars
  <2> QED
    BY <2>1, <2>2, <2>3, <2>4, <2>5, <2>6, <2>7, <2>8, <2>9, <2>10, <2>11, <2>12, <2>13
    DEF Next, Producer, Environment
<1> QED
  BY <1>1, <1>2, GnomeTypeCorrect, PTL DEF Spec

(* Every canvas becomes a frame at most once and in order, and none after a    *)
(* blank frame.                                                             *)
THEOREM InCanvasOrder == Spec => CanvasesInOrder
<1> DEFINE Newer == HandsOut /\ ~made'.blank => ~made.blank /\ made'.id > made.id
<1>1. TypeOK /\ Order /\ [Next]_vars => [Newer]_vars
  <2> SUFFICES ASSUME TypeOK, Order, Next
               PROVE  Newer
    BY DEF vars
  <2>1. CASE NextPending
    <3>1. pending /\ made'.id = frameId
      BY <2>1 DEF NextPending
    <3> QED
      BY <3>1 DEF Order, TypeOK
  <2>2. CASE NextCanvas
    <3>1. /\ pipe # <<>> /\ pipe' = Tail(pipe) /\ frameId' = Head(pipe)
          /\ canvases' = canvases
          /\ made' = [id |-> frameId', blank |-> FALSE] \/ pc' = pc
      BY <2>2 DEF NextCanvas
    <3>2. ~made.blank /\ made.id < frameId' /\ frameId' \in Nat
      BY <3>1, ReadKeepsOrder, PipeFacts DEF Order, TypeOK
    <3>3. CASE made' = [id |-> frameId', blank |-> FALSE]
      BY <3>2, <3>3 DEF TypeOK
    <3>4. CASE pc' = pc
      BY <3>4 DEF HandsOut
    <3> QED
      BY <3>1, <3>3, <3>4
  <2>3. CASE NextBlank
    BY <2>3 DEF NextBlank
  <2>4. CASE \/ Connect \/ ConnectFails \/ CreateSession \/ RecordVirtual \/ Subscribe
             \/ Start \/ StartFails \/ AwaitNode \/ HangUp
    BY <2>4 DEF HandsOut, Goto, Connect, ConnectFails, Advance, CreateSession,
                RecordVirtual, Subscribe, Start, StartFails, AwaitNode, HangUp
  <2>5. CASE \/ Spawn \/ SpawnFails \/ ReadFirst \/ FirstFails \/ CheckStop
             \/ NextRetry \/ OfferFrame \/ KillGrabber \/ StopSession \/ DropSession
    BY <2>5 DEF HandsOut, Goto, Spawn, SpawnFails, ReadFirst, FirstFails, CheckStop,
                NextRetry, OfferFrame, KillGrabber, StopSession, DropSession
  <2>6. CASE Environment
    BY <2>6 DEF HandsOut, Environment, Announce, Vanish, CastEnds, GrabberWrites, GrabberCloses,
                GrabberExits, ReaderStops, WriterEnds
  <2> QED
    BY <2>1, <2>2, <2>3, <2>4, <2>5, <2>6 DEF Next, Producer
<1> QED
  BY <1>1, GnomeTypeCorrect, OrderInvariant, PTL DEF Spec, CanvasesInOrder
=============================================================================
