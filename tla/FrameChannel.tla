---------------------------- MODULE FrameChannel ----------------------------
(***************************************************************************)
(* What one streaming connection promises its client, without the threads   *)
(* that implement it: a bounded, lossy, ordered channel.  A message is      *)
(* either accepted or lost when it is offered; an accepted one is sent, in   *)
(* the order of acceptance and once, unless the channel says goodbye or      *)
(* fails first; nothing follows a goodbye.                                   *)
(*                                                                         *)
(* Messages are records [kind, id]: the n-th frame of the connection's       *)
(* source, the answer to ping n, or a goodbye (a DISCONNECT).                *)
(***************************************************************************)
EXTENDS Integers, Sequences

CONSTANTS
    Messages,       \* every message that may be offered: a set of such records
    Bound           \* how many messages may be accepted and not yet sent

VARIABLES
    sent,           \* what the transport has carried so far
    pending,        \* accepted, not yet sent
    closed,         \* the channel sends nothing any more
    faulty          \* ... because the transport or the sender broke

cvars == <<sent, pending, closed, faulty>>

(* m is newer than every message of its kind in s.  Goodbyes have no number.  *)
Newest(m, s) == \A i \in 1..Len(s) :
                   s[i].kind = m.kind /\ m.kind # "bye" => s[i].id < m.id

Init == /\ sent = <<>>
        /\ pending = <<>>
        /\ closed = FALSE
        /\ faulty = FALSE

Accept(m) == /\ ~closed
             /\ Len(pending) < Bound
             /\ Newest(m, sent)
             /\ Newest(m, pending)
             /\ pending' = Append(pending, m)
             /\ UNCHANGED <<sent, closed, faulty>>

Emit == /\ pending # <<>>
        /\ Head(pending).kind # "bye"
        /\ sent' = Append(sent, Head(pending))
        /\ pending' = Tail(pending)
        /\ UNCHANGED <<closed, faulty>>

(* The goodbye ends the channel; what was accepted behind it is dropped.     *)
SayGoodbye == /\ pending # <<>>
              /\ Head(pending).kind = "bye"
              /\ sent' = Append(sent, Head(pending))
              /\ pending' = <<>>
              /\ closed' = TRUE
              /\ UNCHANGED faulty

(* Without a goodbye the channel ends only when it has nothing left to send. *)
Finish == /\ ~closed
          /\ pending = <<>>
          /\ closed' = TRUE
          /\ UNCHANGED <<sent, pending, faulty>>

Break == /\ ~closed
         /\ pending' = <<>>
         /\ closed' = TRUE
         /\ faulty' = TRUE
         /\ UNCHANGED sent

Next == \/ \E m \in Messages : Accept(m)
        \/ Emit
        \/ SayGoodbye
        \/ Finish
        \/ Break

Spec == Init /\ [][Next]_cvars
=============================================================================
