---------------------------- MODULE Reconnection -----------------------------
(***************************************************************************)
(* The client and the tunnel keeper together: the client's cable is the        *)
(* keeper's tunnel, which a pull of the phone takes away at once and only the  *)
(* keeper brings back (scripts/adb-usb-setup.sh, UsbraClient.kt).             *)
(***************************************************************************)
EXTENDS UsbraClient

VARIABLES plugged, keeper, missed

K == INSTANCE TunnelKeeper WITH tunnel <- cable

keeperVars == <<plugged, keeper, missed>>
allVars == <<vars, keeperVars>>

RInit == Init /\ K!Init

Install == /\ K!InstallTunnel
           /\ IF cable THEN UNCHANGED vars ELSE Replug

KeepTunnel == \/ Install
              \/ /\ UNCHANGED vars
                 /\ K!WaitForDevice \/ K!InstallFails \/ K!Look

(* Only the pulls that take a tunnel away are counted.                        *)
Pull == /\ K!Pull
        /\ IF cable THEN Unplug ELSE UNCHANGED vars

Plug == K!Plug /\ UNCHANGED vars

(* What does not concern the tunnel.                                         *)
Rest == /\ UNCHANGED keeperVars
        /\ \/ Client \/ Pingers \/ ClearRunning \/ CloseSocket
           \/ HostAnswers \/ HostReplies \/ HostFrame \/ HostDies \/ HostStarts

RNext == KeepTunnel \/ Pull \/ Plug \/ Rest

RSpec == RInit /\ [][RNext]_allVars

(* The script goes on; who holds the phone need not do anything.  Steps of the  *)
(* client, and those of the host, leave the keeper alone, so they are fair as   *)
(* they are.                                                                 *)
FairRSpec == RSpec /\ Fairness /\ WF_allVars(KeepTunnel)

-----------------------------------------------------------------------------
(* Properties.                                                               *)

KeeperTypeOK == K!TypeOK /\ (cable => plugged)

(* Between two looks a plugged phone has its tunnel, unless it came back   *)
(* between two looks.                                                        *)
TunnelUnlessMissed == K!TunnelUnlessMissed

(* The tunnel's state, whoever changed it.                                     *)
KeeperSafe == KeeperTypeOK /\ TunnelUnlessMissed

(* All that is said of the client alone holds beside the keeper: it is never in *)
(* a busy loop, its session is one the host granted, it leaves no socket, and   *)
(* after a stop at most one event is still delivered.                         *)
ClientSafe == TypeOK /\ NoBusyRetry /\ Agreed /\ NoSocketLeft /\ AtMostOneLate

(* A client whose phone stays plugged comes back into session, if the keeper   *)
(* lives and missed no replug.                                               *)
ComesBackIfSeen ==
    []running /\ <>[]plugged /\ []~missed /\ [](keeper # "dead")
        => <>[](pc \in Pumping)
=============================================================================
