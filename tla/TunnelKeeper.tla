---------------------------- MODULE TunnelKeeper -----------------------------
(***************************************************************************)
(* The tunnel keeper (scripts/adb-usb-setup.sh): a shell script that installs  *)
(* the reverse tunnel when a phone is there, and then looks every two seconds  *)
(* whether it still is.  adb forgets the tunnel with the device.              *)
(***************************************************************************)

VARIABLES
    plugged,        \* adb has the phone as a device
    tunnel,         \* the phone's port leads to the host
    keeper,         \* where the script is
    missed          \* history: the phone came back before the script looked

vars == <<plugged, tunnel, keeper, missed>>

TypeOK == /\ plugged \in BOOLEAN /\ tunnel \in BOOLEAN /\ missed \in BOOLEAN
          /\ keeper \in {"wait", "install", "watch", "dead"}

Init == /\ plugged \in BOOLEAN /\ tunnel \in BOOLEAN
        /\ tunnel => plugged
        /\ keeper = "wait" /\ missed = FALSE

At(from, to) == keeper = from /\ keeper' = to

\* Fault: the device is waited for, but the tunnel is not installed after it.
WaitForDeviceFault == /\ At("wait", "watch")
                      /\ plugged
                      /\ UNCHANGED <<plugged, tunnel, missed>>

(* adb wait-for-device.                                                      *)
WaitForDevice == /\ At("wait", "install")
                 /\ plugged
                 /\ UNCHANGED <<plugged, tunnel, missed>>

\* Fault: whether adb reverse worked is not asked.
InstallTunnelFault == /\ At("install", "watch")
                      /\ tunnel' = TRUE
                      /\ UNCHANGED <<plugged, missed>>

InstallTunnel == /\ At("install", "watch")
                 /\ plugged
                 /\ tunnel' = TRUE
                 /\ UNCHANGED <<plugged, missed>>

(* The device went before adb reverse ran: under set -e that ends the script.  *)
InstallFails == /\ At("install", "dead")
                /\ ~plugged
                /\ UNCHANGED <<plugged, tunnel, missed>>

(* adb get-state tells what is plugged now, not what was since the last look,  *)
(* two seconds ago.  A look that finds the phone changes nothing.             *)
Look == /\ At("watch", "wait")
        /\ ~plugged
        /\ UNCHANGED <<plugged, tunnel, missed>>

Pull == /\ plugged
        /\ plugged' = FALSE /\ tunnel' = FALSE /\ missed' = FALSE
        /\ UNCHANGED keeper

Plug == /\ ~plugged
        /\ plugged' = TRUE
        /\ missed' = (keeper = "watch")
        /\ UNCHANGED <<tunnel, keeper>>

Next == WaitForDevice \/ InstallTunnel \/ InstallFails \/ Look \/ Pull \/ Plug

Spec == Init /\ [][Next]_vars

(* Between two looks a plugged phone has its tunnel, unless it came back   *)
(* between two looks.                                                        *)
TunnelUnlessMissed == keeper = "watch" /\ plugged => tunnel \/ missed
=============================================================================
