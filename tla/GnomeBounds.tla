----------------------------- MODULE GnomeBounds ------------------------------
(* The bounds of a gnome source and of the connection it feeds.               *)
EXTENDS Naturals

CONSTANTS
    PipeCap,        \* canvases the grabber can be ahead of the source
    MaxCanvases     \* bound: canvases the grabber makes before the desktop rests

ASSUME GnomeAssumption == PipeCap \in Nat \ {0} /\ MaxCanvases \in Nat
=============================================================================
