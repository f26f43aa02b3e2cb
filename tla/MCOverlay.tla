----------------------------- MODULE MCOverlay -----------------------------
(* Small instances of Overlay for TLC. *)
EXTENDS Overlay

CONSTANTS p, q,      \* two bitmaps
          v,         \* a consumer
          MaxEvents  \* bound: operations, frames, changes of platform and ticks together

Bounded == posted + answers + platform + (src - 1) + (now - 1) <= MaxEvents

\* OverlayFairSpec of the behaviours within the bound.
MCFairSpec == /\ OverlayInit /\ [][OverlayNext /\ Bounded']_overlayVars
              /\ WF_overlayVars(WorkerApplies) /\ WF_overlayVars(DrainSocketLog)
=============================================================================
