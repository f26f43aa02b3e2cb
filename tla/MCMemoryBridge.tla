--------------------------- MODULE MCMemoryBridge ---------------------------
(* Small instances of MemoryBridge for TLC. *)
EXTENDS MemoryBridge

CONSTANTS a, b  \* two ranges

\* A Subscribe for either range.
MCSets == {{a}, {b}}
=============================================================================
