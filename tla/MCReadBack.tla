----------------------------- MODULE MCReadBack -----------------------------
(* Small instances of ReadBack for TLC. *)
EXTENDS ReadBack

\* A daemon that serves everything, and one that knows no authored tables.
MCPeers == {[leaderboards |-> TRUE, authored |-> TRUE],
            [leaderboards |-> TRUE, authored |-> FALSE]}
=============================================================================
