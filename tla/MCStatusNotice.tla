--------------------------- MODULE MCStatusNotice ---------------------------
\* Instances of StatusNotice for TLC.
EXTENDS StatusNotice

S(session, system, auth) == [session |-> session, system |-> system, auth |-> auth]

\* A daemon that hides, an idle one, a game tracked by one whose account is not paired, a game without data,
\* and a session state of a later protocol.
MCStatuses == {S("hidden", "ok", "absent"), S("none", "ok", "authenticated"),
               S("tracking", "ok", "unpaired"), S("no data", "ok", "absent"), S("unknown", "ok", "failed")}

CONSTANT MaxEvents  \* bound: Statuses, sessions, authored games and ticks together

\* A change of table counts as three of them.
Bounded == 3 * (table - 1) + counts.statuses + counts.sessions + counts.games + (now - 1) <= MaxEvents

OutsideGame == {[show |-> TRUE, notices |-> NOTICES_OUTSIDE_GAME]}
=============================================================================
