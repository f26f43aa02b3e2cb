--------------------------- MODULE MCGameDelivery ---------------------------
(* Small instances of GameDelivery for TLC. *)
EXTENDS GameDelivery

MaxEvents == 7  \* bound: tables, calls, lost connections and restarts together

Bounded == epoch + calls + losses + restarts <= MaxEvents
=============================================================================
