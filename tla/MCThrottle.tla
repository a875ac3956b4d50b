----------------------------- MODULE MCThrottle -----------------------------
(* Instances of Throttle for TLC. *)
EXTENDS Throttle, MCAccounts

CONSTANTS a1, a2, a3, a4, web

\* Four publishes of one process, the last a status change.
OneHome == [c \in {a1, a2, a3, a4} |-> web]
=============================================================================
