------------------------------ MODULE MCFiles ------------------------------
(* Instances of Files for TLC; with it the rules of Content, Sidecar and    *)
(* Upkeep, which have no state of their own, are checked over small inputs. *)
EXTENDS Files, MCUpkeep, TLC

CONSTANTS f1, f2, k1

\* Two versions of one artefact.
SameKey == [f \in File |-> k1]
AllFaults == {"doubt", "disk", "cancel", "crash"}
=============================================================================
