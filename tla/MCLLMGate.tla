----------------------------- MODULE MCLLMGate -----------------------------
(* Instances of LLMGate for TLC. *)
EXTENDS LLMGate, MCSettings, TLC

CONSTANTS live, job, late_job

\* A live recap, and two Jobs of one class.
Classes == live :> 0 @@ job :> 4 @@ late_job :> 4
AllFaults == {"late", "lose", "crash", "stall"}
=============================================================================
