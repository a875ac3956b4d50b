------------------------------- MODULE MCJobs -------------------------------
(* Instances of Jobs for TLC. *)
EXTENDS Jobs, TLC

CONSTANTS j1, j2, w1, w2

\* j1 alone, a cursor Job of two steps.
SoloSteps  == j1 :> 2
SoloDep    == j1 :> None
\* Two ordinary Jobs.
OneStep    == j1 :> 1 @@ j2 :> 1
\* j2 waits for j1.
Chain      == j1 :> None @@ j2 :> j1
AllFaults  == {"lose", "kill", "silence", "unlist", "flush", "failopen", "live"}

Workers == Permutations(Worker)
=============================================================================
