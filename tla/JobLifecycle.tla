---------------------------- MODULE JobLifecycle ----------------------------
(***************************************************************************)
(* What the job system promises of a Job, without queues, workers or the   *)
(* reaper: it waits, runs, yields and ends; what it makes durable it makes *)
(* step by step while it runs; its end is final; and it does not run while *)
(* the Job it depends on is still to end.  src/backend/app/domain/enums.py *)
(* names the states; db/models/job.py and worker.py say what they mean.    *)
(***************************************************************************)
EXTENDS Naturals

CONSTANTS Job, None, Steps, Dep

VARIABLES phase, made

Final  == {"done", "failed", "cancelled"}    \* no step leads to the last of them
Phases == {"absent", "queued", "running"} \cup Final
Ended(j) == phase[j] \in Final

Init ==
    /\ phase = [j \in Job |-> "absent"]
    /\ made = [j \in Job |-> 0]

Submit(j) ==
    /\ phase[j] = "absent"
    /\ phase' = [phase EXCEPT ![j] = "queued"]
    /\ UNCHANGED made

Begin(j) ==
    /\ phase[j] = "queued"
    /\ Dep[j] # None => Ended(Dep[j])
    /\ phase' = [phase EXCEPT ![j] = "running"]
    /\ UNCHANGED made

\* One step's writes become durable; the Job yields, or is done after the last.
Make(j) ==
    /\ phase[j] = "running"
    /\ made' = [made EXCEPT ![j] = @ + 1]
    /\ phase' = [phase EXCEPT ![j] = IF made[j] + 1 < Steps[j] THEN "queued" ELSE "done"]

\* Attempts end without effect: deferred, retried, interrupted or failed.
Undo ==
    /\ phase' \in [Job -> Phases]
    /\ \A j \in Job :
        phase'[j] # phase[j] => phase[j] = "running" /\ phase'[j] \in {"queued", "failed"}
    /\ UNCHANGED made

Next ==
    \/ \E j \in Job : Submit(j) \/ Begin(j) \/ Make(j)
    \/ Undo

Spec == Init /\ [][Next]_<<phase, made>>

=============================================================================
