-------------------------------- MODULE Jobs --------------------------------
(***************************************************************************)
(* The background Jobs of Lorekeeper: rows of the `jobs` table (Postgres,  *)
(* the authority), the RQ messages that only carry job ids (Valkey), the   *)
(* workers that claim and run rows, and the reaper that puts the two back  *)
(* in step.  src/backend/app/jobs: worker.py, outbox.py, admission.py.     *)
(*                                                                         *)
(* One action is one database transaction or one Valkey command of one     *)
(* process; everything else may happen in between.  Time is abstract: a    *)
(* timestamp is reduced to what the code compares it with.                 *)
(***************************************************************************)
EXTENDS Naturals, FiniteSets

CONSTANTS
    Job,          \* job rows
    Worker,       \* RQ workers; each runs one Job at a time in a work horse
    Reaper,       \* reaper passes that may overlap
    None,         \* no job, no worker
    MaxAttempts,  \* jobs.max_attempts
    Steps,        \* handler steps a Job needs: 1, or more for a cursor Job
    Dep,          \* depends_on_job_id, or None
    Heavy,        \* Jobs whose kind takes the `res:` lease
    LiveBlocked,  \* Jobs whose kind pauses for a Live Session
    Faults,       \* the disturbances a run allows
    MaxFaults     \* bound on how many of them happen

ASSUME ConstantsAssumption ==
    /\ None \notin Job /\ None \notin Worker
    /\ MaxAttempts \in Nat \ {0}
    /\ MaxFaults \in Nat
    /\ Steps \in [Job -> Nat \ {0}]
    /\ Dep \in [Job -> Job \cup {None}]
    /\ IsFiniteSet(Worker)

VARIABLES
    \* the rows
    status, attempts, owner,
    due,       \* next_run_at: unset, in the future, or passed
    cursor,    \* handler steps committed with the row (payload.cursor)
    young,     \* rows created less than QUEUED_GRACE_S ago
    silent,    \* running rows whose heartbeat is older than STALE_AFTER_S
    outbox,    \* committed rows whose after-commit push is still to come
    \* Valkey
    queue,     \* RQ messages: job and form of the RQ id
    delayed,   \* the delayed set: absent, scored in the future, or due
    lease,     \* the Job that holds the `res:` key
    live,      \* whether `lease:live` exists
    listed,    \* the workers RQ's registry lists
    \* the workers
    pc, job, form, seen, took, continued,
    \* the reaper passes
    rpc, rlive, rrows,
    \* history
    commits,   \* handler steps whose writes were committed
    starts,    \* handler starts from the row's present cursor
    faults     \* disturbances so far

rows    == <<status, attempts, owner, due, cursor, young, silent, outbox>>
valkey  == <<queue, delayed, lease, live, listed>>
workers == <<pc, job, form, seen, took, continued>>
reapers == <<rpc, rlive, rrows>>
history == <<commits, starts, faults>>
vars    == <<rows, valkey, workers, reapers, history>>

Active   == {"queued", "running"}
Terminal == {"done", "failed", "cancelled"}    \* nothing sets the last of them
Timer    == {"unset", "later", "now"}
Form     == {"own", "distinct"}    \* rq id = job id, or `<job_id>_<hex>`

\* A disturbance happens: it must be one the run allows, and is counted.
Disturb(kind) ==
    /\ kind \in Faults
    /\ faults < MaxFaults
    /\ faults' = faults + 1

Spare == UNCHANGED faults

RowsOK ==
    /\ status \in [Job -> {"absent"} \cup Active \cup Terminal]
    /\ attempts \in [Job -> Nat]
    /\ owner \in [Job -> Worker \cup {None}]
    /\ due \in [Job -> Timer]
    /\ cursor \in [Job -> Nat]
    /\ young \subseteq Job /\ silent \subseteq Job /\ outbox \subseteq Job

ValkeyOK ==
    /\ queue \subseteq Job \X Form
    /\ delayed \in [Job -> Timer]
    /\ lease \in Job \cup {None}
    /\ live \in BOOLEAN
    /\ listed \subseteq Worker

WorkersOK ==
    /\ pc \in [Worker -> {"idle", "taken", "claimed", "run", "release", "push", "return"}]
    /\ job \in [Worker -> Job \cup {None}]
    /\ \A w \in Worker : job[w] = None <=> pc[w] = "idle"
    /\ form \in [Worker -> Form]
    /\ seen \in [Worker -> Nat]
    /\ took \in [Worker -> BOOLEAN]
    /\ continued \in [Worker -> BOOLEAN]

ReapersOK ==
    /\ rpc \in [Reaper -> {"idle", "recover", "push"}]
    /\ rlive \in [Reaper -> [Worker -> Job \cup {None}]]
    /\ rrows \in [Reaper -> SUBSET Job]

HistoryOK ==
    /\ commits \in [Job -> Nat]
    /\ starts \in [Job -> Nat]
    /\ faults \in 0..MaxFaults

TypeOK == RowsOK /\ ValkeyOK /\ WorkersOK /\ ReapersOK /\ HistoryOK

Init ==
    /\ status = [j \in Job |-> "absent"]
    /\ attempts = [j \in Job |-> 0]
    /\ owner = [j \in Job |-> None]
    /\ due = [j \in Job |-> "unset"]
    /\ cursor = [j \in Job |-> 0]
    /\ young = {} /\ silent = {} /\ outbox = {} /\ queue = {}
    /\ delayed = [j \in Job |-> "unset"]
    /\ lease = None
    /\ live = FALSE
    /\ listed = Worker
    /\ pc = [w \in Worker |-> "idle"]
    /\ job = [w \in Worker |-> None]
    /\ form = [w \in Worker |-> "own"]
    /\ seen = [w \in Worker |-> 0]
    /\ took = [w \in Worker |-> FALSE]
    /\ continued = [w \in Worker |-> FALSE]
    /\ rpc = [r \in Reaper |-> "idle"]
    /\ rlive = [r \in Reaper |-> [w \in Worker |-> None]]
    /\ rrows = [r \in Reaper |-> {}]
    /\ commits = [j \in Job |-> 0]
    /\ starts = [j \in Job |-> 0]
    /\ faults = 0

-----------------------------------------------------------------------------
(* Enqueue and the outbox                                                  *)

\* mutant: a dependent is not held
DependencyIgnored(j) == Dep[j] # None => status[Dep[j]] # "absent"

\* The dependency of j, if any, is not active (a held dependent may go).
DependencyOver(j) == Dep[j] # None => status[Dep[j]] \in Terminal

\* The queued dependents that the after-commit dispatch of `finished` pushes.
Dependents(finished) ==
    {k \in Job : status[k] = "queued" /\ Dep[k] \in finished}

\* enqueue and the caller's commit: the row is queued; it is pushed after
\* the commit unless an active dependency holds it.
Enqueue(j) ==
    /\ status[j] = "absent"
    /\ Dep[j] # None => status[Dep[j]] # "absent"
    /\ status' = [status EXCEPT ![j] = "queued"]
    /\ young' = young \cup {j}
    /\ outbox' = IF DependencyOver(j) THEN outbox \cup {j} ELSE outbox
    /\ UNCHANGED <<attempts, owner, due, cursor, silent, valkey, workers, reapers, history>>

\* One push of the after-commit dispatch; it may fail, or its process die.
Dispatch(j) ==
    /\ j \in outbox
    /\ outbox' = outbox \ {j}
    /\ \/ queue' = queue \cup {<<j, "own">>} /\ Spare
       \/ Disturb("lose") /\ UNCHANGED queue
    /\ UNCHANGED <<status, attempts, owner, due, cursor, young, silent,
                   delayed, lease, live, listed, workers, reapers, commits, starts>>

-----------------------------------------------------------------------------
(* A worker and its work horse                                             *)

\* RQ hands the worker a message.
Take(w, m) ==
    /\ pc[w] = "idle"
    /\ m \in queue
    /\ queue' = queue \ {m}
    /\ pc' = [pc EXCEPT ![w] = "taken"]
    /\ job' = [job EXCEPT ![w] = m[1]]
    /\ form' = [form EXCEPT ![w] = m[2]]
    /\ UNCHANGED <<rows, delayed, lease, live, listed, seen, took, continued, reapers, history>>

\* The row the work horse is to run may be claimed.
Claimable(j) ==
    /\ status[j] = "queued"
    /\ due[j] # "later"
    /\ DependencyOver(j)

Claim(w) ==
    LET j == job[w] IN
    /\ pc[w] = "taken"
    /\ Claimable(j)
    /\ status' = [status EXCEPT ![j] = "running"]
    /\ attempts' = [attempts EXCEPT ![j] = @ + 1]
    /\ owner' = [owner EXCEPT ![j] = w]
    /\ silent' = silent \ {j}
    /\ seen' = [seen EXCEPT ![w] = cursor[j]]
    /\ pc' = [pc EXCEPT ![w] = "claimed"]
    /\ UNCHANGED <<due, cursor, young, outbox, valkey, job, form, took, continued, reapers, history>>

ClaimRefused(w) ==
    /\ pc[w] = "taken"
    /\ ~Claimable(job[w])
    /\ pc' = [pc EXCEPT ![w] = "return"]
    /\ UNCHANGED <<rows, valkey, job, form, seen, took, continued, reapers, history>>

\* mutant: any running attempt may write the outcome
OwnsAnyAttempt(w) == status[job[w]] = "running"

\* _owned: this attempt may still write an outcome.
Owns(w) == status[job[w]] = "running" /\ owner[job[w]] = w

\* The rows of the Jobs in J end as s: their dependents are released.
EndRows(J, s) ==
    /\ status' = [j \in Job |-> IF j \in J THEN s ELSE status[j]]
    /\ due' = [j \in Job |-> IF j \in J THEN "unset" ELSE due[j]]
    /\ outbox' = outbox \cup Dependents(J)

\* _finish with `failed`, dropped when the attempt is no longer the owner.
FailRow(w) ==
    /\ IF Owns(w)
       THEN EndRows({job[w]}, "failed") /\ silent' = silent \ {job[w]}
       ELSE UNCHANGED <<status, due, outbox, silent>>
    /\ UNCHANGED <<attempts, owner>>

\* mutant: off by one
LastAttemptLate(j) == attempts[j] > MaxAttempts

\* No attempt is left after this one.
LastAttempt(j) == attempts[j] >= MaxAttempts

\* _record_failure for a code that is retried.
RetryRow(w) ==
    LET j == job[w] IN
    IF Owns(w) /\ ~LastAttempt(j)
    THEN /\ status' = [status EXCEPT ![j] = "queued"]
         /\ due' = [due EXCEPT ![j] = "later"]
         /\ owner' = [owner EXCEPT ![j] = None]
         /\ silent' = silent \ {j}
         /\ UNCHANGED <<attempts, outbox>>
    ELSE FailRow(w)

\* The kind cannot be loaded, the starter lost the rights or has no LLM
\* config: failed at once.  Any other error of the setup is retried.
PrepareFails(w) ==
    /\ pc[w] = "claimed"
    /\ FailRow(w) \/ RetryRow(w)
    /\ pc' = [pc EXCEPT ![w] = "return"]
    /\ UNCHANGED <<cursor, young, valkey, job, form, seen, took, continued, reapers, history>>

\* A Live Session, or another Job's lease, keeps this Job from running now.
Paused(j) == live /\ j \in LiveBlocked
Waits(j)  == j \in Heavy /\ lease \notin {None, j}

\* The handler of the attempt is called.
StartHandler(w) ==
    LET j == job[w] IN
    /\ pc' = [pc EXCEPT ![w] = "run"]
    /\ starts' = [starts EXCEPT ![j] = IF seen[w] = cursor[j] THEN @ + 1 ELSE @]

\* admit: the lease is free or this Job's own (left by a killed attempt).
Admit(w) ==
    LET j == job[w] IN
    /\ pc[w] = "claimed"
    /\ ~Paused(j) /\ ~Waits(j)
    /\ lease' = IF j \in Heavy THEN j ELSE lease
    /\ took' = IF j \in Heavy THEN [took EXCEPT ![w] = TRUE] ELSE took
    /\ StartHandler(w)
    /\ UNCHANGED <<rows, queue, delayed, live, listed, job, form, seen, continued, reapers, commits, faults>>

\* admit when Valkey fails: everything is admitted, nothing stays taken.
AdmitOpen(w) ==
    LET j == job[w] IN
    /\ pc[w] = "claimed"
    /\ Disturb("failopen")
    /\ lease' \in {lease, IF lease = j THEN None ELSE lease}
    /\ StartHandler(w)
    /\ UNCHANGED <<rows, queue, delayed, live, listed, job, form, seen, took, continued, reapers, commits>>

\* _defer: back to queued, the attempt not counted, into the delayed set.
Defer(w) ==
    LET j == job[w] IN
    /\ pc[w] = "claimed"
    /\ Paused(j) \/ Waits(j)
    /\ IF Owns(w)
       THEN /\ status' = [status EXCEPT ![j] = "queued"]
            /\ due' = [due EXCEPT ![j] = "later"]
            /\ attempts' = [attempts EXCEPT ![j] = IF @ > 0 THEN @ - 1 ELSE 0]
            /\ owner' = [owner EXCEPT ![j] = None]
            /\ silent' = silent \ {j}
            /\ \/ delayed' = [delayed EXCEPT ![j] = "later"] /\ Spare
               \/ Disturb("lose") /\ UNCHANGED delayed
       ELSE UNCHANGED <<status, due, attempts, owner, silent, delayed, faults>>
    /\ pc' = [pc EXCEPT ![w] = "return"]
    /\ UNCHANGED <<cursor, young, outbox, queue, lease, live, listed,
                   job, form, seen, took, continued, reapers, commits, starts>>

\* The handler's writes, with the cursor it moved on, commit with the row.
CommitStep(w) ==
    LET j == job[w] IN
    /\ cursor' = [cursor EXCEPT ![j] = seen[w] + 1]
    /\ commits' = [commits EXCEPT ![j] = @ + 1]
    /\ starts' = [starts EXCEPT ![j] = 0]

\* The handler returned and nothing is left to do: `done` (_finish).
Succeed(w) ==
    LET j == job[w] IN
    /\ pc[w] = "run"
    /\ seen[w] + 1 >= Steps[j]
    /\ IF Owns(w)
       THEN CommitStep(w) /\ EndRows({j}, "done") /\ silent' = silent \ {j}
       ELSE UNCHANGED <<cursor, commits, starts, status, due, outbox, silent>>
    /\ pc' = [pc EXCEPT ![w] = "release"]
    /\ UNCHANGED <<attempts, owner, young, valkey, job, form, seen, took, continued, reapers, faults>>

\* A cursor Job's step returned and there is more (_continue).
Continue(w) ==
    LET j == job[w] IN
    /\ pc[w] = "run"
    /\ seen[w] + 1 < Steps[j]
    /\ IF Owns(w)
       THEN /\ CommitStep(w)
            /\ status' = [status EXCEPT ![j] = "queued"]
            /\ due' = [due EXCEPT ![j] = "unset"]
            /\ attempts' = [attempts EXCEPT ![j] = 0]
            /\ owner' = [owner EXCEPT ![j] = None]
            /\ silent' = silent \ {j}
            /\ continued' = [continued EXCEPT ![w] = TRUE]
       ELSE UNCHANGED <<cursor, commits, starts, status, due, attempts, owner, silent, continued>>
    /\ pc' = [pc EXCEPT ![w] = "release"]
    /\ UNCHANGED <<young, outbox, valkey, job, form, seen, took, reapers, faults>>

\* The handler raised, timed out, or its commit failed: its writes roll
\* back; a terminal code or the last attempt fails the row.
FailAttempt(w) ==
    /\ pc[w] = "run"
    /\ FailRow(w) \/ RetryRow(w)
    /\ pc' = [pc EXCEPT ![w] = "release"]
    /\ UNCHANGED <<cursor, young, valkey, job, form, seen, took, continued, reapers, history>>

\* release_resources: compare with the Job's id and delete.
Release(w) ==
    /\ pc[w] = "release"
    /\ \/ lease' = (IF took[w] /\ lease = job[w] THEN None ELSE lease) /\ Spare
       \/ took[w] /\ Disturb("lose") /\ UNCHANGED lease
    /\ took' = [took EXCEPT ![w] = FALSE]
    /\ pc' = [pc EXCEPT ![w] = IF continued[w] THEN "push" ELSE "return"]
    /\ UNCHANGED <<rows, queue, delayed, live, listed, job, form, seen, continued, reapers, commits, starts>>

\* mutant: the continuation reuses the running RQ job's id
OwnForm == "own"

\* distinct_rq_id: not the id of the RQ job that is running.
ContinuationForm == "distinct"

\* _push_continuation.
PushContinuation(w) ==
    /\ pc[w] = "push"
    /\ \/ queue' = queue \cup {<<job[w], ContinuationForm>>} /\ Spare
       \/ Disturb("lose") /\ UNCHANGED queue
    /\ continued' = [continued EXCEPT ![w] = FALSE]
    /\ pc' = [pc EXCEPT ![w] = "return"]
    /\ UNCHANGED <<rows, delayed, lease, live, listed, job, form, seen, took, reapers, commits, starts>>

\* mutant: the worker's registry entry keeps the job it ran
LeavesEntry(w) ==
    /\ pc' = [pc EXCEPT ![w] = "idle"]
    /\ form' = [form EXCEPT ![w] = "own"]
    /\ seen' = [seen EXCEPT ![w] = 0]
    /\ UNCHANGED job

\* The work horse is gone; its worker has no current job.
Leaves(w) ==
    /\ pc' = [pc EXCEPT ![w] = "idle"]
    /\ job' = [job EXCEPT ![w] = None]
    /\ form' = [form EXCEPT ![w] = "own"]
    /\ seen' = [seen EXCEPT ![w] = 0]

\* perform returns: RQ deletes its job (result_ttl 0), and with it any
\* message of the same RQ id pushed in the meantime.
Return(w) ==
    /\ pc[w] = "return"
    /\ queue' = queue \ {m \in queue : m = <<job[w], "own">> /\ form[w] = "own"}
    /\ Leaves(w)
    /\ UNCHANGED <<rows, delayed, lease, live, listed, took, continued, reapers, history>>

\* The work horse is killed (RQ's timeout, a deploy, the OOM killer): its
\* transaction rolls back, its lease and its row stay behind.
Kill(w) ==
    /\ pc[w] # "idle"
    /\ Disturb("kill")
    /\ Leaves(w)
    /\ took' = [took EXCEPT ![w] = FALSE]
    /\ continued' = [continued EXCEPT ![w] = FALSE]
    /\ UNCHANGED <<rows, valkey, reapers, commits, starts>>

\* The heartbeat thread writes the row while the attempt owns it.
Beat(w) ==
    /\ pc[w] = "run"
    /\ Owns(w)
    /\ job[w] \in silent
    /\ silent' = silent \ {job[w]}
    /\ UNCHANGED <<status, attempts, owner, due, cursor, young, outbox, valkey, workers, reapers, history>>

-----------------------------------------------------------------------------
(* The reaper                                                              *)

\* The pass reads the clock and RQ's registry before it reads the rows.
Snapshot(r) ==
    /\ rpc[r] = "idle"
    /\ rlive' = [rlive EXCEPT ![r] = [w \in Worker |-> IF w \in listed THEN job[w] ELSE None]]
    /\ rpc' = [rpc EXCEPT ![r] = "recover"]
    /\ UNCHANGED <<rows, valkey, workers, rrows, history>>

\* Running rows with a stale heartbeat that no listed worker is running.
Dead(r) == {j \in silent : status[j] = "running" /\ rlive[r][owner[j]] # j}

\* mutant: only rows with a next_run_at are pushed again
OverdueTimedOnly(j) ==
    /\ status[j] = "queued"
    /\ DependencyOver(j)
    /\ due[j] = "now"

\* The queued rows a pass should find in RQ.
Overdue(j) ==
    /\ status[j] = "queued"
    /\ DependencyOver(j)
    /\ due[j] = "now" \/ (due[j] = "unset" /\ j \notin young)

\* The Jobs that the registry, as the pass read it, shows being run.
Held(r) == {rlive[r][w] : w \in Worker}

\* _recover_running: dead attempts are requeued while attempts remain, else
\* failed; then _push_due reads the overdue rows, the requeued ones included.
Recover(r) ==
    LET spent == {j \in Dead(r) : LastAttempt(j)}
    IN
    /\ rpc[r] = "recover"
    /\ status' = [j \in Job |-> IF j \in spent THEN "failed"
                                ELSE IF j \in Dead(r) THEN "queued" ELSE status[j]]
    /\ due' = [j \in Job |-> IF j \in spent THEN "unset"
                             ELSE IF j \in Dead(r) THEN "now" ELSE due[j]]
    /\ owner' = [j \in Job |-> IF j \in Dead(r) THEN None ELSE owner[j]]
    /\ silent' = silent \ Dead(r)
    /\ outbox' = outbox \cup Dependents(spent)
    /\ UNCHANGED <<attempts, cursor, young, valkey, workers, history>>
    /\ rrows' = [rrows EXCEPT ![r] = {j \in Job : Overdue(j)'} \ Held(r)]
    /\ rlive' = [rlive EXCEPT ![r] = [w \in Worker |-> None]]
    /\ rpc' = [rpc EXCEPT ![r] = "push"]

\* The rest of _push_due: push those RQ does not hold; a failed push ends
\* the pass.
PushDue(r) ==
    LET todo == rrows[r] \ {m[1] : m \in queue}
    IN
    /\ rpc[r] = "push"
    /\ \E sent \in SUBSET todo :
        /\ \/ sent = todo /\ Spare
           \/ sent # todo /\ Disturb("lose")
        /\ queue' = queue \cup (sent \X {"own"})
    /\ rpc' = [rpc EXCEPT ![r] = "idle"]
    /\ rrows' = [rrows EXCEPT ![r] = {}]
    /\ UNCHANGED <<rows, delayed, lease, live, listed, workers, rlive, commits, starts>>

\* The reaper's process dies in the middle of a pass.
Abandon(r) ==
    /\ rpc[r] # "idle"
    /\ Disturb("kill")
    /\ rpc' = [rpc EXCEPT ![r] = "idle"]
    /\ rlive' = [rlive EXCEPT ![r] = [w \in Worker |-> None]]
    /\ rrows' = [rrows EXCEPT ![r] = {}]
    /\ UNCHANGED <<rows, valkey, workers, commits, starts>>

\* drain_delayed: a due entry is removed, then pushed.  A failed push puts
\* the entry back; a death in between loses it.
Drain(j) ==
    /\ delayed[j] = "now"
    /\ delayed' = [delayed EXCEPT ![j] = "unset"]
    /\ \/ queue' = queue \cup {<<j, "distinct">>} /\ Spare
       \/ Disturb("lose") /\ UNCHANGED queue
    /\ UNCHANGED <<rows, lease, live, listed, workers, reapers, commits, starts>>

-----------------------------------------------------------------------------
(* Time and the world                                                      *)

\* A pass judges the rows by the clock it read at its start, so what time
\* changes is changed for it before the pass starts or after it has read.
NoPassReading == \A r \in Reaper : rpc[r] # "recover"

\* Time passes for the row's clocks.
Elapse(j) ==
    LET tick(t) == IF t = "later" THEN "now" ELSE t
    IN
    /\ NoPassReading
    /\ j \in young \/ due[j] = "later" \/ delayed[j] = "later"
    /\ young' = young \ {j}
    /\ due' = [due EXCEPT ![j] = tick(@)]
    /\ delayed' = [delayed EXCEPT ![j] = tick(@)]
    /\ UNCHANGED <<status, attempts, owner, cursor, silent, outbox,
                   queue, lease, live, listed, workers, reapers, history>>

\* A worker is still on the row's attempt.
Attended(j) == \E w \in Worker : job[w] = j /\ pc[w] \in {"claimed", "run"} /\ Owns(w)

\* The last heartbeat becomes older than STALE_AFTER_S: always once nobody
\* writes it, and by a disturbance while its attempt is alive.
Silence(j) ==
    /\ status[j] = "running" /\ j \notin silent
    /\ NoPassReading
    /\ \/ ~Attended(j) /\ Spare
       \/ Attended(j) /\ Disturb("silence")
    /\ silent' = silent \cup {j}
    /\ UNCHANGED <<status, attempts, owner, due, cursor, young, outbox,
                   valkey, workers, reapers, commits, starts>>

\* The lease's TTL (RQ's own timeout) outlives the attempt that set it.
LeaseLapse ==
    /\ lease # None
    /\ \A w \in Worker : ~(took[w] /\ job[w] = lease)
    /\ lease' = None
    /\ UNCHANGED <<rows, queue, delayed, live, listed, workers, reapers, history>>

\* A worker drops out of RQ's registry (its key expired), and is back when
\* it starts anew.
Unlist(w) ==
    /\ w \in listed
    /\ Disturb("unlist")
    /\ listed' = listed \ {w}
    /\ UNCHANGED <<rows, queue, delayed, lease, live, workers, reapers, commits, starts>>

Relist(w) ==
    /\ w \notin listed /\ pc[w] = "idle"
    /\ listed' = listed \cup {w}
    /\ UNCHANGED <<rows, queue, delayed, lease, live, workers, reapers, history>>

\* Valkey loses everything it held.
Flush ==
    /\ Disturb("flush")
    /\ queue' = {}
    /\ delayed' = [j \in Job |-> "unset"]
    /\ lease' = None
    /\ live' = FALSE
    /\ listed' = {}
    /\ UNCHANGED <<rows, workers, reapers, commits, starts>>

LiveStarts ==
    /\ ~live
    /\ Disturb("live")
    /\ live' = TRUE
    /\ UNCHANGED <<rows, queue, delayed, lease, listed, workers, reapers, commits, starts>>

LiveEnds ==
    /\ live
    /\ live' = FALSE
    /\ UNCHANGED <<rows, queue, delayed, lease, listed, workers, reapers, history>>

-----------------------------------------------------------------------------
(* The specification                                                       *)

WorkerStep(w) ==
    \/ Claim(w) \/ ClaimRefused(w)
    \/ PrepareFails(w) \/ Admit(w) \/ AdmitOpen(w) \/ Defer(w)
    \/ Succeed(w) \/ Continue(w) \/ FailAttempt(w)
    \/ Release(w) \/ PushContinuation(w) \/ Return(w)

ReaperStep(r) == Snapshot(r) \/ Recover(r) \/ PushDue(r)

World ==
    \/ \E j \in Job : Elapse(j) \/ Silence(j)
    \/ \E w \in Worker : Unlist(w) \/ Relist(w)
    \/ LeaseLapse \/ Flush \/ LiveStarts \/ LiveEnds

Next ==
    \/ \E j \in Job : Enqueue(j) \/ Dispatch(j) \/ Drain(j)
    \/ \E w \in Worker : WorkerStep(w) \/ Kill(w) \/ Beat(w)
    \/ \E w \in Worker, m \in queue : Take(w, m)
    \/ \E r \in Reaper : ReaperStep(r) \/ Abandon(r)
    \/ World

Spec == Init /\ [][Next]_vars

\* Workers and reaper threads keep running, the dispatch after a commit is
\* awaited, time passes, and a Live Session ends.  Nothing obliges a caller
\* to enqueue, or the world to disturb.  Time passes between two passes,
\* which take seconds every REAPER_INTERVAL_S: hence strong fairness.
Fairness ==
    /\ \A j \in Job : /\ WF_vars(Dispatch(j)) /\ WF_vars(Drain(j))
                      /\ SF_vars(Elapse(j)) /\ SF_vars(Silence(j))
    /\ \A w \in Worker : /\ WF_vars(WorkerStep(w))
                         /\ WF_vars(\E m \in queue : Take(w, m))
    /\ \A r \in Reaper : WF_vars(ReaperStep(r))
    /\ WF_vars(LeaseLapse) /\ WF_vars(LiveEnds)

FairSpec == Spec /\ Fairness

-----------------------------------------------------------------------------
(* Properties                                                              *)

\* The handler's writes commit together with the row's outcome (_owned,
\* _finish, _continue), so however many attempts overlap, die or are taken
\* back by the reaper, every step of a Job is committed once and in order,
\* and a Job is done exactly when all of them are.
EachStepOnce ==
    \A j \in Job :
        /\ commits[j] = cursor[j]
        /\ status[j] = "done" <=> cursor[j] >= Steps[j]

\* max_attempts bounds how often the handler is called from one cursor
\* position: retries, restarts and late attempts of dead workers included,
\* and deferrals, which are not counted, excluded (_claim, _defer,
\* _record_failure, _recover_running).
HandlerCallsBounded ==
    \A j \in Job :
        /\ starts[j] <= attempts[j]
        /\ attempts[j] <= MaxAttempts

\* Without disturbances a runnable row always has something that brings it
\* to a worker without the reaper: its push, its message, the delayed set, or
\* the worker that is about to push its continuation (_push_continuation's
\* distinct RQ id is why Return does not take the message away).
RunnableIsCarried ==
    \A j \in Job :
        (faults = 0 /\ status[j] = "queued" /\ due[j] = "unset" /\ DependencyOver(j)) =>
            \/ j \in outbox
            \/ \E f \in Form : <<j, f>> \in queue
            \/ \E w \in Worker : job[w] = j /\ (pc[w] = "taken" \/ continued[w])

\* The rows behave as the Job lifecycle says, for the status and the
\* durable steps: a terminal status is never written over, a second outcome
\* never lands, and no dependent starts early.
Lifecycle == INSTANCE JobLifecycle WITH phase <- status, made <- commits
LifecycleSpec == Lifecycle!Spec

\* A queued Job ends, whatever was lost, killed, deferred or interrupted on
\* the way: the reaper finds what RQ no longer carries.
EveryJobEnds ==
    \A j \in Job : status[j] = "queued" ~> status[j] \in Terminal

-----------------------------------------------------------------------------
(* Inductive invariants, for the proofs                                    *)

\* An attempt that has not written its outcome yet.
Open(w) == pc[w] \in {"claimed", "run"}

\* EachStepOnce, and why: an open attempt that still owns its row read the
\* row's present cursor, whatever other attempts of the Job did.
StepInv ==
    /\ EachStepOnce
    /\ \A w \in Worker :
        Open(w) => /\ seen[w] <= cursor[job[w]]
                   /\ Owns(w) => seen[w] = cursor[job[w]]

\* The claimed attempts that are still to call the handler from the row's
\* present cursor.
Pending(j) == {w \in Worker : pc[w] = "claimed" /\ job[w] = j /\ seen[w] = cursor[j]}

\* HandlerCallsBounded, and why: every call, made or pending, has an attempt
\* of its own, and a queued row always has one left.
AttemptInv ==
    \A j \in Job :
        /\ starts[j] + Cardinality(Pending(j)) <= attempts[j]
        /\ attempts[j] <= MaxAttempts
        /\ status[j] \in {"absent", "queued"} => attempts[j] < MaxAttempts

\* A Job that is claimed or about to be has a row, and its dependency is over
\* for good.
Rooted(j) == status[j] # "absent" /\ DependencyOver(j)
Traced(j) ==
    \/ j \in outbox \/ delayed[j] # "unset" \/ cursor[j] > 0
    \/ \E f \in Form : <<j, f>> \in queue
    \/ \E w \in Worker : job[w] = j
    \/ \E r \in Reaper : j \in rrows[r]

\* What RunnableIsCarried is about.
Runnable(j) == status[j] = "queued" /\ due[j] = "unset" /\ DependencyOver(j)

\* A first message may be taken away by a worker that returns from the Job,
\* a continuation's may not.
CarriedFirst(j) ==
    /\ j \in outbox \/ (\E f \in Form : <<j, f>> \in queue) \/ \E w \in Worker : job[w] = j
    /\ \A w \in Worker : job[w] = j => pc[w] = "taken"
CarriedOn(j) ==
    \/ <<j, "distinct">> \in queue
    \/ \E w \in Worker : job[w] = j /\ (pc[w] = "taken" \/ continued[w])

\* RunnableIsCarried, and why: before a Job's first step no worker returns
\* from it while it is runnable, and after it the continuation is distinct.
CarryInv ==
    /\ \A j \in Job : Traced(j) => Rooted(j)
    /\ \A w \in Worker : continued[w] => pc[w] \in {"release", "push"}
    /\ faults = 0 =>
        \A j \in Job : Runnable(j) => IF cursor[j] = 0 THEN CarriedFirst(j) ELSE CarriedOn(j)

=============================================================================
