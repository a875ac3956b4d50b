----------------------------- MODULE Jobs_proofs -----------------------------
(***************************************************************************)
(* Theorems about Jobs for every set of Jobs, workers and reaper passes,   *)
(* every max_attempts and every number of disturbances.                    *)
(***************************************************************************)
EXTENDS Jobs, FiniteSetTheorems, TLAPS

-----------------------------------------------------------------------------
(* Types                                                                   *)

\* A worker past `idle` has a Job.
LEMMA BusyHasJob ==
    ASSUME TypeOK, NEW w \in Worker, pc[w] # "idle"
    PROVE  job[w] \in Job
BY DEF TypeOK, WorkersOK

\* The outcomes of an attempt that failed keep the rows' types.
LEMMA OutcomeTypes ==
    ASSUME TypeOK, NEW w \in Worker, job[w] \in Job, FailRow(w) \/ RetryRow(w),
           UNCHANGED <<cursor, young>>
    PROVE  RowsOK'
<1> USE DEF TypeOK, RowsOK, Active, Terminal, Timer
<1>1. CASE FailRow(w)
  <2>1. CASE Owns(w)
    BY <1>1, <2>1 DEF FailRow, EndRows, Dependents
  <2>2. CASE ~Owns(w)
    BY <1>1, <2>2 DEF FailRow
  <2>3. QED
    BY <2>1, <2>2
<1>2. CASE RetryRow(w) /\ ~FailRow(w)
  <2>1. Owns(w) /\ ~LastAttempt(job[w])
    BY <1>2 DEF RetryRow
  <2>2. QED
    BY <1>2, <2>1 DEF RetryRow
<1>3. QED
  BY <1>1, <1>2

\* Every variable keeps its type, and a worker has a current Job exactly
\* while its work horse runs (what _live_workers reads from RQ's registry).
THEOREM TypeCorrect == Spec => []TypeOK
<1> USE DEF Active, Terminal, Timer, Form
<1>1. Init => TypeOK
  <2> SUFFICES ASSUME Init PROVE TypeOK
    OBVIOUS
  <2>1. RowsOK /\ ValkeyOK
    BY DEF Init, RowsOK, ValkeyOK
  <2>2. WorkersOK /\ HistoryOK
    BY ConstantsAssumption DEF Init, WorkersOK, HistoryOK
  <2>3. ReapersOK
    BY DEF Init, ReapersOK
  <2>4. QED
    BY <2>1, <2>2, <2>3 DEF TypeOK
<1>2. TypeOK /\ [Next]_vars => TypeOK'
  <2> SUFFICES ASSUME TypeOK, [Next]_vars PROVE TypeOK'
    OBVIOUS
  <2> USE ConstantsAssumption DEF Spare, Disturb
  <2>1. ASSUME NEW j \in Job, Enqueue(j) PROVE TypeOK'
    BY <2>1 DEF TypeOK, RowsOK, ValkeyOK, WorkersOK, ReapersOK, HistoryOK, Enqueue, valkey, workers, reapers, history
  <2>2. ASSUME NEW j \in Job, Dispatch(j) PROVE TypeOK'
    BY <2>2 DEF TypeOK, RowsOK, ValkeyOK, WorkersOK, ReapersOK, HistoryOK, Dispatch, workers, reapers
  <2>3. ASSUME NEW j \in Job, Drain(j) PROVE TypeOK'
    BY <2>3 DEF TypeOK, RowsOK, ValkeyOK, WorkersOK, ReapersOK, HistoryOK, Drain, rows, workers, reapers
  <2>4. ASSUME NEW w \in Worker, NEW m \in queue, Take(w, m) PROVE TypeOK'
    <3>1. m[1] \in Job /\ m[2] \in Form
      BY DEF TypeOK, ValkeyOK
    <3>2. WorkersOK'
      BY <2>4, <3>1 DEF TypeOK, WorkersOK, Take
    <3>3. QED
      BY <2>4, <3>2 DEF TypeOK, RowsOK, ValkeyOK, ReapersOK, HistoryOK, Take, rows, reapers, history
  <2>5. ASSUME NEW w \in Worker, Claim(w) PROVE TypeOK'
    BY <2>5 DEF TypeOK, RowsOK, ValkeyOK, WorkersOK, ReapersOK, HistoryOK, Claim, valkey, reapers, history
  <2>6. ASSUME NEW w \in Worker, ClaimRefused(w) PROVE TypeOK'
    BY <2>6 DEF TypeOK, RowsOK, ValkeyOK, WorkersOK, ReapersOK, HistoryOK, ClaimRefused, rows, valkey, reapers, history
  <2>7. ASSUME NEW w \in Worker, PrepareFails(w) \/ FailAttempt(w) PROVE TypeOK'
    <3>1. job[w] \in Job
      BY <2>7, BusyHasJob DEF PrepareFails, FailAttempt
    <3>2. RowsOK'
      BY <2>7, <3>1, OutcomeTypes DEF PrepareFails, FailAttempt
    <3>3. WorkersOK'
      BY <2>7, <3>1 DEF TypeOK, WorkersOK, PrepareFails, FailAttempt
    <3>4. QED
      BY <2>7, <3>2, <3>3
      DEF TypeOK, ValkeyOK, ReapersOK, HistoryOK, PrepareFails, FailAttempt, valkey, reapers, history
  <2>8. ASSUME NEW w \in Worker, Admit(w) \/ AdmitOpen(w) PROVE TypeOK'
    <3>1. job[w] \in Job
      BY <2>8, BusyHasJob DEF Admit, AdmitOpen
    <3>2. HistoryOK'
      BY <2>8 DEF TypeOK, HistoryOK, Admit, AdmitOpen, StartHandler
    <3>3. WorkersOK'
      BY <2>8 DEF TypeOK, WorkersOK, Admit, AdmitOpen, StartHandler
    <3>4. ValkeyOK'
      BY <2>8, <3>1 DEF TypeOK, ValkeyOK, Admit, AdmitOpen
    <3>5. RowsOK' /\ ReapersOK'
      BY <2>8 DEF TypeOK, RowsOK, ReapersOK, Admit, AdmitOpen, rows, reapers
    <3>6. QED
      BY <3>2, <3>3, <3>4, <3>5 DEF TypeOK
  <2>9. ASSUME NEW w \in Worker, Defer(w) PROVE TypeOK'
    <3>1. attempts' \in [Job -> Nat]
      BY <2>9 DEF TypeOK, RowsOK, Defer
    <3>2. RowsOK'
      BY <2>9, <3>1 DEF TypeOK, RowsOK, Defer
    <3>3. HistoryOK' /\ ValkeyOK'
      BY <2>9 DEF TypeOK, HistoryOK, ValkeyOK, Defer
    <3>4. QED
      BY <2>9, <3>2, <3>3 DEF TypeOK, WorkersOK, ReapersOK, Defer, reapers
  <2>10. ASSUME NEW w \in Worker, Succeed(w) PROVE TypeOK'
    <3>1. RowsOK'
      BY <2>10 DEF TypeOK, RowsOK, WorkersOK, Succeed, CommitStep, EndRows, Dependents
    <3>2. HistoryOK'
      BY <2>10 DEF TypeOK, HistoryOK, Succeed, CommitStep
    <3>3. QED
      BY <2>10, <3>1, <3>2 DEF TypeOK, ValkeyOK, WorkersOK, ReapersOK, Succeed, valkey, reapers
  <2>11. ASSUME NEW w \in Worker, Continue(w) PROVE TypeOK'
    <3>1. RowsOK'
      BY <2>11 DEF TypeOK, RowsOK, WorkersOK, Continue, CommitStep
    <3>2. HistoryOK'
      BY <2>11 DEF TypeOK, HistoryOK, Continue, CommitStep
    <3>3. WorkersOK'
      BY <2>11 DEF TypeOK, WorkersOK, Continue
    <3>4. QED
      BY <2>11, <3>1, <3>2, <3>3 DEF TypeOK, ValkeyOK, ReapersOK, Continue, valkey, reapers
  <2>12. ASSUME NEW w \in Worker, Release(w) PROVE TypeOK'
    BY <2>12 DEF TypeOK, RowsOK, ValkeyOK, WorkersOK, ReapersOK, HistoryOK, Release, rows, reapers
  <2>13. ASSUME NEW w \in Worker, PushContinuation(w) PROVE TypeOK'
    BY <2>13 DEF TypeOK, RowsOK, ValkeyOK, WorkersOK, ReapersOK, HistoryOK, PushContinuation, ContinuationForm,
                 rows, reapers
  <2>14. ASSUME NEW w \in Worker, Return(w) PROVE TypeOK'
    BY <2>14 DEF TypeOK, RowsOK, ValkeyOK, WorkersOK, ReapersOK, HistoryOK, Return, Leaves, rows, reapers, history
  <2>15. ASSUME NEW w \in Worker, Kill(w) PROVE TypeOK'
    BY <2>15 DEF TypeOK, RowsOK, ValkeyOK, WorkersOK, ReapersOK, HistoryOK, Kill, Leaves, rows, valkey, reapers
  <2>16. ASSUME NEW w \in Worker, Beat(w) PROVE TypeOK'
    BY <2>16 DEF TypeOK, RowsOK, ValkeyOK, WorkersOK, ReapersOK, HistoryOK, Beat, valkey, workers, reapers, history
  <2>17. ASSUME NEW r \in Reaper, Snapshot(r) PROVE TypeOK'
    BY <2>17 DEF TypeOK, RowsOK, ValkeyOK, WorkersOK, ReapersOK, HistoryOK, Snapshot, rows, valkey, workers, history
  <2>18. ASSUME NEW r \in Reaper, Recover(r) PROVE TypeOK'
    <3>1. RowsOK'
      BY <2>18 DEF TypeOK, RowsOK, Recover, Dependents
    <3>2. ReapersOK'
      BY <2>18 DEF TypeOK, ReapersOK, Recover
    <3>3. QED
      BY <2>18, <3>1, <3>2 DEF TypeOK, ValkeyOK, WorkersOK, HistoryOK, Recover, valkey, workers, history
  <2>19. ASSUME NEW r \in Reaper, PushDue(r) PROVE TypeOK'
    BY <2>19 DEF TypeOK, RowsOK, ValkeyOK, WorkersOK, ReapersOK, HistoryOK, PushDue, rows, workers
  <2>20. ASSUME NEW r \in Reaper, Abandon(r) PROVE TypeOK'
    BY <2>20 DEF TypeOK, RowsOK, ValkeyOK, WorkersOK, ReapersOK, HistoryOK, Abandon, rows, valkey, workers
  <2>21. CASE World
    <3>1. ASSUME NEW j \in Job, Elapse(j) \/ Silence(j) PROVE TypeOK'
      <4>1. RowsOK'
        BY <3>1 DEF TypeOK, RowsOK, Elapse, Silence
      <4>2. ValkeyOK'
        BY <3>1 DEF TypeOK, ValkeyOK, Elapse, Silence, valkey
      <4>3. WorkersOK' /\ ReapersOK' /\ HistoryOK'
        BY <3>1 DEF TypeOK, WorkersOK, ReapersOK, HistoryOK, Elapse, Silence, workers, reapers, history
      <4>4. QED
        BY <4>1, <4>2, <4>3 DEF TypeOK
    <3>2. ASSUME NEW w \in Worker, Unlist(w) \/ Relist(w) PROVE TypeOK'
      BY <3>2 DEF TypeOK, RowsOK, ValkeyOK, WorkersOK, ReapersOK, HistoryOK, Unlist, Relist,
                  rows, workers, reapers, history
    <3>3. ASSUME LeaseLapse \/ Flush \/ LiveStarts \/ LiveEnds PROVE TypeOK'
      <4>1. ValkeyOK'
        BY <3>3 DEF TypeOK, ValkeyOK, LeaseLapse, Flush, LiveStarts, LiveEnds
      <4>2. RowsOK' /\ WorkersOK' /\ ReapersOK'
        BY <3>3 DEF TypeOK, RowsOK, WorkersOK, ReapersOK, LeaseLapse, Flush, LiveStarts, LiveEnds,
                    rows, workers, reapers
      <4>3. HistoryOK'
        BY <3>3 DEF TypeOK, HistoryOK, LeaseLapse, Flush, LiveStarts, LiveEnds, history
      <4>4. QED
        BY <4>1, <4>2, <4>3 DEF TypeOK
    <3>4. QED
      BY <2>21, <3>1, <3>2, <3>3 DEF World
  <2>22. CASE UNCHANGED vars
    BY <2>22 DEF TypeOK, RowsOK, ValkeyOK, WorkersOK, ReapersOK, HistoryOK,
                 vars, rows, valkey, workers, reapers, history
  <2>23. QED
    BY <2>1, <2>2, <2>3, <2>4, <2>5, <2>6, <2>7, <2>8, <2>9, <2>10, <2>11, <2>12, <2>13, <2>14, <2>15,
       <2>16, <2>17, <2>18, <2>19, <2>20, <2>21, <2>22
    DEF Next, WorkerStep, ReaperStep
<1>3. QED
  BY <1>1, <1>2, PTL DEF Spec

-----------------------------------------------------------------------------
(* Each step once                                                          *)

\* What the attempts and the rows' steps are judged by.
stepVars == <<status, owner, cursor, commits, pc, job, seen>>

\* Messages, time, the reaper's reads and Valkey's losses change none of it.
LEMMA Bystanders ==
    ASSUME \/ \E j \in Job : Dispatch(j) \/ Drain(j)
           \/ \E w \in Worker : Beat(w)
           \/ \E r \in Reaper : Snapshot(r) \/ PushDue(r) \/ Abandon(r)
           \/ World
           \/ UNCHANGED vars
    PROVE  UNCHANGED <<stepVars, attempts, starts>>
<1>1. CASE \E j \in Job : Dispatch(j) \/ Drain(j)
  BY <1>1 DEF Dispatch, Drain, stepVars, rows, workers
<1>2. CASE \E w \in Worker : Beat(w)
  BY <1>2 DEF Beat, stepVars, workers, history
<1>3. CASE \E r \in Reaper : Snapshot(r) \/ PushDue(r) \/ Abandon(r)
  BY <1>3 DEF Snapshot, PushDue, Abandon, stepVars, rows, workers, history
<1>4. CASE World
  BY <1>4 DEF World, Elapse, Silence, Unlist, Relist, LeaseLapse, Flush, LiveStarts, LiveEnds,
              stepVars, rows, workers, history
<1>5. CASE UNCHANGED vars
  BY <1>5 DEF vars, stepVars, rows, workers, history
<1>6. QED
  BY <1>1, <1>2, <1>3, <1>4, <1>5

\* A row leaves `running` when its attempt fails, and nothing is committed.
LEMMA OutcomeRows ==
    ASSUME TypeOK, NEW w \in Worker, job[w] \in Job, FailRow(w) \/ RetryRow(w)
    PROVE  /\ \A j \in Job : \/ status'[j] = status[j] /\ owner'[j] = owner[j]
                             \/ /\ j = job[w] /\ status[j] = "running"
                                /\ status'[j] \in {"queued", "failed"}
                                /\ status'[j] = "queued" => ~LastAttempt(j)
           /\ attempts' = attempts
<1> USE DEF TypeOK, RowsOK
<1>1. CASE FailRow(w)
  BY <1>1 DEF FailRow, EndRows, Owns
<1>2. CASE RetryRow(w)
  BY <1>2 DEF RetryRow, FailRow, EndRows, Owns
<1>3. QED
  BY <1>1, <1>2

\* Every step keeps StepInv: an attempt that owns its row has its present cursor.
LEMMA StepInvInductive == TypeOK /\ TypeOK' /\ StepInv /\ [Next]_vars => StepInv'
<1> SUFFICES ASSUME TypeOK, TypeOK', StepInv, [Next]_vars PROVE StepInv'
  OBVIOUS
<1> USE ConstantsAssumption DEF TypeOK, RowsOK, WorkersOK, HistoryOK, Active, Terminal
<1>1. ASSUME NEW j \in Job, Enqueue(j) PROVE StepInv'
  BY <1>1 DEF StepInv, EachStepOnce, Open, Owns, Enqueue, workers, history
<1>2. ASSUME NEW w \in Worker, NEW m \in queue, Take(w, m) PROVE StepInv'
  BY <1>2 DEF StepInv, EachStepOnce, Open, Owns, Take, rows, history
<1>3. ASSUME NEW w \in Worker, Claim(w) PROVE StepInv'
  BY <1>3 DEF StepInv, EachStepOnce, Open, Owns, Claim, Claimable, history
<1>4. ASSUME NEW w \in Worker, ClaimRefused(w) \/ Release(w) \/ PushContinuation(w) PROVE StepInv'
  BY <1>4 DEF StepInv, EachStepOnce, Open, Owns, ClaimRefused, Release, PushContinuation, rows, history
<1>5. ASSUME NEW w \in Worker, PrepareFails(w) \/ FailAttempt(w) PROVE StepInv'
  <2>1. job[w] \in Job
    BY <1>5, BusyHasJob DEF PrepareFails, FailAttempt
  <2>2. /\ \A j \in Job : \/ status'[j] = status[j] /\ owner'[j] = owner[j]
                          \/ status[j] = "running" /\ status'[j] \in {"queued", "failed"}
        /\ UNCHANGED <<cursor, commits, seen, job>>
    BY <1>5, <2>1, OutcomeRows DEF PrepareFails, FailAttempt, history
  <2>3. EachStepOnce'
    BY <2>2 DEF StepInv, EachStepOnce
  <2>4. pc' = [pc EXCEPT ![w] = "return"] \/ pc' = [pc EXCEPT ![w] = "release"]
    BY <1>5 DEF PrepareFails, FailAttempt
  <2>5. QED
    BY <2>2, <2>3, <2>4 DEF StepInv, Open, Owns
<1>6. ASSUME NEW w \in Worker, Admit(w) \/ AdmitOpen(w) PROVE StepInv'
  BY <1>6 DEF StepInv, EachStepOnce, Open, Owns, Admit, AdmitOpen, StartHandler, rows
<1>7. ASSUME NEW w \in Worker, Defer(w) PROVE StepInv'
  BY <1>7 DEF StepInv, EachStepOnce, Open, Owns, Defer
<1>8. ASSUME NEW w \in Worker, Succeed(w) PROVE StepInv'
  BY <1>8 DEF StepInv, EachStepOnce, Open, Owns, Succeed, CommitStep, EndRows
<1>9. ASSUME NEW w \in Worker, Continue(w) PROVE StepInv'
  <2>1. /\ pc[w] = "run" /\ pc' = [pc EXCEPT ![w] = "release"]
        /\ seen[w] + 1 < Steps[job[w]] /\ job[w] \in Job
        /\ UNCHANGED <<seen, job>>
    BY <1>9, BusyHasJob DEF Continue
  <2>2. CASE Owns(w)
    <3>1. seen[w] = cursor[job[w]]
      BY <2>1, <2>2 DEF StepInv, Open
    <3>2. /\ cursor' = [cursor EXCEPT ![job[w]] = seen[w] + 1]
          /\ commits' = [commits EXCEPT ![job[w]] = @ + 1]
          /\ status' = [status EXCEPT ![job[w]] = "queued"]
          /\ owner' = [owner EXCEPT ![job[w]] = None]
      BY <1>9, <2>2 DEF Continue, CommitStep
    <3>3. EachStepOnce'
      BY <2>1, <3>1, <3>2 DEF StepInv, EachStepOnce
    <3>4. QED
      BY <2>1, <3>1, <3>2, <3>3 DEF StepInv, Open, Owns
  <2>3. CASE ~Owns(w)
    <3>1. UNCHANGED <<cursor, commits, status, owner>>
      BY <1>9, <2>3 DEF Continue
    <3>2. QED
      BY <2>1, <3>1 DEF StepInv, EachStepOnce, Open, Owns
  <2>4. QED
    BY <2>2, <2>3
<1>10. ASSUME NEW w \in Worker, Return(w) \/ Kill(w) PROVE StepInv'
  BY <1>10 DEF StepInv, EachStepOnce, Open, Owns, Return, Kill, Leaves, rows, history
<1>11. ASSUME NEW r \in Reaper, Recover(r) PROVE StepInv'
  BY <1>11 DEF StepInv, EachStepOnce, Open, Owns, Recover, Dead, workers, history
<1>12. ASSUME UNCHANGED stepVars PROVE StepInv'
  BY <1>12 DEF StepInv, EachStepOnce, Open, Owns, stepVars
<1>13. QED
  BY <1>1, <1>2, <1>3, <1>4, <1>5, <1>6, <1>7, <1>8, <1>9, <1>10, <1>11, <1>12, Bystanders
  DEF Next, WorkerStep, ReaperStep

\* The writes of every handler step are committed once and in order, and a
\* Job is done exactly when all its steps are, for any number of overlapping,
\* killed or taken-back attempts.
THEOREM EachStepOnceHolds == Spec => []EachStepOnce
<1>1. Init => StepInv
  BY ConstantsAssumption DEF Init, StepInv, EachStepOnce, Open
<1>2. StepInv => EachStepOnce
  BY DEF StepInv
<1>3. QED
  BY <1>1, <1>2, StepInvInductive, TypeCorrect, PTL DEF Spec

-----------------------------------------------------------------------------
(* Handler calls                                                           *)

\* The attempts that will still call the handler are finitely many.
LEMMA PendingFinite ==
    ASSUME NEW j
    PROVE  /\ IsFiniteSet(Pending(j)) /\ Cardinality(Pending(j)) \in Nat
           /\ IsFiniteSet(Pending(j)') /\ Cardinality(Pending(j)') \in Nat
<1>1. Pending(j) \subseteq Worker /\ Pending(j)' \subseteq Worker
  BY DEF Pending
<1>2. QED
  BY <1>1, ConstantsAssumption, FS_Subset, FS_CardinalityType

\* Fewer pending attempts never count for more.
LEMMA PendingShrinks ==
    ASSUME NEW j, Pending(j)' \subseteq Pending(j)
    PROVE  Cardinality(Pending(j)') <= Cardinality(Pending(j))
BY PendingFinite, FS_Subset

\* Every step keeps AttemptInv: what calls the handler was charged for it.
LEMMA AttemptInvInductive == TypeOK /\ TypeOK' /\ StepInv /\ AttemptInv /\ [Next]_vars => AttemptInv'
<1> SUFFICES ASSUME TypeOK, TypeOK', StepInv, AttemptInv, [Next]_vars PROVE AttemptInv'
  OBVIOUS
<1> DEFINE Bound(j) == /\ starts[j] + Cardinality(Pending(j)) <= attempts[j]
                       /\ attempts[j] <= MaxAttempts
                       /\ status[j] \in {"absent", "queued"} => attempts[j] < MaxAttempts
<1> USE ConstantsAssumption DEF TypeOK, RowsOK, WorkersOK, HistoryOK, Active, Terminal
<1>a. \A j \in Job : Bound(j)
  BY DEF AttemptInv
<1>b. SUFFICES ASSUME NEW j \in Job PROVE Bound(j)'
  BY DEF AttemptInv
<1>c. /\ Cardinality(Pending(j)) \in Nat /\ Cardinality(Pending(j)') \in Nat
      /\ starts[j] \in Nat /\ attempts[j] \in Nat /\ starts'[j] \in Nat /\ attempts'[j] \in Nat
      /\ MaxAttempts \in Nat \ {0}
  BY PendingFinite
<1>d. ASSUME Pending(j)' \subseteq Pending(j), starts'[j] = starts[j], attempts'[j] = attempts[j],
             status'[j] \in {"absent", "queued"} =>
                \/ status[j] \in {"absent", "queued"}
                \/ ~LastAttempt(j)
      PROVE  Bound(j)'
  BY <1>a, <1>c, <1>d, PendingShrinks DEF LastAttempt
<1>1. ASSUME NEW k \in Job, Enqueue(k) PROVE Bound(j)'
  <2>1. Pending(j)' \subseteq Pending(j)
    BY <1>1 DEF Enqueue, Pending, workers
  <2>2. QED
    BY <1>1, <1>d, <2>1 DEF Enqueue, history
<1>2. ASSUME NEW w \in Worker, NEW m \in queue, Take(w, m) PROVE Bound(j)'
  <2>1. Pending(j)' \subseteq Pending(j)
    BY <1>2 DEF Take, Pending, rows
  <2>2. QED
    BY <1>2, <1>d, <2>1 DEF Take, rows, history
<1>3. ASSUME NEW w \in Worker, Claim(w) PROVE Bound(j)'
  <2>1. CASE j = job[w]
    <3>1. Pending(j)' = Pending(j) \cup {w} /\ w \notin Pending(j)
      BY <1>3, <2>1 DEF Claim, Pending
    <3>2. Cardinality(Pending(j)') = Cardinality(Pending(j)) + 1
      <4>1. IsFiniteSet(Pending(j))
        BY PendingFinite
      <4>2. Cardinality(Pending(j) \cup {w}) = Cardinality(Pending(j)) + 1
        BY <3>1, <4>1, FS_AddElement
      <4>3. QED
        BY <3>1, <4>2
    <3>3. attempts'[j] = attempts[j] + 1 /\ starts'[j] = starts[j] /\ status[j] = "queued" /\ status'[j] = "running"
      BY <1>3, <2>1 DEF Claim, Claimable, history
    <3>4. QED
      BY <1>a, <1>c, <3>2, <3>3
  <2>2. CASE j # job[w]
    <3>1. Pending(j)' \subseteq Pending(j)
      BY <1>3, <2>2 DEF Claim, Pending
    <3>2. QED
      BY <1>3, <2>2, <1>d, <3>1 DEF Claim, history
  <2>3. QED
    BY <2>1, <2>2
<1>4. ASSUME NEW w \in Worker, ClaimRefused(w) \/ Release(w) \/ PushContinuation(w) PROVE Bound(j)'
  <2>1. Pending(j)' \subseteq Pending(j)
    BY <1>4 DEF ClaimRefused, Release, PushContinuation, Pending, rows
  <2>2. QED
    BY <1>4, <1>d, <2>1 DEF ClaimRefused, Release, PushContinuation, rows, history
<1>5. ASSUME NEW w \in Worker, PrepareFails(w) \/ FailAttempt(w) PROVE Bound(j)'
  <2>1. job[w] \in Job
    BY <1>5, BusyHasJob DEF PrepareFails, FailAttempt
  <2>2. Pending(j)' \subseteq Pending(j)
    BY <1>5 DEF PrepareFails, FailAttempt, Pending
  <2>3. attempts' = attempts /\ starts' = starts
    BY <1>5, <2>1, OutcomeRows DEF PrepareFails, FailAttempt, history
  <2>4. status'[j] = "queued" => status[j] = "queued" \/ ~LastAttempt(j)
    BY <1>5, <2>1, OutcomeRows DEF PrepareFails, FailAttempt
  <2>5. status'[j] = "absent" => status[j] = "absent"
    BY <1>5, <2>1, OutcomeRows DEF PrepareFails, FailAttempt
  <2>6. QED
    BY <1>d, <2>2, <2>3, <2>4, <2>5
<1>6. ASSUME NEW w \in Worker, Admit(w) \/ AdmitOpen(w) PROVE Bound(j)'
  <2>1. StartHandler(w) /\ pc[w] = "claimed" /\ UNCHANGED <<status, attempts, cursor, job, seen>>
    BY <1>6 DEF Admit, AdmitOpen, rows
  <2>2. CASE j = job[w] /\ seen[w] = cursor[j]
    <3>1. Pending(j)' = Pending(j) \ {w} /\ w \in Pending(j)
      BY <2>1, <2>2 DEF StartHandler, Pending
    <3>2. Cardinality(Pending(j)') = Cardinality(Pending(j)) - 1
      <4>1. IsFiniteSet(Pending(j))
        BY PendingFinite
      <4>2. Cardinality(Pending(j) \ {w}) = Cardinality(Pending(j)) - 1
        BY <3>1, <4>1, FS_RemoveElement
      <4>3. QED
        BY <3>1, <4>2
    <3>3. starts'[j] = starts[j] + 1
      BY <2>1, <2>2 DEF StartHandler
    <3>4. QED
      BY <1>a, <1>c, <2>1, <3>2, <3>3
  <2>3. CASE ~(j = job[w] /\ seen[w] = cursor[j])
    <3>1. Pending(j)' \subseteq Pending(j)
      BY <2>1 DEF StartHandler, Pending
    <3>2. starts'[j] = starts[j]
      BY <2>1, <2>3 DEF StartHandler
    <3>3. QED
      BY <1>d, <2>1, <3>1, <3>2
  <2>4. QED
    BY <2>2, <2>3
<1>7. ASSUME NEW w \in Worker, Defer(w) PROVE Bound(j)'
  <2>1. starts' = starts /\ UNCHANGED <<cursor, job, seen>> /\ pc[w] = "claimed" /\ pc' = [pc EXCEPT ![w] = "return"]
    BY <1>7 DEF Defer
  <2>2. CASE Owns(w) /\ j = job[w]
    <3>1. seen[w] = cursor[j]
      BY <2>1, <2>2 DEF StepInv, Open
    <3>2. Pending(j)' = Pending(j) \ {w} /\ w \in Pending(j)
      BY <2>1, <2>2, <3>1 DEF Pending
    <3>3. Cardinality(Pending(j)') = Cardinality(Pending(j)) - 1
      <4>1. IsFiniteSet(Pending(j))
        BY PendingFinite
      <4>2. Cardinality(Pending(j) \ {w}) = Cardinality(Pending(j)) - 1
        BY <3>2, <4>1, FS_RemoveElement
      <4>3. QED
        BY <3>2, <4>2
    <3>4. attempts'[j] = IF attempts[j] > 0 THEN attempts[j] - 1 ELSE 0
      BY <1>7, <2>2 DEF Defer
    <3>5. QED
      BY <1>a, <1>c, <2>1, <3>3, <3>4
  <2>3. CASE ~(Owns(w) /\ j = job[w])
    <3>1. Pending(j)' \subseteq Pending(j)
      BY <2>1 DEF Pending
    <3>2. status'[j] = status[j] /\ attempts'[j] = attempts[j]
      BY <1>7, <2>3 DEF Defer
    <3>3. QED
      BY <1>d, <2>1, <3>1, <3>2
  <2>4. QED
    BY <2>2, <2>3
<1>8. ASSUME NEW w \in Worker, Succeed(w) \/ Continue(w) PROVE Bound(j)'
  <2>1. pc[w] = "run" /\ pc' = [pc EXCEPT ![w] = "release"] /\ UNCHANGED <<job, seen>>
    BY <1>8 DEF Succeed, Continue
  <2>2. CASE Owns(w) /\ j = job[w]
    <3>1. CommitStep(w) /\ cursor'[j] = cursor[j] + 1
      BY <1>8, <2>1, <2>2 DEF Succeed, Continue, CommitStep, StepInv, Open
    <3>2. Pending(j)' = {}
      <4> SUFFICES ASSUME NEW v \in Pending(j)' PROVE FALSE
        OBVIOUS
      <4>1. v \in Worker /\ pc[v] = "claimed" /\ job[v] = j /\ seen[v] = cursor[j] + 1
        BY <2>1, <3>1 DEF Pending
      <4>2. seen[v] <= cursor[j]
        BY <4>1 DEF StepInv, Open
      <4>3. QED
        BY <4>1, <4>2
    <3>3. Cardinality(Pending(j)') = 0
      BY <3>2, FS_EmptySet
    <3>4. starts'[j] = 0
      BY <3>1, <2>2 DEF CommitStep
    <3>5. attempts'[j] \in {0, attempts[j]} /\ (status'[j] = "queued" => attempts'[j] = 0) /\ status'[j] # "absent"
      BY <1>8, <2>2 DEF Succeed, Continue, EndRows
    <3>6. QED
      BY <1>a, <1>c, <3>3, <3>4, <3>5
  <2>3. CASE ~(Owns(w) /\ j = job[w])
    <3>1. UNCHANGED <<cursor[j], starts[j], status[j], attempts[j]>>
      BY <1>8, <2>3 DEF Succeed, Continue, CommitStep, EndRows
    <3>2. Pending(j)' \subseteq Pending(j)
      BY <2>1, <3>1 DEF Pending
    <3>3. QED
      BY <1>d, <3>1, <3>2
  <2>4. QED
    BY <2>2, <2>3
<1>9. ASSUME NEW w \in Worker, Return(w) \/ Kill(w) PROVE Bound(j)'
  <2>1. Pending(j)' \subseteq Pending(j)
    BY <1>9 DEF Return, Kill, Leaves, Pending, rows
  <2>2. QED
    BY <1>9, <1>d, <2>1 DEF Return, Kill, rows, history
<1>10. ASSUME NEW r \in Reaper, Recover(r) PROVE Bound(j)'
  <2>1. Pending(j)' \subseteq Pending(j)
    BY <1>10 DEF Recover, Pending, workers
  <2>2. QED
    BY <1>10, <1>d, <2>1 DEF Recover, history
<1>11. ASSUME UNCHANGED <<stepVars, attempts, starts>> PROVE Bound(j)'
  <2>1. Pending(j)' \subseteq Pending(j)
    BY <1>11 DEF stepVars, Pending
  <2>2. QED
    BY <1>11, <1>d, <2>1 DEF stepVars
<1>12. QED
  BY <1>1, <1>2, <1>3, <1>4, <1>5, <1>6, <1>7, <1>8, <1>9, <1>10, <1>11, Bystanders
  DEF Next, WorkerStep, ReaperStep

\* However many attempts overlap, the handler is called at most max_attempts
\* times from one cursor position, and no more often than attempts are counted.
THEOREM HandlerCallsBoundedHolds == Spec => []HandlerCallsBounded
<1>1. Init => StepInv /\ AttemptInv
  <2> SUFFICES ASSUME Init PROVE StepInv /\ AttemptInv
    OBVIOUS
  <2>1. StepInv
    BY ConstantsAssumption DEF Init, StepInv, EachStepOnce, Open
  <2>2. \A j \in Job : Pending(j) = {}
    BY DEF Init, Pending
  <2>3. AttemptInv
    <3>1. \A j \in Job : Cardinality(Pending(j)) = 0
      BY <2>2, FS_EmptySet
    <3>2. \A j \in Job : starts[j] = 0 /\ attempts[j] = 0
      BY DEF Init
    <3>3. QED
      BY <3>1, <3>2, ConstantsAssumption DEF AttemptInv
  <2>4. QED
    BY <2>1, <2>3
<1>2. TypeOK /\ AttemptInv => HandlerCallsBounded
  <2> SUFFICES ASSUME TypeOK, AttemptInv, NEW j \in Job PROVE starts[j] <= attempts[j] /\ attempts[j] <= MaxAttempts
    BY DEF HandlerCallsBounded
  <2>1. Cardinality(Pending(j)) \in Nat /\ starts[j] \in Nat /\ attempts[j] \in Nat
    BY PendingFinite DEF TypeOK, RowsOK, HistoryOK
  <2>2. QED
    BY <2>1 DEF AttemptInv
<1>3. QED
  BY <1>1, <1>2, StepInvInductive, AttemptInvInductive, TypeCorrect, PTL DEF Spec

-----------------------------------------------------------------------------
(* The Job lifecycle                                                       *)

\* Each step of the system is a step of the lifecycle, or none.
LEMMA LifecycleStep ==
    TypeOK /\ TypeOK' /\ StepInv /\ [Next]_vars => [Lifecycle!Next]_<<status, commits>>
<1> SUFFICES ASSUME TypeOK, TypeOK', StepInv, [Next]_vars
             PROVE  Lifecycle!Next \/ UNCHANGED <<status, commits>>
  OBVIOUS
<1> USE DEF Active, Terminal
<1>s. /\ status \in [Job -> {"absent"} \cup Active \cup Terminal]
      /\ status' \in [Job -> {"absent"} \cup Active \cup Terminal]
  BY DEF TypeOK, RowsOK
<1>u. ASSUME UNCHANGED commits,
             \A j \in Job : status'[j] # status[j] =>
                                status[j] = "running" /\ status'[j] \in {"queued", "failed"}
      PROVE  Lifecycle!Next
  BY <1>s, <1>u DEF Lifecycle!Next, Lifecycle!Undo, Lifecycle!Phases, Lifecycle!Final, Terminal, Active
<1>m. ASSUME NEW w \in Worker, Open(w), Owns(w), CommitStep(w), job[w] \in Job,
             status' = [status EXCEPT ![job[w]] =
                          IF seen[w] + 1 < Steps[job[w]] THEN "queued" ELSE "done"]
      PROVE  Lifecycle!Next
  <2>1. commits[job[w]] = seen[w]
    BY <1>m DEF StepInv, EachStepOnce
  <2>2. Lifecycle!Make(job[w])
    BY <1>m, <2>1 DEF Lifecycle!Make, Owns, CommitStep
  <2>3. QED
    BY <1>m, <2>2 DEF Lifecycle!Next
<1>1. ASSUME NEW j \in Job, Enqueue(j) PROVE Lifecycle!Next
  <2>1. Lifecycle!Submit(j)
    BY <1>1 DEF Enqueue, history, Lifecycle!Submit
  <2>2. QED
    BY <2>1 DEF Lifecycle!Next
<1>2. ASSUME NEW w \in Worker, Claim(w) PROVE Lifecycle!Next
  <2>1. job[w] \in Job
    BY <1>2, BusyHasJob DEF Claim
  <2>2. Lifecycle!Begin(job[w])
    BY <1>2 DEF Claim, Claimable, DependencyOver, history, Lifecycle!Begin, Lifecycle!Ended, Lifecycle!Final
  <2>3. QED
    BY <2>1, <2>2 DEF Lifecycle!Next
<1>3. ASSUME NEW w \in Worker, PrepareFails(w) \/ FailAttempt(w) PROVE Lifecycle!Next
  <2>1. job[w] \in Job
    BY <1>3, BusyHasJob DEF PrepareFails, FailAttempt
  <2>2. \A j \in Job : status'[j] # status[j] =>
                          status[j] = "running" /\ status'[j] \in {"queued", "failed"}
    BY <1>3, <2>1, OutcomeRows DEF PrepareFails, FailAttempt
  <2>3. QED
    BY <1>3, <1>u, <2>2 DEF PrepareFails, FailAttempt, history
<1>4. ASSUME NEW w \in Worker, Defer(w) PROVE Lifecycle!Next
  BY <1>4, <1>s, <1>u DEF Defer, Owns
<1>5. ASSUME NEW w \in Worker, Succeed(w) PROVE Lifecycle!Next \/ UNCHANGED <<status, commits>>
  <2>1. CASE Owns(w)
    <3>1. job[w] \in Job /\ Open(w) /\ CommitStep(w)
      BY <1>5, <2>1, BusyHasJob DEF Succeed, Open
    <3>2. ~(seen[w] + 1 < Steps[job[w]])
      BY <1>5, <3>1, ConstantsAssumption DEF Succeed, TypeOK, WorkersOK
    <3>3. status' = [status EXCEPT ![job[w]] = "done"]
      BY <1>5, <1>s, <2>1 DEF Succeed, EndRows
    <3>4. QED
      BY <1>m, <2>1, <3>1, <3>2, <3>3
  <2>2. QED
    BY <1>5, <2>1 DEF Succeed
<1>6. ASSUME NEW w \in Worker, Continue(w) PROVE Lifecycle!Next \/ UNCHANGED <<status, commits>>
  <2>1. CASE Owns(w)
    <3>1. job[w] \in Job /\ Open(w) /\ CommitStep(w)
      BY <1>6, <2>1, BusyHasJob DEF Continue, Open
    <3>2. QED
      BY <1>6, <1>m, <2>1, <3>1 DEF Continue
  <2>2. QED
    BY <1>6, <2>1 DEF Continue
<1>7. ASSUME NEW r \in Reaper, Recover(r) PROVE Lifecycle!Next
  BY <1>7, <1>u DEF Recover, Dead, history
<1>8. ASSUME NEW w \in Worker,
             \/ ClaimRefused(w) \/ Admit(w) \/ AdmitOpen(w) \/ Release(w)
             \/ PushContinuation(w) \/ Return(w) \/ Kill(w)
      PROVE  UNCHANGED <<status, commits>>
  BY <1>8 DEF ClaimRefused, Admit, AdmitOpen, StartHandler, Release, PushContinuation, Return,
              Kill, rows, history
<1>9. ASSUME NEW w \in Worker, NEW m \in queue, Take(w, m) PROVE UNCHANGED <<status, commits>>
  BY <1>9 DEF Take, rows, history
<1>10. ASSUME UNCHANGED stepVars PROVE UNCHANGED <<status, commits>>
  BY <1>10 DEF stepVars
<1>11. QED
  BY <1>1, <1>2, <1>3, <1>4, <1>5, <1>6, <1>7, <1>8, <1>9, <1>10, Bystanders
  DEF Next, WorkerStep, ReaperStep

\* The rows refine the lifecycle: an end is final, no outcome lands twice,
\* what is durable is made step by step by a running Job, and no dependent
\* runs before its dependency has ended.
THEOREM LifecycleHolds == Spec => LifecycleSpec
<1>1. Init => Lifecycle!Init
  BY DEF Init, Lifecycle!Init
<1>2. Init => StepInv
  BY ConstantsAssumption DEF Init, StepInv, EachStepOnce, Open
<1>3. QED
  BY <1>1, <1>2, LifecycleStep, StepInvInductive, TypeCorrect, PTL
  DEF Spec, LifecycleSpec, Lifecycle!Spec

-----------------------------------------------------------------------------
(* What carries a runnable Job                                             *)

\* A row stays, and an end is final: once rooted, always rooted.
LEMMA RootedStays ==
    ASSUME TypeOK, TypeOK', StepInv, [Next]_vars, NEW j \in Job, Rooted(j)
    PROVE  Rooted(j)'
<1>1. [Lifecycle!Next]_<<status, commits>>
  BY LifecycleStep
<1>2. \A k \in Job : /\ status[k] # "absent" => status'[k] # "absent"
                     /\ status[k] \in Terminal => status'[k] = status[k]
  BY <1>1 DEF Lifecycle!Next, Lifecycle!Submit, Lifecycle!Begin, Lifecycle!Make, Lifecycle!Undo,
              TypeOK, RowsOK, Active, Terminal
<1>3. Dep[j] # None => Dep[j] \in Job
  BY ConstantsAssumption
<1>4. QED
  BY <1>2, <1>3 DEF Rooted, DependencyOver

\* What EndRows and the reaper put into the outbox, and Recover reads, is rooted.
LEMMA ReleasedAreRooted ==
    ASSUME TypeOK, TypeOK', NEW J \in SUBSET Job, NEW s \in Terminal,
           \A k \in J : status'[k] = s, \A k \in Job : status[k] = "queued" => status'[k] = "queued"
    PROVE  \A j \in Dependents(J) : j \in Job /\ Rooted(j)'
BY DEF Dependents, Rooted, DependencyOver, Terminal

\* Every trace of a Job is one of a rooted Job: it is one that was there, or
\* the row was found rooted when the trace was made.
LEMMA TracesStayRooted ==
    ASSUME TypeOK, TypeOK', StepInv, [Next]_vars, \A j \in Job : Traced(j) => Rooted(j)
    PROVE  \A j \in Job : Traced(j)' => Rooted(j)'
<1> SUFFICES ASSUME NEW j \in Job, Traced(j)', ~Traced(j) PROVE Rooted(j)'
  BY RootedStays
<1> DEFINE New == \/ j \in outbox' \/ delayed'[j] # "unset" \/ cursor'[j] > 0
                  \/ \E f \in Form : <<j, f>> \in queue'
                  \/ \E w \in Worker : job'[w] = j
                  \/ \E r \in Reaper : j \in rrows'[r]
<1>t. New
  BY DEF Traced
<1>n. /\ j \notin outbox /\ delayed[j] = "unset" /\ ~(cursor[j] > 0)
      /\ \A f \in Form : <<j, f>> \notin queue
      /\ \A w \in Worker : job[w] # j
      /\ \A r \in Reaper : j \notin rrows[r]
  BY DEF Traced
<1> HIDE DEF New
<1>y. /\ queue \subseteq Job \X Form /\ rrows \in [Reaper -> SUBSET Job]
      /\ delayed \in [Job -> Timer] /\ cursor \in [Job -> Nat]
      /\ job \in [Worker -> Job \cup {None}] /\ status \in [Job -> {"absent"} \cup Active \cup Terminal]
      /\ due \in [Job -> Timer]
  BY DEF TypeOK, RowsOK, ValkeyOK, WorkersOK, ReapersOK
<1>1. ASSUME NEW k \in Job, Enqueue(k) PROVE Rooted(j)'
  <2>1. j = k /\ DependencyOver(k)
    BY <1>1, <1>t, <1>n DEF Enqueue, New, valkey, workers, reapers
  <2>2. status'[k] = "queued" /\ \A i \in Job : i # k => status'[i] = status[i]
    BY <1>1, <1>y DEF Enqueue
  <2>3. Dep[k] # None => Dep[k] # k
    BY <1>1 DEF Enqueue
  <2>4. QED
    BY <2>1, <2>2, <2>3, ConstantsAssumption DEF Rooted, DependencyOver
<1>2. ASSUME NEW k \in Job, Dispatch(k) \/ Drain(k) PROVE FALSE
  <2>1. j # k /\ \A f \in Form : <<j, f>> \notin queue'
    BY <1>2, <1>n DEF Dispatch, Drain
  <2>2. QED
    BY <1>2, <1>t, <1>n, <1>y, <2>1 DEF Dispatch, Drain, New, rows, workers, reapers
<1>3. ASSUME NEW w \in Worker, NEW m \in queue, Take(w, m) PROVE FALSE
  <2>1. m = <<m[1], m[2]>> /\ m[2] \in Form
    BY <1>y
  <2>2. j # m[1]
    BY <1>n, <2>1
  <2>3. QED
    BY <1>3, <1>t, <1>n, <1>y, <2>2 DEF Take, New, rows, reapers
<1>4. ASSUME NEW w \in Worker, Claim(w) \/ ClaimRefused(w) \/ Release(w) \/ Beat(w)
             \/ Admit(w) \/ AdmitOpen(w) \/ Return(w) \/ Kill(w)
      PROVE  FALSE
  <2>1. CASE Claim(w) \/ ClaimRefused(w) \/ Release(w) \/ Beat(w)
    BY <2>1, <1>t, <1>n DEF Claim, ClaimRefused, Release, Beat, New, rows, valkey, workers, reapers
  <2>2. CASE Admit(w) \/ AdmitOpen(w)
    BY <2>2, <1>t, <1>n DEF Admit, AdmitOpen, New, rows, reapers
  <2>3. CASE Return(w) \/ Kill(w)
    <3>1. \A v \in Worker : job'[v] # j
      BY <2>3, <1>n, <1>y, ConstantsAssumption DEF Return, Kill, Leaves
    <3>2. \A f \in Form : <<j, f>> \notin queue'
      BY <2>3, <1>n DEF Return, Kill, valkey
    <3>3. QED
      BY <2>3, <3>1, <3>2, <1>t, <1>n DEF Return, Kill, New, rows, valkey, reapers
  <2>4. QED
    BY <1>4, <2>1, <2>2, <2>3
<1>5. ASSUME NEW w \in Worker, PrepareFails(w) \/ FailAttempt(w) PROVE Rooted(j)'
  <2>1. job[w] \in Job /\ (FailRow(w) \/ RetryRow(w))
    BY <1>5, BusyHasJob DEF PrepareFails, FailAttempt
  <2>2. j \in outbox'
    BY <1>5, <1>t, <1>n DEF PrepareFails, FailAttempt, New, valkey, reapers
  <2>3. EndRows({job[w]}, "failed") /\ Owns(w)
    BY <2>1, <2>2, <1>n DEF FailRow, RetryRow
  <2>4. j \in Dependents({job[w]})
    BY <2>2, <2>3, <1>n DEF EndRows
  <2>5. status' = [k \in Job |-> IF k \in {job[w]} THEN "failed" ELSE status[k]]
    BY <2>3 DEF EndRows
  <2>6. QED
    BY <2>1, <2>3, <2>4, <2>5, ReleasedAreRooted DEF Terminal, Owns
<1>6. ASSUME NEW w \in Worker, Defer(w) \/ Continue(w) \/ PushContinuation(w) PROVE FALSE
  <2>1. job[w] \in Job /\ job[w] # j
    BY <1>6, <1>n, BusyHasJob DEF Defer, Continue, PushContinuation
  <2>2. delayed'[j] = delayed[j] /\ cursor'[j] = cursor[j]
    BY <1>6, <1>y, <2>1 DEF Defer, Continue, PushContinuation, CommitStep, valkey, rows
  <2>3. \A f \in Form : <<j, f>> \notin queue'
    BY <1>6, <1>n, <2>1 DEF Defer, Continue, PushContinuation, valkey
  <2>4. QED
    BY <1>6, <1>t, <1>n, <2>2, <2>3 DEF Defer, Continue, PushContinuation, New, rows, reapers
<1>7. ASSUME NEW w \in Worker, Succeed(w) PROVE Rooted(j)'
  <2>1. job[w] \in Job /\ job[w] # j
    BY <1>7, <1>n, BusyHasJob DEF Succeed
  <2>2. cursor'[j] = cursor[j]
    BY <1>7, <1>y, <2>1 DEF Succeed, CommitStep
  <2>3. j \in outbox'
    BY <1>7, <1>t, <1>n, <2>2 DEF Succeed, New, valkey, reapers
  <2>4. EndRows({job[w]}, "done") /\ Owns(w)
    BY <1>7, <1>n, <2>3 DEF Succeed
  <2>5. j \in Dependents({job[w]})
    BY <2>3, <2>4, <1>n DEF EndRows
  <2>6. status' = [k \in Job |-> IF k \in {job[w]} THEN "done" ELSE status[k]]
    BY <2>4 DEF EndRows
  <2>7. QED
    BY <2>1, <2>4, <2>5, <2>6, ReleasedAreRooted DEF Terminal, Owns
<1>8. ASSUME NEW r \in Reaper, Recover(r) PROVE Rooted(j)'
  <2> DEFINE spent == {k \in Dead(r) : LastAttempt(k)}
  <2>1. spent \subseteq Job /\ \A k \in spent : status'[k] = "failed"
    BY <1>8 DEF Recover, Dead, TypeOK, RowsOK
  <2>2. \A k \in Job : status[k] = "queued" => status'[k] = "queued"
    BY <1>8 DEF Recover, Dead
  <2>3. j \in outbox' \/ j \in rrows'[r]
    BY <1>8, <1>t, <1>n, <1>y DEF Recover, New, valkey, workers
  <2>4. CASE j \in outbox'
    <3>1. j \in Dependents(spent)
      BY <1>8, <1>n, <2>4 DEF Recover
    <3>2. QED
      BY <2>1, <2>2, <3>1, ReleasedAreRooted DEF Terminal
  <2>5. CASE j \in rrows'[r]
    <3>1. Overdue(j)'
      BY <1>8, <1>y, <2>5 DEF Recover
    <3>2. QED
      BY <3>1 DEF Overdue, Rooted, DependencyOver
  <2>6. QED
    BY <2>3, <2>4, <2>5
<1>9. ASSUME NEW r \in Reaper, Snapshot(r) \/ PushDue(r) \/ Abandon(r) PROVE FALSE
  <2>1. CASE PushDue(r)
    <3>1. \A f \in Form : <<j, f>> \notin queue'
      BY <2>1, <1>n DEF PushDue
    <3>2. QED
      BY <2>1, <3>1, <1>t, <1>n, <1>y DEF PushDue, New, rows, workers
  <2>2. CASE Snapshot(r) \/ Abandon(r)
    BY <2>2, <1>t, <1>n, <1>y DEF Snapshot, Abandon, New, rows, valkey, workers
  <2>3. QED
    BY <1>9, <2>1, <2>2
<1>10. ASSUME World \/ UNCHANGED vars PROVE FALSE
  <2>1. CASE \E k \in Job : Elapse(k)
    BY <2>1, <1>t, <1>n, <1>y DEF Elapse, New, workers, reapers, Timer
  <2>2. CASE UNCHANGED vars
    BY <2>2, <1>t, <1>n DEF New, vars, rows, valkey, workers, reapers
  <2>3. CASE Flush
    BY <2>3, <1>t, <1>n DEF Flush, New, rows, workers, reapers
  <2>4. CASE World /\ ~Flush /\ ~\E k \in Job : Elapse(k)
    <3>1. UNCHANGED <<outbox, delayed, cursor, queue, job, rrows>>
      BY <2>4 DEF World, Silence, Unlist, Relist, LeaseLapse, LiveStarts, LiveEnds, rows, valkey, workers, reapers
    <3>2. QED
      BY <3>1, <1>t, <1>n DEF New
  <2>5. QED
    BY <1>10, <2>1, <2>2, <2>3, <2>4
<1>11. QED
  BY <1>1, <1>2, <1>3, <1>4, <1>5, <1>6, <1>7, <1>8, <1>9, <1>10 DEF Next, WorkerStep, ReaperStep


\* A worker that will push a continuation has just written it.
LEMMA ContinuedIsEnding ==
    ASSUME TypeOK, [Next]_vars, \A w \in Worker : continued[w] => pc[w] \in {"release", "push"}
    PROVE  \A w \in Worker : continued'[w] => pc'[w] \in {"release", "push"}
<1>y. /\ pc \in [Worker -> {"idle", "taken", "claimed", "run", "release", "push", "return"}]
      /\ continued \in [Worker -> BOOLEAN]
  BY DEF TypeOK, WorkersOK
<1>1. ASSUME NEW w \in Worker, WorkerStep(w) \/ Kill(w) PROVE \A v \in Worker : continued'[v] => pc'[v] \in {"release", "push"}
  <2>1. \A v \in Worker : v # w => pc'[v] = pc[v] /\ continued'[v] = continued[v]
    BY <1>1, <1>y DEF WorkerStep, Claim, ClaimRefused, PrepareFails, Admit, AdmitOpen, StartHandler, Defer, Succeed,
       Continue, FailAttempt, Release, PushContinuation, Return, Kill, Leaves
  <2>2. continued'[w] => pc'[w] \in {"release", "push"}
    <3>1. CASE Claim(w) \/ ClaimRefused(w) \/ PrepareFails(w) \/ Defer(w)
      BY <3>1, <1>y DEF Claim, ClaimRefused, PrepareFails, Defer
    <3>2. CASE Admit(w) \/ AdmitOpen(w)
      BY <3>2, <1>y DEF Admit, AdmitOpen, StartHandler
    <3>3. CASE Succeed(w) \/ Continue(w) \/ FailAttempt(w)
      BY <3>3, <1>y DEF Succeed, Continue, FailAttempt
    <3>4. CASE Release(w) \/ PushContinuation(w) \/ Return(w) \/ Kill(w)
      BY <3>4, <1>y DEF Release, PushContinuation, Return, Kill, Leaves
    <3>5. QED
      BY <1>1, <3>1, <3>2, <3>3, <3>4 DEF WorkerStep
  <2>3. QED
    BY <2>1, <2>2
<1>2. ASSUME NEW w \in Worker, NEW m \in queue, Take(w, m)
      PROVE  \A v \in Worker : continued'[v] => pc'[v] \in {"release", "push"}
  BY <1>2, <1>y DEF Take
<1>3. ASSUME \/ \E j \in Job : Enqueue(j) \/ Dispatch(j) \/ Drain(j)
             \/ \E w \in Worker : Beat(w)
             \/ \E r \in Reaper : ReaperStep(r) \/ Abandon(r)
             \/ World \/ UNCHANGED vars
      PROVE  UNCHANGED <<pc, continued>>
  BY <1>3 DEF Enqueue, Dispatch, Drain, Beat, ReaperStep, Snapshot, Recover, PushDue, Abandon, World, Elapse, Silence,
     Unlist, Relist, LeaseLapse, Flush, LiveStarts, LiveEnds, vars, workers
<1>4. QED
  BY <1>1, <1>2, <1>3 DEF Next

\* A step that leaves a Job's row and workers alone, and takes nothing from
\* what carries it, leaves it carried.
LEMMA UntouchedIsCarried ==
    ASSUME NEW j \in Job,
           Runnable(j) => IF cursor[j] = 0 THEN CarriedFirst(j) ELSE CarriedOn(j),
           Runnable(j)' => Runnable(j),
           cursor'[j] = cursor[j],
           j \in outbox => j \in outbox' \/ <<j, "own">> \in queue',
           \A f \in Form : <<j, f>> \in queue => <<j, f>> \in queue',
           \A w \in Worker : (job[w] = j \/ job'[w] = j) =>
               job'[w] = job[w] /\ pc'[w] = pc[w] /\ continued'[w] = continued[w]
    PROVE  Runnable(j)' => IF cursor'[j] = 0 THEN CarriedFirst(j)' ELSE CarriedOn(j)'
BY DEF CarriedFirst, CarriedOn, Form


\* A dependent that is released has nothing else yet, and goes into the outbox.
LEMMA ReleasedIsCarried ==
    ASSUME TypeOK, NEW j \in Job, Traced(j) => Rooted(j), ~Rooted(j),
           j \in outbox', cursor'[j] = cursor[j],
           \A w \in Worker : job'[w] = j => job[w] = j
    PROVE  cursor'[j] = 0 /\ CarriedFirst(j)'
<1>1. cursor[j] \in Nat
  BY DEF TypeOK, RowsOK
<1>2. cursor[j] = 0 /\ \A w \in Worker : job[w] # j
  BY <1>1 DEF Traced
<1>3. QED
  BY <1>2 DEF CarriedFirst

\* A worker that is neither about to claim nor to push carries nothing: what
\* it does with a runnable Job it holds leaves the Job's continuation alone.
LEMMA BusyIsNoCarrier ==
    ASSUME NEW w \in Worker, NEW j, job[w] = j, pc[w] # "taken", ~continued[w],
           IF cursor[j] = 0 THEN CarriedFirst(j) ELSE CarriedOn(j),
           cursor'[j] = cursor[j],
           <<j, "distinct">> \in queue => <<j, "distinct">> \in queue',
           \A v \in Worker \ {w} : job'[v] = job[v] /\ pc'[v] = pc[v] /\ continued'[v] = continued[v]
    PROVE  IF cursor'[j] = 0 THEN CarriedFirst(j)' ELSE CarriedOn(j)'
BY DEF CarriedFirst, CarriedOn

\* Without disturbances every step leaves a runnable Job something to carry it.
LEMMA CarriedStays ==
    ASSUME TypeOK, TypeOK', CarryInv, [Next]_vars, faults = 0, faults' = 0, NEW j \in Job, Runnable(j)'
    PROVE  IF cursor'[j] = 0 THEN CarriedFirst(j)' ELSE CarriedOn(j)'
<1> DEFINE Carried == IF cursor[j] = 0 THEN CarriedFirst(j) ELSE CarriedOn(j)
           Still == IF cursor'[j] = 0 THEN CarriedFirst(j)' ELSE CarriedOn(j)'
<1>y. /\ queue \subseteq Job \X Form /\ cursor \in [Job -> Nat]
      /\ status \in [Job -> {"absent"} \cup Active \cup Terminal] /\ due \in [Job -> Timer]
      /\ pc \in [Worker -> {"idle", "taken", "claimed", "run", "release", "push", "return"}]
      /\ job \in [Worker -> Job \cup {None}] /\ continued \in [Worker -> BOOLEAN]
      /\ \A w \in Worker : job[w] = None <=> pc[w] = "idle"
  BY DEF TypeOK, RowsOK, ValkeyOK, WorkersOK
<1>i. /\ Traced(j) => Rooted(j)
      /\ \A w \in Worker : continued[w] => pc[w] \in {"release", "push"}
      /\ Runnable(j) => Carried
  BY DEF CarryInv
<1>d. ASSUME NEW kind, Disturb(kind) PROVE FALSE
  BY <1>d DEF Disturb
<1>n. Dep[j] # None => Dep[j] \in Job
  BY ConstantsAssumption
<1> HIDE DEF Carried, Still
\* Same row, same workers, more messages.
<1>u. ASSUME Runnable(j)' => Runnable(j),
             cursor'[j] = cursor[j],
             j \in outbox => j \in outbox' \/ <<j, "own">> \in queue',
             \A f \in Form : <<j, f>> \in queue => <<j, f>> \in queue',
             \A w \in Worker : (job[w] = j \/ job'[w] = j) =>
                 job'[w] = job[w] /\ pc'[w] = pc[w] /\ continued'[w] = continued[w]
      PROVE  Still
  BY <1>u, <1>i, UntouchedIsCarried DEF Carried, Still
<1>1. ASSUME NEW k \in Job, Enqueue(k) PROVE Still
  <2>1. status' = [status EXCEPT ![k] = "queued"] /\ status[k] = "absent" /\ UNCHANGED <<due, cursor, queue, workers>>
    BY <1>1 DEF Enqueue, valkey
  <2>2. CASE j = k
    <3>1. ~Rooted(j)
      BY <2>1, <2>2 DEF Rooted
    <3>2. Dep[j] # None => Dep[j] # j
      BY <1>1, <2>2 DEF Enqueue
    <3>3. DependencyOver(j)
      BY <1>y, <1>n, <2>1, <2>2, <3>2 DEF Runnable, DependencyOver
    <3>4. j \in outbox'
      BY <1>1, <2>2, <3>3 DEF Enqueue
    <3>5. QED
      BY <1>i, <2>1, <3>1, <3>4, ReleasedIsCarried DEF Still, workers
  <2>3. CASE j # k
    <3>1. Runnable(j)
      BY <1>y, <1>n, <2>1, <2>3 DEF Runnable, DependencyOver, Terminal
    <3>2. j \in outbox => j \in outbox'
      BY <1>1 DEF Enqueue
    <3>3. QED
      BY <1>u, <2>1, <3>1, <3>2 DEF workers
  <2>4. QED
    BY <2>2, <2>3
<1>2. ASSUME NEW k \in Job, Dispatch(k) \/ Drain(k) PROVE Still
  <2>1. UNCHANGED <<status, due, cursor, workers>>
    BY <1>2 DEF Dispatch, Drain, rows
  <2>2. j \in outbox => j \in outbox' \/ <<j, "own">> \in queue'
    BY <1>2, <1>d DEF Dispatch, Drain, rows
  <2>3. queue \subseteq queue'
    BY <1>2, <1>d DEF Dispatch, Drain
  <2>4. Runnable(j)
    BY <2>1 DEF Runnable, DependencyOver
  <2>5. QED
    BY <1>u, <2>1, <2>2, <2>3, <2>4 DEF workers
<1>3. ASSUME NEW w \in Worker, NEW m \in queue, Take(w, m) PROVE Still
  <2>1. UNCHANGED <<status, due, cursor, outbox, continued>> /\ queue' = queue \ {m}
    BY <1>3 DEF Take, rows
  <2>2. Runnable(j)
    BY <2>1 DEF Runnable, DependencyOver
  <2>3. /\ job' = [job EXCEPT ![w] = m[1]] /\ pc' = [pc EXCEPT ![w] = "taken"] /\ job[w] = None
    BY <1>3, <1>y DEF Take
  <2>4. CASE m[1] = j
    <3>1. job'[w] = j /\ pc'[w] = "taken"
      BY <1>y, <2>3, <2>4
    <3>2. cursor[j] = 0 => \A v \in Worker : job'[v] = j => pc'[v] = "taken"
      BY <1>i, <1>y, <2>2, <2>3 DEF Carried, CarriedFirst
    <3>3. QED
      BY <2>1, <3>1, <3>2 DEF Still, CarriedFirst, CarriedOn
  <2>5. CASE m[1] # j
    <3>1. job[w] # j /\ job'[w] # j
      BY <1>y, <2>3, <2>5, ConstantsAssumption
    <3>2. \A v \in Worker : (job[v] = j \/ job'[v] = j) => job'[v] = job[v] /\ pc'[v] = pc[v]
      BY <1>y, <2>3, <3>1
    <3>3. \A f \in Form : <<j, f>> \in queue => <<j, f>> \in queue'
      BY <2>1, <2>5
    <3>4. QED
      BY <1>u, <2>1, <2>2, <3>2, <3>3
  <2>6. QED
    BY <2>4, <2>5
<1>4. ASSUME NEW w \in Worker, Claim(w) PROVE Still
  <2>1. status' = [status EXCEPT ![job[w]] = "running"] /\ job[w] \in Job
    BY <1>4, BusyHasJob DEF Claim
  <2>2. j # job[w]
    BY <1>y, <2>1 DEF Runnable
  <2>3. Runnable(j)
    BY <1>4, <1>y, <1>n, <2>1, <2>2 DEF Claim, Runnable, DependencyOver, Terminal
  <2>4. QED
    BY <1>4, <1>u, <1>y, <2>2, <2>3 DEF Claim, valkey
<1>5. ASSUME NEW w \in Worker, ClaimRefused(w) PROVE Still
  <2>1. Runnable(j)
    BY <1>5 DEF ClaimRefused, rows, Runnable, DependencyOver
  <2>2. j # job[w]
    BY <1>5, <2>1 DEF ClaimRefused, Claimable, Runnable
  <2>3. QED
    BY <1>5, <1>u, <1>y, <2>1, <2>2 DEF ClaimRefused, rows, valkey
\* The row is not written, and w stays with j or leaves it without having carried it.
<1>b. ASSUME NEW w \in Worker, pc[w] \notin {"idle", "taken"}, ~continued[w],
             UNCHANGED <<status, due, cursor, outbox>>,
             \A f \in Form : <<j, f>> \in queue /\ (f = "distinct" \/ job[w] # j) => <<j, f>> \in queue',
             \A v \in Worker \ {w} : job'[v] = job[v] /\ pc'[v] = pc[v] /\ continued'[v] = continued[v],
             job'[w] \in {job[w], None}
      PROVE  Still
  <2>1. Runnable(j)
    BY <1>b DEF Runnable, DependencyOver
  <2>2. CASE job[w] = j
    <3>1. <<j, "distinct">> \in queue => <<j, "distinct">> \in queue'
      BY <1>b DEF Form
    <3>2. QED
      BY <1>b, <1>i, <2>1, <2>2, <3>1, BusyIsNoCarrier DEF Carried, Still
  <2>3. CASE job[w] # j
    <3>1. job'[w] # j
      BY <1>b, <2>3, ConstantsAssumption
    <3>2. QED
      BY <1>b, <1>u, <2>1, <2>3, <3>1
  <2>4. QED
    BY <2>2, <2>3
\* The row of another Job ends, is queued again or is paused.
<1>o. ASSUME NEW w \in Worker, job[w] \in Job \ {j}, Owns(w),
             \/ EndRows({job[w]}, "failed") \/ EndRows({job[w]}, "done")
             \/ status' = [status EXCEPT ![job[w]] = "queued"] /\ due'[j] = due[j] /\ outbox' = outbox,
             cursor'[j] = cursor[j], UNCHANGED <<queue, job>>,
             \A v \in Worker \ {w} : pc'[v] = pc[v] /\ continued'[v] = continued[v]
      PROVE  Still
  <2>1. outbox \subseteq outbox' /\ due'[j] = due[j] /\ status'[j] = status[j]
    BY <1>o, <1>y DEF EndRows
  <2>2. CASE DependencyOver(j)
    <3>1. Runnable(j)
      BY <2>1, <2>2 DEF Runnable
    <3>2. QED
      BY <1>o, <1>u, <2>1, <3>1
  <2>3. CASE ~DependencyOver(j)
    <3>1. Dep[j] = job[w] /\ j \in Dependents({job[w]})
      BY <1>o, <1>y, <1>n, <2>1, <2>3 DEF EndRows, Runnable, DependencyOver, Dependents, Terminal
    <3>2. j \in outbox'
      BY <1>o, <1>y, <2>3, <3>1 DEF EndRows, Runnable, DependencyOver, Terminal
    <3>3. QED
      BY <1>o, <1>i, <2>3, <3>2, ReleasedIsCarried DEF Rooted, Still
  <2>4. QED
    BY <2>2, <2>3
<1>6. ASSUME NEW w \in Worker, PrepareFails(w) \/ FailAttempt(w) PROVE Still
  <2>1. /\ job[w] \in Job /\ pc[w] \in {"claimed", "run"} /\ ~continued[w] /\ (FailRow(w) \/ RetryRow(w))
        /\ UNCHANGED <<cursor, queue, job, continued>> /\ \A v \in Worker \ {w} : pc'[v] = pc[v]
    BY <1>6, <1>y, <1>i, BusyHasJob DEF PrepareFails, FailAttempt, valkey
  <2>2. CASE ~Owns(w)
    <3>1. UNCHANGED <<status, due, cursor, outbox>>
      BY <2>1, <2>2 DEF FailRow, RetryRow
    <3>2. QED
      BY <1>b, <2>1, <3>1
  <2>3. CASE Owns(w)
    <3>1. j # job[w]
      BY <1>y, <2>1, <2>3 DEF FailRow, RetryRow, EndRows, Runnable
    <3>2. \/ EndRows({job[w]}, "failed")
          \/ status' = [status EXCEPT ![job[w]] = "queued"] /\ due'[j] = due[j] /\ outbox' = outbox
      BY <1>y, <2>1, <2>3, <3>1 DEF FailRow, RetryRow
    <3>3. QED
      BY <1>o, <2>1, <2>3, <3>1, <3>2
  <2>4. QED
    BY <2>2, <2>3
<1>7. ASSUME NEW w \in Worker, Defer(w) PROVE Still
  <2>1. /\ job[w] \in Job /\ pc[w] = "claimed" /\ ~continued[w]
        /\ UNCHANGED <<cursor, queue, job, continued, outbox>> /\ \A v \in Worker \ {w} : pc'[v] = pc[v]
    BY <1>7, <1>y, <1>i, BusyHasJob DEF Defer
  <2>2. CASE ~Owns(w)
    <3>1. UNCHANGED <<status, due>>
      BY <1>7, <2>2 DEF Defer
    <3>2. QED
      BY <1>b, <2>1, <3>1
  <2>3. CASE Owns(w)
    <3>1. status' = [status EXCEPT ![job[w]] = "queued"] /\ due' = [due EXCEPT ![job[w]] = "later"]
      BY <1>7, <2>3 DEF Defer
    <3>2. j # job[w]
      BY <1>y, <2>1, <3>1 DEF Runnable
    <3>3. QED
      BY <1>o, <1>y, <2>1, <2>3, <3>1, <3>2
  <2>4. QED
    BY <2>2, <2>3
<1>8. ASSUME NEW w \in Worker, Succeed(w) PROVE Still
  <2>1. /\ job[w] \in Job /\ pc[w] = "run" /\ ~continued[w]
        /\ UNCHANGED <<queue, job, continued>> /\ \A v \in Worker \ {w} : pc'[v] = pc[v]
    BY <1>8, <1>y, <1>i, BusyHasJob DEF Succeed, valkey
  <2>2. CASE ~Owns(w)
    <3>1. UNCHANGED <<status, due, cursor, outbox>>
      BY <1>8, <2>2 DEF Succeed
    <3>2. QED
      BY <1>b, <2>1, <3>1
  <2>3. CASE Owns(w)
    <3>1. EndRows({job[w]}, "done") /\ CommitStep(w)
      BY <1>8, <2>3 DEF Succeed
    <3>2. j # job[w]
      BY <2>1, <3>1 DEF Runnable, EndRows
    <3>3. cursor'[j] = cursor[j]
      BY <1>y, <3>1, <3>2 DEF CommitStep
    <3>4. QED
      BY <1>o, <2>1, <2>3, <3>1, <3>2, <3>3
  <2>4. QED
    BY <2>2, <2>3
<1>9. ASSUME NEW w \in Worker, Continue(w) PROVE Still
  <2>1. /\ job[w] \in Job /\ pc[w] = "run" /\ ~continued[w]
        /\ UNCHANGED <<queue, job, outbox>> /\ \A v \in Worker \ {w} : pc'[v] = pc[v]
    BY <1>9, <1>y, <1>i, BusyHasJob DEF Continue, valkey
  <2>2. CASE ~Owns(w)
    <3>1. UNCHANGED <<status, due, cursor, continued>>
      BY <1>9, <2>2 DEF Continue
    <3>2. QED
      BY <1>b, <2>1, <3>1
  <2>3. CASE Owns(w) /\ j = job[w]
    <3>1. cursor'[j] = seen[w] + 1 /\ continued'[w]
      BY <1>9, <1>y, <2>3 DEF Continue, CommitStep
    <3>2. seen[w] \in Nat
      BY DEF TypeOK, WorkersOK
    <3>3. QED
      BY <2>1, <2>3, <3>1, <3>2 DEF Still, CarriedOn
  <2>4. CASE Owns(w) /\ j # job[w]
    <3>1. /\ status' = [status EXCEPT ![job[w]] = "queued"] /\ due' = [due EXCEPT ![job[w]] = "unset"]
          /\ continued' = [continued EXCEPT ![w] = TRUE] /\ CommitStep(w)
      BY <1>9, <2>4 DEF Continue
    <3>2. due'[j] = due[j] /\ cursor'[j] = cursor[j]
      BY <1>y, <2>4, <3>1 DEF CommitStep
    <3>3. \A v \in Worker \ {w} : continued'[v] = continued[v]
      BY <1>y, <3>1
    <3>4. QED
      BY <1>o, <2>1, <2>4, <3>1, <3>2, <3>3
  <2>5. QED
    BY <2>2, <2>3, <2>4
<1>10. ASSUME NEW w \in Worker, Admit(w) PROVE Still
  <2>1. /\ pc[w] = "claimed" /\ ~continued[w] /\ UNCHANGED <<status, due, cursor, outbox, queue, job, continued>>
        /\ \A v \in Worker \ {w} : pc'[v] = pc[v]
    BY <1>10, <1>y, <1>i DEF Admit, StartHandler, rows
  <2>2. QED
    BY <1>b, <2>1
<1>11. ASSUME NEW w \in Worker, Release(w) PROVE Still
  <2>1. /\ pc[w] = "release" /\ UNCHANGED <<status, due, cursor, outbox, queue, job, continued>>
        /\ \A v \in Worker \ {w} : pc'[v] = pc[v]
    BY <1>11, <1>y DEF Release, rows
  <2>2. CASE ~continued[w]
    BY <1>b, <2>1, <2>2
  <2>3. CASE continued[w]
    <3>1. Runnable(j)
      BY <2>1 DEF Runnable, DependencyOver
    <3>2. CASE cursor[j] # 0
      BY <1>i, <2>1, <3>1, <3>2 DEF Carried, Still, CarriedOn
    <3>3. CASE cursor[j] = 0
      BY <1>i, <1>u, <2>1, <3>1, <3>3 DEF Carried, CarriedFirst
    <3>4. QED
      BY <3>2, <3>3
  <2>4. QED
    BY <2>2, <2>3
<1>12. ASSUME NEW w \in Worker, PushContinuation(w) PROVE Still
  <2>1. /\ pc[w] = "push" /\ UNCHANGED <<status, due, cursor, outbox, job>>
        /\ queue' = queue \cup {<<job[w], "distinct">>}
        /\ \A v \in Worker \ {w} : pc'[v] = pc[v] /\ continued'[v] = continued[v]
    BY <1>12, <1>d, <1>y DEF PushContinuation, ContinuationForm, rows
  <2>2. Runnable(j)
    BY <2>1 DEF Runnable, DependencyOver
  <2>3. CASE job[w] # j
    BY <1>u, <2>1, <2>2, <2>3
  <2>4. CASE job[w] = j
    BY <1>i, <2>1, <2>2, <2>4 DEF Carried, Still, CarriedFirst, CarriedOn
  <2>5. QED
    BY <2>3, <2>4
<1>13. ASSUME NEW w \in Worker, Return(w) PROVE Still
  <2>1. /\ pc[w] = "return" /\ ~continued[w] /\ UNCHANGED <<status, due, cursor, outbox, continued>>
        /\ \A v \in Worker \ {w} : pc'[v] = pc[v] /\ job'[v] = job[v]
        /\ job'[w] = None
    BY <1>13, <1>y, <1>i DEF Return, Leaves, rows
  <2>2. \A f \in Form : <<j, f>> \in queue /\ (f = "distinct" \/ job[w] # j) => <<j, f>> \in queue'
    BY <1>13 DEF Return
  <2>3. QED
    BY <1>b, <2>1, <2>2
<1>14. ASSUME NEW r \in Reaper, Recover(r) PROVE Still
  <2> DEFINE spent == {k \in Dead(r) : LastAttempt(k)}
  <2>1. /\ UNCHANGED <<cursor, queue, workers>> /\ outbox' = outbox \cup Dependents(spent)
    BY <1>14 DEF Recover, valkey
  <2>2. \A k \in Job : status'[k] = IF k \in spent THEN "failed" ELSE IF k \in Dead(r) THEN "queued" ELSE status[k]
    BY <1>14 DEF Recover
  <2>3. j \notin Dead(r)
    BY <1>14 DEF Recover, Runnable
  <2>4. due'[j] = due[j] /\ status'[j] = status[j]
    BY <1>14, <2>3 DEF Recover
  <2>5. CASE DependencyOver(j)
    BY <1>u, <2>1, <2>4, <2>5 DEF Runnable, workers
  <2>6. CASE ~DependencyOver(j)
    <3>1. Dep[j] \in spent
      BY <1>n, <2>2, <2>6 DEF Runnable, DependencyOver, Terminal
    <3>2. j \in outbox'
      BY <2>1, <2>4, <3>1 DEF Dependents, Runnable
    <3>3. QED
      BY <1>i, <2>1, <2>6, <3>2, ReleasedIsCarried DEF Rooted, Still, workers
  <2>7. QED
    BY <2>5, <2>6
<1>15. ASSUME \/ \E w \in Worker : Beat(w)
              \/ \E r \in Reaper : Snapshot(r) \/ PushDue(r)
              \/ World \/ UNCHANGED vars
       PROVE  Still
  <2>1. UNCHANGED <<status, cursor, outbox, workers>> /\ queue \subseteq queue'
    BY <1>15, <1>d DEF Beat, Snapshot, PushDue, World, Elapse, Silence, Unlist, Relist, LeaseLapse, Flush, LiveStarts,
       LiveEnds, vars, rows, valkey, workers
  <2>2. due'[j] = "unset" => due[j] = "unset"
    BY <1>15, <1>d, <1>y DEF Beat, Snapshot, PushDue, World, Elapse, Silence, Unlist, Relist, LeaseLapse, Flush, LiveStarts,
       LiveEnds, vars, rows
  <2>3. Runnable(j)
    BY <2>1, <2>2 DEF Runnable, DependencyOver
  <2>4. QED
    BY <1>u, <2>1, <2>3 DEF workers
<1>16. ASSUME NEW w \in Worker, AdmitOpen(w) \/ Kill(w) PROVE FALSE
  BY <1>16, <1>d DEF AdmitOpen, Kill
<1>17. ASSUME NEW r \in Reaper, Abandon(r) PROVE FALSE
  BY <1>17, <1>d DEF Abandon
<1>18. Still
  BY <1>1, <1>2, <1>3, <1>4, <1>5, <1>6, <1>7, <1>8, <1>9, <1>10, <1>11, <1>12, <1>13, <1>14, <1>15, <1>16, <1>17
  DEF Next, WorkerStep, ReaperStep
<1>19. QED
  BY <1>18 DEF Still

\* Disturbances are counted and never uncounted.
LEMMA DisturbedStays == TypeOK /\ [Next]_vars /\ faults' = 0 => faults = 0
<1> SUFFICES ASSUME TypeOK, [Next]_vars, faults' = 0 PROVE faults = 0
  OBVIOUS
<1>1. faults \in Nat
  BY ConstantsAssumption DEF TypeOK, HistoryOK
<1>2. faults' = faults \/ faults' = faults + 1
  <2>1. CASE \E j \in Job : Enqueue(j) \/ Dispatch(j) \/ Drain(j)
    BY <2>1 DEF Enqueue, Dispatch, Drain, Disturb, Spare, history
  <2>2. CASE \E w \in Worker : WorkerStep(w) \/ Kill(w) \/ Beat(w)
    BY <2>2 DEF WorkerStep, Claim, ClaimRefused, PrepareFails, Admit, AdmitOpen, StartHandler, Defer, Succeed, Continue,
       FailAttempt, Release, PushContinuation, Return, Kill, Beat, Disturb, Spare, history
  <2>3. CASE \E w \in Worker, m \in queue : Take(w, m)
    BY <2>3 DEF Take, history
  <2>4. CASE \E r \in Reaper : ReaperStep(r) \/ Abandon(r)
    BY <2>4 DEF ReaperStep, Snapshot, Recover, PushDue, Abandon, Disturb, Spare, history
  <2>5. CASE World
    BY <2>5 DEF World, Elapse, Silence, Unlist, Relist, LeaseLapse, Flush, LiveStarts, LiveEnds, Disturb, Spare, history
  <2>6. CASE UNCHANGED vars
    BY <2>6 DEF vars, history
  <2>7. QED
    BY <2>1, <2>2, <2>3, <2>4, <2>5, <2>6 DEF Next
<1>3. QED
  BY <1>1, <1>2

\* As long as nothing is lost, killed or interrupted, a Job that may run is
\* always on its way to a worker, whatever the reaper pushes again and the
\* returning workers delete: nothing waits for the reaper.
THEOREM RunnableIsCarriedHolds == Spec => []RunnableIsCarried
<1>1. Init => StepInv /\ CarryInv
  <2>1. Init => StepInv
    BY ConstantsAssumption DEF Init, StepInv, EachStepOnce, Open
  <2>2. Init => \A j \in Job : ~Traced(j) /\ ~Runnable(j)
    BY ConstantsAssumption DEF Init, Traced, Runnable
  <2>3. QED
    BY <2>1, <2>2 DEF Init, CarryInv
<1>2. TypeOK /\ TypeOK' /\ StepInv /\ CarryInv /\ [Next]_vars => CarryInv'
  <2> SUFFICES ASSUME TypeOK, TypeOK', StepInv, CarryInv, [Next]_vars PROVE CarryInv'
    OBVIOUS
  <2>1. \A j \in Job : Traced(j)' => Rooted(j)'
    BY TracesStayRooted DEF CarryInv
  <2>2. \A w \in Worker : continued'[w] => pc'[w] \in {"release", "push"}
    BY ContinuedIsEnding DEF CarryInv
  <2>3. faults' = 0 => \A j \in Job : Runnable(j)' => IF cursor'[j] = 0 THEN CarriedFirst(j)' ELSE CarriedOn(j)'
    BY DisturbedStays, CarriedStays
  <2>4. QED
    BY <2>1, <2>2, <2>3 DEF CarryInv
<1>3. CarryInv => RunnableIsCarried
  BY DEF CarryInv, RunnableIsCarried, Runnable, CarriedFirst, CarriedOn, Form
<1>4. QED
  BY <1>1, <1>2, <1>3, StepInvInductive, TypeCorrect, PTL DEF Spec


=============================================================================
