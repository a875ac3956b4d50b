------------------------------- MODULE Budget -------------------------------
(***************************************************************************)
(* The resident-memory budget of the ml sidecar's lazy models              *)
(* (services/ml/ml_service/budget.py) and their slots (models.py).         *)
(*                                                                         *)
(* Each request runs in a thread of FastAPI's pool.  What a thread does    *)
(* under the budget lock is one action; an eviction in it needs the slot's *)
(* lock as well.  Loading and serving are under the slot's lock only, so   *)
(* other requests come between.                                            *)
(***************************************************************************)
EXTENDS Integers, FiniteSets

CONSTANTS
    Request,     \* the calls of LazySlot.run
    Slot,        \* the lazy models
    Wants,       \* the slot of each request
    Cost,        \* cost_mb
    BudgetMb,    \* budget_mb
    None,        \* no request
    MaxFailures  \* bound on failed loads

ASSUME BudgetAssumption ==
    /\ Wants \in [Request -> Slot]
    /\ Cost \in [Slot -> Nat \ {0}]
    /\ BudgetMb \in Nat
    /\ None \notin Request
    /\ MaxFailures \in Nat
    /\ IsFiniteSet(Slot)

VARIABLES
    pc,        \* the requests
    lock,      \* the holder of each slot's lock
    loaded,    \* slots with a model
    reserved,  \* slots that count against the budget
    users,     \* the requests that `in_use` counts
    older,     \* pairs of slots: the first one's last_used is the earlier
    failures

vars == <<pc, lock, loaded, reserved, users, older, failures>>

TypeOK ==
    /\ pc \in [Request -> {"new", "wait", "load", "serve", "release", "over", "refused"}]
    /\ lock \in [Slot -> Request \cup {None}]
    /\ loaded \subseteq Slot /\ reserved \subseteq Slot
    /\ users \in [Slot -> SUBSET Request]
    /\ older \subseteq Slot \X Slot
    /\ \A s, t \in Slot : <<s, t>> \in older => <<t, s>> \notin older
    /\ failures \in 0..MaxFailures

Init ==
    /\ pc = [c \in Request |-> "new"]
    /\ lock = [s \in Slot |-> None]
    /\ loaded = {} /\ reserved = {}
    /\ users = [s \in Slot |-> {}]
    /\ older = {}
    /\ failures = 0

\* What slots cost together, counted megabyte by megabyte.
Megabytes(slots) == UNION {{s} \X (1..Cost[s]) : s \in slots}
Total(slots) == Cardinality(Megabytes(slots))

Others(s) == Slot \ {s}

\* The last_used of s is the time now.
Used(s) == (older \ ({s} \X Others(s))) \cup (Others(s) \X {s})

-----------------------------------------------------------------------------
(* acquire, under the budget lock                                          *)

Idle(s) == {t \in reserved \ {s} : users[t] = {}}

\* What the budget lacks for s; at most 0 when there is room.
Shortfall(s) == IF s \in reserved THEN 0 ELSE Total(reserved) + Cost[s] - BudgetMb

\* The least recently used idle slots, until enough is freed.
Evicted(s) == {t \in Idle(s) : Total({o \in Idle(s) : <<o, t>> \in older}) < Shortfall(s)}

\* mutant: only the request that makes the reservation counts
FirstUserOnly(c) == IF Wants[c] \in reserved THEN {} ELSE {c}

\* in_use + 1
Entering(c) == {c}

Acquire(c) ==
    LET s == Wants[c] IN
    /\ pc[c] = "new"
    /\ Total(Idle(s)) >= Shortfall(s)
    /\ \A t \in Evicted(s) : lock[t] = None
    /\ loaded' = loaded \ Evicted(s)
    /\ reserved' = (reserved \ Evicted(s)) \cup {s}
    /\ users' = [users EXCEPT ![s] = @ \cup Entering(c)]
    /\ older' = Used(s)
    /\ pc' = [pc EXCEPT ![c] = "wait"]
    /\ UNCHANGED <<lock, failures>>

\* BudgetExceeded: the room cannot be made, and nothing is evicted.
Refuse(c) ==
    /\ pc[c] = "new"
    /\ Total(Idle(Wants[c])) < Shortfall(Wants[c])
    /\ pc' = [pc EXCEPT ![c] = "refused"]
    /\ UNCHANGED <<lock, loaded, reserved, users, older, failures>>

-----------------------------------------------------------------------------
(* The slot's lock: _ensure_loaded, then the request's own function        *)

Lock(c) ==
    LET s == Wants[c] IN
    /\ pc[c] = "wait"
    /\ lock[s] = None
    /\ lock' = [lock EXCEPT ![s] = c]
    /\ pc' = [pc EXCEPT ![c] = IF s \in loaded THEN "serve" ELSE "load"]
    /\ UNCHANGED <<loaded, reserved, users, older, failures>>

Load(c) ==
    /\ pc[c] = "load"
    /\ loaded' = loaded \cup {Wants[c]}
    /\ pc' = [pc EXCEPT ![c] = "serve"]
    /\ UNCHANGED <<lock, reserved, users, older, failures>>

\* mutant: a load that fails leaves the lock taken
LockKept(c) == lock

Unlocked(c) == [lock EXCEPT ![Wants[c]] = None]

\* The loader raises: ModelLoadFailed.
LoadFails(c) ==
    /\ pc[c] = "load"
    /\ failures < MaxFailures
    /\ failures' = failures + 1
    /\ lock' = Unlocked(c)
    /\ pc' = [pc EXCEPT ![c] = "release"]
    /\ UNCHANGED <<loaded, reserved, users, older>>

\* The function returns, or raises.
Serve(c) ==
    /\ pc[c] = "serve"
    /\ lock' = [lock EXCEPT ![Wants[c]] = None]
    /\ pc' = [pc EXCEPT ![c] = "release"]
    /\ UNCHANGED <<loaded, reserved, users, older, failures>>

-----------------------------------------------------------------------------
(* release, under the budget lock                                          *)

\* mutant: a failed load drops the reservation of those that still wait
DroppedAtOnce(c) == IF Wants[c] \in loaded THEN {} ELSE {Wants[c]}

\* mutant: a failed load keeps its reservation
DroppedNever(c) == {}

\* The load failed and nobody is waiting to retry it.
Dropped(c) == {s \in {Wants[c]} \ loaded : users[s] = {c}}

Release(c) ==
    LET s == Wants[c] IN
    /\ pc[c] = "release"
    /\ users' = [users EXCEPT ![s] = @ \ {c}]
    /\ older' = Used(s)
    /\ reserved' = reserved \ Dropped(c)
    /\ pc' = [pc EXCEPT ![c] = "over"]
    /\ UNCHANGED <<lock, loaded, failures>>

-----------------------------------------------------------------------------
Next ==
    \E c \in Request :
        \/ Acquire(c) \/ Refuse(c) \/ Release(c)
        \/ Lock(c) \/ Load(c) \/ LoadFails(c) \/ Serve(c)

Spec == Init /\ [][Next]_vars

\* Threads run on, locks that are free are given, loads and functions end.
\* Requests need not come.
Fairness ==
    \A c \in Request :
        WF_vars(Lock(c)) /\ WF_vars(Load(c)) /\ WF_vars(Serve(c)) /\ WF_vars(Release(c))

FairSpec == Spec /\ Fairness

-----------------------------------------------------------------------------
(* Properties                                                              *)

Loading == {Wants[c] : c \in {d \in Request : pc[d] = "load"}}

\* The models in memory or on their way into it fit the budget, though a load
\* fails, is retried by a request that waited for the slot, or is of a slot
\* that an eviction just emptied.
WithinBudget == Total(loaded \cup Loading) <= BudgetMb

\* The budget neither forgets a model nor charges for one that is not there:
\* once nobody uses a slot, it is reserved exactly when it has its model.
NothingLeaks == \A s \in Slot : users[s] = {} => (s \in reserved <=> s \in loaded)

\* "s.in_use == 0, so the slot lock is free": an eviction under the budget
\* lock never waits for a slot's lock, so the two are never waited for crosswise.
EvictionNeverWaits == \A s \in Slot : users[s] = {} => lock[s] = None

\* A request that was let in is answered, whatever loads fail before it.
EveryRequestEnds == \A c \in Request : pc[c] = "wait" ~> pc[c] = "over"

-----------------------------------------------------------------------------
(* Inductive invariant, for the proofs                                     *)

\* Who holds what: a request counts as a user from acquire to release, the
\* holder of a lock loads or serves, and a slot with users or a model is reserved.
UseInv ==
    /\ \A s \in Slot : users[s] = {c \in Request : Wants[c] = s /\ pc[c] \in {"wait", "load", "serve", "release"}}
    /\ \A s \in Slot : lock[s] # None => Wants[lock[s]] = s /\ pc[lock[s]] \in {"load", "serve"}
    /\ \A s \in Slot : users[s] # {} => s \in reserved
    /\ loaded \subseteq reserved
    /\ NothingLeaks

\* last_used is a time: of three slots, the order of two and two orders all.
OlderChains == \A s, t, u \in Slot : <<s, t>> \in older /\ <<t, u>> \in older => <<s, u>> \in older

\* What is reserved fits: whoever reserves has evicted what it lacked.
ReservedFits == Total(reserved) <= BudgetMb

=============================================================================
