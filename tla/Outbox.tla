------------------------------- MODULE Outbox -------------------------------
(***************************************************************************)
(* What a database session keeps until its commit, and what becomes of it: *)
(* `enqueue` (jobs/enqueue.py), the Jobs outbox (jobs/outbox.py), deferred *)
(* work (core/after_commit.py) and the hook dispatcher (core/hooks.py), in *)
(* one process.                                                            *)
(*                                                                         *)
(* Sessions are those of requests and those the dispatcher opens for its   *)
(* handlers.  A handler is a session like another: it may write, emit,     *)
(* enqueue, open savepoints, fail and run out of time.  An Event is one    *)
(* call of `emit`, together with the change it announces.                  *)
(***************************************************************************)
EXTENDS Naturals, Sequences, FiniteSets, SequencesExt

CONSTANTS
    Request,        \* sessions of requests
    Event,          \* calls of emit
    Nested,         \* the Events that handlers emit
    Key,            \* idempotency keys
    Job,            \* ids of the Jobs that may be inserted
    Handler,
    Registered,     \* the handlers of each Event, in registration order
    None,
    InsertAttempts, \* _INSERT_ATTEMPTS
    Does,           \* bound: what each session is let do
    MaxTxn,         \* bound on the transactions of one request session
    MaxSavepoints,  \* bound on the savepoints of one transaction
    MaxFaults       \* bound on crashes and failed pushes

\* A task, and the session of the handler it runs, goes by the first Event of
\* its commit.
Task    == Event
Session == Request \cup Task
Item    == Event \cup Job
\* One call of a handler: the Event, and the handler's place in its list.
Call    == UNION {{e} \X (1..Len(Registered[e])) : e \in Event}

ASSUME OutboxAssumption ==
    /\ Nested \subseteq Event
    /\ Registered \in [Event -> Seq(Handler)]
    /\ Event \cap Job = {} /\ Request \cap Event = {}
    /\ None \notin Key /\ \A calls \in SUBSET Call : calls # None
    /\ InsertAttempts \in Nat \ {0} /\ MaxTxn \in Nat
    /\ Does \in [Session -> SUBSET {"nest", "emit", "enqueue"}]
    /\ MaxSavepoints \in Nat /\ MaxFaults \in Nat

VARIABLES
    step,     \* where each session is
    path,     \* its open transactions, the root first: <<0>>, then savepoints
    opened,   \* the savepoints its transaction has opened
    written,  \* its uncommitted rows, each with the transactions it is inside
    kept,     \* session.info: what waits for the commit, tagged likewise
    wanted,   \* the key `enqueue` is inserting
    tries,    \* its passes through the insert loop
    keyOf,    \* the key of each inserted Job
    rows,     \* committed rows: Jobs, and the changes Events announce
    over,     \* Jobs that have ended
    pushed,   \* Jobs handed to RQ
    refused,  \* Jobs whose push failed, left to the reaper
    work,     \* the calls a task has still to make (None: no such task)
    at,       \* when each Event was emitted (0: not yet)
    origin,   \* the transaction that emitted it
    ran,      \* the calls begun, in order
    lost,     \* what a crash left undone
    txns,     \* transactions begun by each session
    drain,    \* the state of `drain`
    awaited,  \* the tasks its asyncio.wait waits for
    faults

sessionVars == <<step, path, opened, written, kept, wanted, tries>>
dbVars      == <<keyOf, rows, over>>
taskVars    == <<work, ran, lost>>
eventVars   == <<at, origin, txns>>
drainVars   == <<drain, awaited>>
vars == <<sessionVars, dbVars, pushed, refused, taskVars, eventVars, drainVars, faults>>

Tagged == [item : Item, path : Seq(0..MaxSavepoints)]

TypeOK ==
    /\ step \in [Session -> {"idle", "open", "select", "insert", "dispatch"}]
    /\ path \in [Session -> Seq(0..MaxSavepoints)]
    /\ opened \in [Session -> 0..MaxSavepoints]
    /\ \A s \in Session : written[s] \subseteq Tagged /\ kept[s] \subseteq Tagged
    /\ wanted \in [Session -> Key \cup {None}]
    /\ tries \in [Session -> 0..InsertAttempts]
    /\ keyOf \in [Job -> Key \cup {None}]
    /\ rows \subseteq Item /\ over \subseteq Job
    /\ pushed \subseteq Job /\ refused \subseteq Job
    /\ \A t \in Task : work[t] = None \/ work[t] \subseteq Call
    /\ ran \in Seq(Call)
    /\ lost \subseteq Item
    /\ drain \in {"off", "wait", "clean", "timeout"} /\ awaited \subseteq Task

Init ==
    /\ step = [s \in Session |-> "idle"]
    /\ path = [s \in Session |-> <<>>]
    /\ opened = [s \in Session |-> 0]
    /\ written = [s \in Session |-> {}]
    /\ kept = [s \in Session |-> {}]
    /\ wanted = [s \in Session |-> None]
    /\ tries = [s \in Session |-> 0]
    /\ keyOf = [j \in Job |-> None]
    /\ rows = {} /\ over = {} /\ pushed = {} /\ refused = {}
    /\ work = [t \in Task |-> None]
    /\ ran = <<>> /\ lost = {}
    /\ at = [e \in Event |-> 0]
    /\ origin = [e \in Event |-> None]
    /\ txns = [s \in Session |-> 0]
    /\ drain = "off" /\ awaited = {} /\ faults = 0

-----------------------------------------------------------------------------
\* Transactions.

Running == drain \in {"off", "wait"}

Open(s) ==
    /\ step' = [step EXCEPT ![s] = "open"]
    /\ path' = [path EXCEPT ![s] = <<0>>]
    /\ opened' = [opened EXCEPT ![s] = 0]
    /\ txns' = [txns EXCEPT ![s] = @ + 1]

\* A request opens its transaction; none comes once the process shuts down.
BeginRequest(s) ==
    /\ Running /\ drain = "off"
    /\ step[s] = "idle" /\ txns[s] < MaxTxn
    /\ Open(s)
    /\ UNCHANGED <<written, kept, wanted, tries, dbVars, pushed, refused, taskVars,
                   at, origin, drainVars, faults>>

BeginNested(s) ==
    /\ Running /\ step[s] = "open"
    /\ "nest" \in Does[s] /\ opened[s] < MaxSavepoints
    /\ opened' = [opened EXCEPT ![s] = @ + 1]
    /\ path' = [path EXCEPT ![s] = Append(@, opened[s] + 1)]
    /\ UNCHANGED <<step, written, kept, wanted, tries, dbVars, pushed, refused, taskVars,
                   eventVars, drainVars, faults>>

WithinSame(tag, txn) == tag = txn

\* _within: the tag names the transaction or one opened inside it, released
\* since or not.
Within(tag, txn) == IsPrefix(txn, tag)

\* A released savepoint changes nothing but the stack: the tags stay.
ReleaseSavepoint(s) ==
    /\ Running /\ step[s] = "open" /\ Len(path[s]) > 1
    /\ path' = [path EXCEPT ![s] = Front(@)]
    /\ UNCHANGED <<step, opened, written, kept, wanted, tries, dbVars, pushed, refused,
                   taskVars, eventVars, drainVars, faults>>

AllKept(s) == kept[s]

\* _drop_rolled_back, both copies.
Dropped(s) == {d \in kept[s] : Within(d.path, path[s])}

\* The database undoes what was written inside the savepoint.
RollBackSavepoint(s) ==
    /\ Running /\ step[s] = "open" /\ Len(path[s]) > 1
    /\ kept' = [kept EXCEPT ![s] = @ \ Dropped(s)]
    /\ written' = [written EXCEPT ![s] = {r \in @ : ~IsPrefix(path[s], r.path)}]
    /\ path' = [path EXCEPT ![s] = Front(@)]
    /\ UNCHANGED <<step, opened, wanted, tries, dbVars, pushed, refused, taskVars,
                   eventVars, drainVars, faults>>

\* A change and its `emit`: `defer` tags it with the innermost transaction.
Emit(s, e) ==
    /\ Running /\ step[s] = "open" /\ at[e] = 0
    /\ "emit" \in Does[s] /\ (e \in Nested <=> s \in Task)
    /\ at' = [at EXCEPT ![e] = 1 + Cardinality({x \in Event : at[x] > 0})]
    /\ origin' = [origin EXCEPT ![e] = <<s, txns[s]>>]
    /\ kept' = [kept EXCEPT ![s] = @ \cup {[item |-> e, path |-> path[s]]}]
    /\ written' = [written EXCEPT ![s] = @ \cup {[item |-> e, path |-> path[s]]}]
    /\ UNCHANGED <<step, path, opened, wanted, tries, dbVars, pushed, refused, taskVars,
                   txns, drainVars, faults>>

-----------------------------------------------------------------------------
\* enqueue.

Uncommitted(s) == {r.item : r \in written[s]}
\* uq_jobs_idempotency_key_active: the queued and running Jobs of a key.
Active(k) == {j \in rows \cap Job : keyOf[j] = k} \ over
OwnRows(s, k) == {j \in Uncommitted(s) \cap Job : keyOf[j] = k}

\* _active_with_key: committed rows, and the session's own.
Seen(s, k) == Active(k) \cup {j \in Uncommitted(s) \cap Job : keyOf[j] = k}

Enqueue(s, k) ==
    /\ Running /\ step[s] = "open" /\ "enqueue" \in Does[s]
    /\ \E j \in Job : keyOf[j] = None
    /\ wanted' = [wanted EXCEPT ![s] = k]
    /\ tries' = [tries EXCEPT ![s] = 0]
    /\ step' = [step EXCEPT ![s] = "select"]
    /\ UNCHANGED <<path, opened, written, kept, dbVars, pushed, refused, taskVars,
                   eventVars, drainVars, faults>>

TriesLeft(s) == tries[s] < InsertAttempts

\* One pass of the loop begins: an active Job is returned, else one is built.
SelectJob(s) ==
    /\ Running /\ step[s] = "select" /\ TriesLeft(s)
    /\ tries' = [tries EXCEPT ![s] = @ + 1]
    /\ step' = [step EXCEPT ![s] = IF Seen(s, wanted[s]) # {} THEN "open" ELSE "insert"]
    /\ UNCHANGED <<path, opened, written, kept, wanted, dbVars, pushed, refused, taskVars,
                   eventVars, drainVars, faults>>

\* An insert waits for another session's uncommitted row of the key to be
\* committed or undone.
Blocked(s) == \E u \in Session \ {s} : \E j \in Uncommitted(u) \cap Job : keyOf[j] = wanted[s]

\* The insert lost the race: its savepoint goes, and the loop reads again.
InsertLost(s) ==
    /\ Running /\ step[s] = "insert" /\ ~Blocked(s)
    /\ Active(wanted[s]) # {}
    /\ step' = [step EXCEPT ![s] = "select"]
    /\ UNCHANGED <<path, opened, written, kept, wanted, tries, dbVars, pushed, refused,
                   taskVars, eventVars, drainVars, faults>>

\* The insert's own savepoint is released, then record_pending tags the Job
\* with the caller's innermost transaction.
InsertJob(s) ==
    /\ Running /\ step[s] = "insert" /\ ~Blocked(s)
    /\ Active(wanted[s]) = {}
    /\ \E j \in Job :
          /\ keyOf[j] = None
          /\ keyOf' = [keyOf EXCEPT ![j] = wanted[s]]
          /\ written' = [written EXCEPT ![s] = @ \cup {[item |-> j, path |-> path[s]]}]
          /\ kept' = [kept EXCEPT ![s] = @ \cup {[item |-> j, path |-> path[s]]}]
    /\ step' = [step EXCEPT ![s] = "open"]
    /\ UNCHANGED <<path, opened, wanted, tries, rows, over, pushed, refused, taskVars,
                   eventVars, drainVars, faults>>

\* A worker ends a Job: its key is free again.
EndJob(j) ==
    /\ Running /\ j \in rows \ over
    /\ over' = over \cup {j}
    /\ UNCHANGED <<sessionVars, keyOf, rows, pushed, refused, taskVars, eventVars,
                   drainVars, faults>>

-----------------------------------------------------------------------------
\* The end of a transaction.

Closed(s) ==
    /\ path' = [path EXCEPT ![s] = <<>>]
    /\ written' = [written EXCEPT ![s] = {}]
    /\ wanted' = [wanted EXCEPT ![s] = None]
    /\ tries' = [tries EXCEPT ![s] = 0]

NextInLists(t) ==
    {c \in work[t] : \A d \in work[t] :
        c[2] < d[2] \/ (c[2] = d[2] /\ at[c[1]] <= at[d[1]])}

\* The call a task is making, or makes next: Events as emitted, the handlers
\* of one as registered.
NextCall(t) ==
    {c \in work[t] : \A d \in work[t] :
        at[c[1]] < at[d[1]] \/ (c[1] = d[1] /\ c[2] <= d[2])}

\* The task goes on to its next call.
CallOver(w, s) == IF s \in Task THEN [w EXCEPT ![s] = @ \ NextCall(s)] ELSE w

\* Any exception (a timeout, a deadlock the database breaks, the RuntimeError
\* of `enqueue`), or a close without commit: the root is rolled back.
RollBack(s) ==
    /\ Running /\ step[s] \in {"open", "select", "insert"}
    /\ step' = [step EXCEPT ![s] = "idle"]
    /\ Closed(s)
    /\ kept' = [kept EXCEPT ![s] = {}]
    /\ work' = CallOver(work, s)
    /\ UNCHANGED <<opened, dbVars, pushed, refused, ran, lost, eventVars, drainVars, faults>>

Commit(s) ==
    /\ Running /\ step[s] = "open" /\ Len(path[s]) = 1
    /\ step' = [step EXCEPT ![s] = "dispatch"]
    /\ Closed(s)
    /\ rows' = rows \cup Uncommitted(s)
    /\ UNCHANGED <<opened, kept, keyOf, over, pushed, refused, taskVars, eventVars,
                   drainVars, faults>>

KeptJobs(s)   == {d \in kept[s] : d.item \in Job}
KeptEvents(s) == {d.item : d \in kept[s]} \cap Event

\* dispatch: the Jobs first, inside commit().  A push that fails is logged.
Push(s, d) ==
    /\ Running /\ step[s] = "dispatch" /\ d \in KeptJobs(s)
    /\ kept' = [kept EXCEPT ![s] = @ \ {d}]
    /\ \/ /\ pushed' = pushed \cup {d.item}
          /\ UNCHANGED <<refused, faults>>
       \/ /\ faults < MaxFaults
          /\ refused' = refused \cup {d.item} /\ faults' = faults + 1
          /\ UNCHANGED pushed
    /\ UNCHANGED <<step, path, opened, written, wanted, tries, dbVars, taskVars,
                   eventVars, drainVars>>

\* _on_commit, schedule: one task for the Events that have handlers.
Calls(events) == {c \in Call : c[1] \in events}

FirstOf(calls) == {e \in Event : /\ \E c \in calls : c[1] = e
                                 /\ \A c \in calls : at[e] <= at[c[1]]}

\* The callbacks are done, commit() returns.
Dispatched(s) ==
    /\ Running /\ step[s] = "dispatch" /\ KeptJobs(s) = {}
    /\ step' = [step EXCEPT ![s] = "idle"]
    /\ kept' = [kept EXCEPT ![s] = {}]
    /\ LET calls == Calls(KeptEvents(s)) IN
       \/ calls = {} /\ work' = CallOver(work, s)
       \/ \E t \in FirstOf(calls) : work' = CallOver([work EXCEPT ![t] = calls], s)
    /\ UNCHANGED <<path, opened, written, wanted, tries, dbVars, pushed, refused, ran, lost,
                   eventVars, drainVars, faults>>

-----------------------------------------------------------------------------
\* The tasks, the end of the loop, and a crash.

Unfinished == {t \in Task : work[t] \notin {None, {}}}

\* _call: a fresh session for the next handler.
CallHandler(t) ==
    /\ Running /\ step[t] = "idle" /\ t \in Unfinished
    /\ \E c \in NextCall(t) : ran' = Append(ran, c)
    /\ Open(t)
    /\ UNCHANGED <<written, kept, wanted, tries, dbVars, pushed, refused, work, lost,
                   at, origin, drainVars, faults>>

FirstLook == awaited \cap Unfinished

\* What `drain` finds unfinished when it looks (again).
Looked == Unfinished

\* drain, called when the process has nothing else to do: the tasks of now.
StartDrain ==
    /\ drain = "off"
    /\ \A s \in Request : step[s] = "idle"
    /\ drain' = "wait" /\ awaited' = Unfinished
    /\ UNCHANGED <<sessionVars, dbVars, pushed, refused, taskVars, eventVars, faults>>

\* They are over: the loop looks for others.
DrainAgain ==
    /\ drain = "wait" /\ awaited \cap Unfinished = {}
    /\ awaited' = Looked
    /\ drain' = IF Looked = {} THEN "clean" ELSE "wait"
    /\ UNCHANGED <<sessionVars, dbVars, pushed, refused, taskVars, eventVars, faults>>

\* HOOK_DRAIN_TIMEOUT_S: what still runs is left, and ends with the loop.
DrainTimeout ==
    /\ drain = "wait" /\ faults < MaxFaults
    /\ drain' = "timeout" /\ faults' = faults + 1
    /\ UNCHANGED <<sessionVars, dbVars, pushed, refused, taskVars, eventVars, awaited>>

\* The process dies and starts again: sessions and tasks are gone.
Crash ==
    /\ drain = "off" /\ faults < MaxFaults
    /\ lost' = lost \cup {c[1] : c \in UNION {work[t] : t \in Unfinished}}
                    \cup {i \in Item : \E s \in Session : step[s] = "dispatch"
                                          /\ \E d \in kept[s] : d.item = i}
    /\ step' = [s \in Session |-> "idle"]
    /\ path' = [s \in Session |-> <<>>]
    /\ written' = [s \in Session |-> {}]
    /\ kept' = [s \in Session |-> {}]
    /\ wanted' = [s \in Session |-> None]
    /\ tries' = [s \in Session |-> 0]
    /\ work' = [t \in Task |-> IF work[t] = None THEN None ELSE {}]
    /\ faults' = faults + 1
    /\ UNCHANGED <<opened, dbVars, pushed, refused, ran, eventVars, drainVars>>

SessionStep(s) ==
    \/ BeginNested(s) \/ ReleaseSavepoint(s) \/ RollBackSavepoint(s)
    \/ \E e \in Event : Emit(s, e)
    \/ \E k \in Key : Enqueue(s, k)
    \/ SelectJob(s) \/ InsertLost(s) \/ InsertJob(s)
    \/ RollBack(s) \/ Commit(s)
    \/ \E d \in kept[s] : Push(s, d)
    \/ Dispatched(s)

Next ==
    \/ \E s \in Request : BeginRequest(s)
    \/ \E s \in Session : SessionStep(s)
    \/ \E j \in Job : EndJob(j)
    \/ \E t \in Task : CallHandler(t)
    \/ StartDrain \/ DrainAgain \/ DrainTimeout \/ Crash

Spec == Init /\ [][Next]_vars
-----------------------------------------------------------------------------
\* Properties.

Done(e, n) == \E i \in DOMAIN ran : ran[i] = <<e, n>>

\* No Job is handed to RQ, and no handler runs, for a row that was rolled back,
\* with its savepoint or with its transaction (outbox._drop_rolled_back,
\* after_commit._drop_rolled_back).
HandedOnIsCommitted ==
    /\ pushed \cup refused \subseteq rows
    /\ \A i \in DOMAIN ran : ran[i][1] \in rows

\* A handler is called at most once for an Event, and after every handler of
\* the Events the same transaction emitted before, and after those registered
\* before it (schedule, _run).
HandledInOrder ==
    \A i \in DOMAIN ran :
        /\ \A j \in DOMAIN ran : i # j => ran[i] # ran[j]
        /\ \A c \in Call :
              /\ c[1] \in rows /\ origin[c[1]] = origin[ran[i][1]]
              /\ at[c[1]] < at[ran[i][1]] \/ (c[1] = ran[i][1] /\ c[2] < ran[i][2])
              => \E j \in DOMAIN ran : j < i /\ ran[j] = c

\* What has committed is handed on, or about to be: only a crash between the
\* commit and the handler, or a failed push, leaves a committed row behind.
NothingForgotten ==
    /\ \A c \in Call :
          c[1] \in rows \ lost =>
              \/ \E i \in DOMAIN ran : ran[i] = c
              \/ \E t \in Unfinished : c \in work[t]
              \/ \E s \in Session : step[s] = "dispatch" /\ c[1] \in KeptEvents(s)
    /\ \A j \in (rows \cap Job) \ lost :
          \/ j \in pushed \cup refused
          \/ \E s \in Session : step[s] = "dispatch" /\ \E d \in kept[s] : d.item = j

\* When `drain` returns in time, no handler is left to run, those that other
\* handlers' commits scheduled included: the loop may end (hooks.drain).
DrainLeavesNothing ==
    drain = "clean" => Unfinished = {} /\ \A s \in Session : step[s] = "idle"

\* Every pass of `enqueue` that loses its insert loses it to another Job: the
\* RuntimeError takes as many Jobs of the key, each over before the next.
EachLossIsAnotherJob ==
    \A s \in Session :
        LET losses == IF step[s] = "select" THEN tries[s]
                      ELSE IF step[s] = "insert" THEN tries[s] - 1 ELSE 0
        IN  losses <= Cardinality({j \in rows \cap Job : keyOf[j] = wanted[s]})
=============================================================================
