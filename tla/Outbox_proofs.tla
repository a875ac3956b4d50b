---------------------------- MODULE Outbox_proofs ----------------------------
(***************************************************************************)
(* Theorems about Outbox for every set of sessions, Events, handlers, keys *)
(* and Jobs, and all bounds.                                               *)
(***************************************************************************)
EXTENDS Outbox, SequenceTheorems, FiniteSetTheorems, TLAPS

Busy == {"open", "select", "insert"}

\* What a session keeps for its commit is among its uncommitted rows, under
\* the same tag: a savepoint that takes the row takes the entry.
KeptIsWritten ==
    /\ \A s \in Session : step[s] \in Busy => kept[s] \subseteq written[s]
    /\ \A s \in Session : step[s] = "idle" => kept[s] = {}
    /\ \A s \in Session : step[s] = "dispatch" => \A d \in kept[s] : d.item \in rows

WorkIsCommitted ==
    \A t \in Task : work[t] # None => \A c \in work[t] : c[1] \in rows

\* A session of the dispatcher is open only while its task has calls to make.
RunningHasWork == \A t \in Task : step[t] # "idle" => t \in Unfinished

RequestsOver == drain \in {"wait", "clean"} => \A s \in Request : step[s] = "idle"

SessionTypes ==
    /\ step \in [Session -> Busy \cup {"idle", "dispatch"}]
    /\ path \in [Session -> Seq(0..MaxSavepoints)]
    /\ opened \in [Session -> 0..MaxSavepoints]
    /\ kept \in [Session -> SUBSET Tagged]
    /\ written \in [Session -> SUBSET Tagged]
    /\ \A t \in Task : work[t] = None \/ work[t] \subseteq Call
    /\ work = [t \in Task |-> work[t]]
    /\ pushed \subseteq Job /\ refused \subseteq Job
    /\ ran \in Seq(Call)
    /\ drain \in {"off", "wait", "clean", "timeout"}

IInv ==
    /\ SessionTypes /\ KeptIsWritten /\ WorkIsCommitted /\ RunningHasWork
    /\ RequestsOver /\ HandedOnIsCommitted /\ DrainLeavesNothing

\* A savepoint's rollback takes kept entries and rows by the same rule.
LEMMA DroppedWithRows ==
    ASSUME NEW s \in Session, kept[s] \subseteq written[s], RollBackSavepoint(s),
           kept \in [Session -> SUBSET Tagged], written \in [Session -> SUBSET Tagged]
    PROVE  kept'[s] \subseteq written'[s]
BY DEF RollBackSavepoint, Dropped, Within
\* Leaving a savepoint leaves the stack below it.
LEMMA OuterPath == \A S : \A q \in Seq(S) : Front(q) \in Seq(S)
<1> SUFFICES ASSUME NEW S, NEW q \in Seq(S) PROVE SubSeq(q, 1, Len(q) - 1) \in Seq(S)
  BY DEF Front
<1>1. Len(q) - 1 \in Int /\ \A i \in 1..Len(q) - 1 : q[i] \in S
  OBVIOUS
<1>2. QED
  BY <1>1, SubSeqProperties

\* At first nothing is kept, committed or running.
LEMMA InitHolds == Init => IInv
BY OutboxAssumption DEF Init, IInv, SessionTypes, Busy, KeptIsWritten, WorkIsCommitted,
   RunningHasWork, RequestsOver, HandedOnIsCommitted, DrainLeavesNothing, Session

\* What SESSION steps leave alone besides their own session.
QuietVars == <<rows, pushed, refused, work, ran, drain>>

\* Steps inside a transaction: begin_nested, release, emit and enqueue.
LEMMA InsideKeeps ==
    ASSUME IInv, NEW s \in Session,
           \/ BeginNested(s) \/ ReleaseSavepoint(s)
           \/ \E k \in Key : Enqueue(s, k)
           \/ SelectJob(s) \/ InsertLost(s)
    PROVE  IInv'
<1> USE DEF IInv, SessionTypes, Busy
<1>1. /\ step[s] \in Busy /\ step' \in [Session -> Busy \cup {"idle", "dispatch"}]
      /\ step' = [step EXCEPT ![s] = step'[s]] /\ step'[s] \in Busy
      /\ UNCHANGED <<kept, written, QuietVars>>
  BY DEF BeginNested, ReleaseSavepoint, Enqueue, SelectJob, InsertLost, QuietVars, dbVars,
         taskVars, drainVars
<1>2. /\ path' \in [Session -> Seq(0..MaxSavepoints)]
      /\ opened' \in [Session -> 0..MaxSavepoints]
  <2>1. CASE BeginNested(s)
    <3>1. opened[s] + 1 \in 0..MaxSavepoints
      BY <2>1, OutboxAssumption DEF BeginNested
    <3>2. QED
      BY <2>1, <3>1 DEF BeginNested
  <2>2. CASE ReleaseSavepoint(s)
    <3>1. Front(path[s]) \in Seq(0..MaxSavepoints)
      BY OuterPath
    <3>2. QED
      BY <2>2, <3>1 DEF ReleaseSavepoint
  <2>3. CASE (\E k \in Key : Enqueue(s, k)) \/ SelectJob(s) \/ InsertLost(s)
    BY <2>3 DEF Enqueue, SelectJob, InsertLost
  <2>4. QED
    BY <2>1, <2>2, <2>3
<1>3. SessionTypes'
  BY <1>1, <1>2 DEF QuietVars
<1>4. KeptIsWritten' /\ WorkIsCommitted' /\ HandedOnIsCommitted'
  BY <1>1 DEF QuietVars, KeptIsWritten, WorkIsCommitted, HandedOnIsCommitted
<1>5. RunningHasWork' /\ RequestsOver'
  BY <1>1 DEF QuietVars, RunningHasWork, RequestsOver, Unfinished, Session, Task
<1>6. DrainLeavesNothing'
  BY <1>1 DEF QuietVars, DrainLeavesNothing, Unfinished
<1>7. QED
  BY <1>3, <1>4, <1>5, <1>6
\* A row and what is kept for it enter together.
LEMMA WritesKeep ==
    ASSUME IInv, NEW s \in Session, NEW i \in Item,
           step[s] \in Busy, step' \in [Session -> Busy \cup {"idle", "dispatch"}],
           step' = [step EXCEPT ![s] = step'[s]], step'[s] \in Busy,
           kept' = [kept EXCEPT ![s] = @ \cup {[item |-> i, path |-> path[s]]}],
           written' = [written EXCEPT ![s] = @ \cup {[item |-> i, path |-> path[s]]}],
           Running, UNCHANGED <<path, opened, QuietVars>>
    PROVE  IInv'
<1> USE DEF IInv, SessionTypes, Busy, QuietVars
<1>1. [item |-> i, path |-> path[s]] \in Tagged
  BY DEF Tagged
<1>2. SessionTypes'
  BY <1>1
<1>3. KeptIsWritten' /\ WorkIsCommitted' /\ HandedOnIsCommitted'
  BY DEF KeptIsWritten, WorkIsCommitted, HandedOnIsCommitted
<1>4. RunningHasWork' /\ RequestsOver' /\ DrainLeavesNothing'
  BY DEF RunningHasWork, RequestsOver, DrainLeavesNothing, Unfinished, Session, Task
<1>5. QED
  BY <1>2, <1>3, <1>4

\* An Event is written and kept under one path.
LEMMA EmitKeeps ==
    ASSUME IInv, NEW s \in Session, NEW e \in Event, Emit(s, e)
    PROVE  IInv'
<1>1. e \in Item
  BY DEF Item
<1>2. QED
  BY <1>1, WritesKeep DEF Emit, IInv, SessionTypes, Busy, QuietVars, dbVars, taskVars, drainVars

\* So is a Job that enqueue inserts.
LEMMA InsertKeeps ==
    ASSUME IInv, NEW s \in Session, InsertJob(s)
    PROVE  IInv'
<1>1. PICK j \in Job :
        /\ written' = [written EXCEPT ![s] = @ \cup {[item |-> j, path |-> path[s]]}]
        /\ kept' = [kept EXCEPT ![s] = @ \cup {[item |-> j, path |-> path[s]]}]
  BY DEF InsertJob
<1>2. j \in Item
  BY DEF Item
<1>3. QED
  BY <1>1, <1>2, WritesKeep DEF InsertJob, IInv, SessionTypes, Busy, QuietVars, taskVars, drainVars

\* A rolled back savepoint takes the entries with the rows.
LEMMA RollBackSavepointKeeps ==
    ASSUME IInv, NEW s \in Session, RollBackSavepoint(s)
    PROVE  IInv'
<1> USE DEF IInv, SessionTypes, Busy
<1>1. /\ step[s] = "open" /\ Running /\ UNCHANGED <<step, opened, QuietVars>>
      /\ \A u \in Session : u # s => kept'[u] = kept[u] /\ written'[u] = written[u]
      /\ kept' \in [Session -> SUBSET Tagged] /\ written' \in [Session -> SUBSET Tagged]
  BY DEF RollBackSavepoint, QuietVars, dbVars, taskVars, drainVars
<1>2. path' \in [Session -> Seq(0..MaxSavepoints)]
  <2>1. Front(path[s]) \in Seq(0..MaxSavepoints)
    BY OuterPath
  <2>2. QED
    BY <2>1 DEF RollBackSavepoint
<1>3. kept'[s] \subseteq written'[s]
  BY <1>1, DroppedWithRows DEF KeptIsWritten
<1>4. SessionTypes'
  BY <1>1, <1>2 DEF QuietVars
<1>5. KeptIsWritten'
  BY <1>1, <1>3 DEF KeptIsWritten, QuietVars
<1>6. WorkIsCommitted' /\ HandedOnIsCommitted'
  BY <1>1 DEF QuietVars, WorkIsCommitted, HandedOnIsCommitted
<1>7. RunningHasWork' /\ RequestsOver' /\ DrainLeavesNothing'
  BY <1>1 DEF QuietVars, RunningHasWork, RequestsOver, DrainLeavesNothing, Unfinished
<1>8. QED
  BY <1>4, <1>5, <1>6, <1>7
\* The end of a transaction without its commit.
LEMMA RollBackKeeps ==
    ASSUME IInv, NEW s \in Session, RollBack(s)
    PROVE  IInv'
<1> USE DEF IInv, SessionTypes, Busy
<1>1. /\ step[s] \in Busy /\ Running
      /\ step' = [step EXCEPT ![s] = "idle"] /\ kept' = [kept EXCEPT ![s] = {}]
      /\ written' = [written EXCEPT ![s] = {}] /\ path' = [path EXCEPT ![s] = <<>>]
      /\ work' = CallOver(work, s)
      /\ UNCHANGED <<opened, rows, pushed, refused, ran, drain>>
  BY DEF RollBack, Closed, dbVars, drainVars
<1>2. /\ work' = [t \in Task |-> work'[t]]
      /\ \A t \in Task : t # s => work'[t] = work[t]
      /\ s \in Task => work[s] # None /\ work'[s] \subseteq work[s]
  <2>1. s \in Task => work[s] # None
    BY <1>1 DEF RunningHasWork, Unfinished
  <2>2. QED
    BY <1>1, <2>1 DEF CallOver
<1>3. SessionTypes'
  <2>1. \A t \in Task : work'[t] = None \/ work'[t] \subseteq Call
    BY <1>2
  <2>2. /\ step' \in [Session -> Busy \cup {"idle", "dispatch"}] /\ path' \in [Session -> Seq(0..MaxSavepoints)]
        /\ kept' \in [Session -> SUBSET Tagged] /\ written' \in [Session -> SUBSET Tagged]
    BY <1>1
  <2>3. UNCHANGED <<opened, pushed, refused, ran, drain>>
    BY <1>1
  <2> QED
    BY <1>2, <2>1, <2>2, <2>3
<1>4. KeptIsWritten' /\ HandedOnIsCommitted'
  BY <1>1 DEF KeptIsWritten, HandedOnIsCommitted
<1>5. WorkIsCommitted'
  BY <1>1, <1>2 DEF WorkIsCommitted
<1>6. RunningHasWork' /\ RequestsOver'
  BY <1>1, <1>2 DEF RunningHasWork, RequestsOver, Unfinished, Session, Task
<1>7. DrainLeavesNothing'
  BY <1>1 DEF DrainLeavesNothing, Running
<1>8. QED
  BY <1>3, <1>4, <1>5, <1>6, <1>7

\* What was kept is among the rows the commit makes durable.
LEMMA CommitKeeps ==
    ASSUME IInv, NEW s \in Session, Commit(s)
    PROVE  IInv'
<1> USE DEF IInv, SessionTypes, Busy
<1>1. /\ step[s] = "open" /\ Running
      /\ step' = [step EXCEPT ![s] = "dispatch"]
      /\ written' = [written EXCEPT ![s] = {}] /\ path' = [path EXCEPT ![s] = <<>>]
      /\ rows' = rows \cup Uncommitted(s)
      /\ UNCHANGED <<opened, kept, pushed, refused, work, ran, drain>>
  BY DEF Commit, Closed, taskVars, drainVars
<1>2. \A d \in kept[s] : d.item \in rows'
  BY <1>1 DEF KeptIsWritten, Uncommitted
<1>3. SessionTypes'
  BY <1>1
<1>4. KeptIsWritten'
  BY <1>1, <1>2 DEF KeptIsWritten
<1>5. WorkIsCommitted' /\ HandedOnIsCommitted'
  BY <1>1 DEF WorkIsCommitted, HandedOnIsCommitted
<1>6. RunningHasWork' /\ RequestsOver' /\ DrainLeavesNothing'
  BY <1>1 DEF RunningHasWork, RequestsOver, DrainLeavesNothing, Unfinished, Running, Session, Task
<1>7. QED
  BY <1>3, <1>4, <1>5, <1>6

\* The Job pushed is committed.
LEMMA PushKeeps ==
    ASSUME IInv, NEW s \in Session, NEW d \in kept[s], Push(s, d)
    PROVE  IInv'
<1> USE DEF IInv, SessionTypes, Busy
<1>1. /\ step[s] = "dispatch" /\ d.item \in Job /\ d.item \in rows
      /\ kept' = [kept EXCEPT ![s] = @ \ {d}]
      /\ pushed' \subseteq pushed \cup {d.item} /\ refused' \subseteq refused \cup {d.item}
      /\ UNCHANGED <<step, path, opened, written, rows, work, ran, drain>>
  BY DEF Push, KeptJobs, KeptIsWritten, dbVars, taskVars, drainVars
<1>2. SessionTypes'
  BY <1>1
<1>3. KeptIsWritten' /\ WorkIsCommitted' /\ HandedOnIsCommitted'
  BY <1>1 DEF KeptIsWritten, WorkIsCommitted, HandedOnIsCommitted
<1>4. RunningHasWork' /\ RequestsOver' /\ DrainLeavesNothing'
  BY <1>1 DEF RunningHasWork, RequestsOver, DrainLeavesNothing, Unfinished
<1>5. QED
  BY <1>2, <1>3, <1>4

\* The task it schedules has only Events of committed rows.
LEMMA DispatchedKeeps ==
    ASSUME IInv, NEW s \in Session, Dispatched(s)
    PROVE  IInv'
<1> USE DEF IInv, SessionTypes, Busy
<1> DEFINE calls == Calls(KeptEvents(s))
<1>1. /\ step[s] = "dispatch" /\ Running
      /\ step' = [step EXCEPT ![s] = "idle"] /\ kept' = [kept EXCEPT ![s] = {}]
      /\ UNCHANGED <<path, opened, written, rows, pushed, refused, ran, drain>>
  BY DEF Dispatched, dbVars, drainVars
<1>2. /\ calls \subseteq Call /\ calls # None
      /\ \A c \in calls : c[1] \in rows
  BY <1>1, OutboxAssumption DEF Calls, KeptEvents, KeptIsWritten
<1>3. PICK w : /\ work' = CallOver(w, s)
               /\ \/ calls = {} /\ w = work
                  \/ calls # {} /\ \E t \in Task : w = [work EXCEPT ![t] = calls]
  <2>1. CASE calls = {} /\ work' = CallOver(work, s)
    BY <2>1
  <2>2. CASE calls # {} /\ \E t \in Task : work' = CallOver([work EXCEPT ![t] = calls], s)
    BY <2>2
  <2>3. \A t \in FirstOf(calls) : t \in Task /\ calls # {}
    BY DEF FirstOf, Task
  <2>4. \/ calls = {} /\ work' = CallOver(work, s)
        \/ \E t \in FirstOf(calls) : work' = CallOver([work EXCEPT ![t] = calls], s)
    BY DEF Dispatched
  <2>5. QED
    BY <2>1, <2>2, <2>3, <2>4
<1> HIDE DEF calls
<1>4. /\ w = [t \in Task |-> w[t]]
      /\ \A t \in Task : w[t] = work[t] \/ (w[t] = calls /\ calls # {})
  BY <1>3
<1>5. /\ \A t \in Task : w[t] = None \/ w[t] \subseteq Call
      /\ \A t \in Task : step[t] # "idle" => w[t] \notin {None, {}}
      /\ \A t \in Task : w[t] # None => \A c \in w[t] : c[1] \in rows
  BY <1>2, <1>4 DEF RunningHasWork, WorkIsCommitted, Unfinished
<1>6. /\ work' = [t \in Task |-> work'[t]]
      /\ \A t \in Task : t # s => work'[t] = w[t]
      /\ s \in Task => w[s] # None /\ work'[s] \subseteq w[s]
  <2>1. s \in Task => w[s] # None
    BY <1>1, <1>5
  <2>2. QED
    BY <1>3, <1>4, <1>5, <2>1 DEF CallOver
<1>7. SessionTypes'
  <2>1. \A t \in Task : work'[t] = None \/ work'[t] \subseteq Call
    BY <1>5, <1>6
  <2>2. QED
    BY <1>1, <1>6, <2>1
<1>8. KeptIsWritten' /\ HandedOnIsCommitted'
  BY <1>1 DEF KeptIsWritten, HandedOnIsCommitted
<1>9. WorkIsCommitted'
  BY <1>1, <1>5, <1>6 DEF WorkIsCommitted
<1>10. RunningHasWork' /\ RequestsOver' /\ DrainLeavesNothing'
  BY <1>1, <1>5, <1>6 DEF RunningHasWork, RequestsOver, DrainLeavesNothing, Unfinished, Running,
     Session, Task
<1>11. QED
  BY <1>7, <1>8, <1>9, <1>10
\* The Event a handler is called for is committed.
LEMMA CallHandlerKeeps ==
    ASSUME IInv, NEW t \in Task, CallHandler(t)
    PROVE  IInv'
<1> USE DEF IInv, SessionTypes, Busy
<1>1. /\ Running /\ step[t] = "idle" /\ t \in Unfinished
      /\ step' = [step EXCEPT ![t] = "open"]
      /\ path' = [path EXCEPT ![t] = <<0>>] /\ opened' = [opened EXCEPT ![t] = 0]
      /\ UNCHANGED <<kept, written, rows, pushed, refused, work, drain>>
  BY DEF CallHandler, Open, dbVars, drainVars
<1>2. PICK c \in work[t] : ran' = Append(ran, c)
  BY DEF CallHandler, NextCall
<1>3. c \in Call /\ c[1] \in rows
  BY <1>1, <1>2 DEF Unfinished, WorkIsCommitted
<1>4. SessionTypes'
  <2>1. t \in Session /\ 0 \in 0..MaxSavepoints
    BY OutboxAssumption DEF Session
  <2>2. QED
    BY <1>1, <1>2, <1>3, <2>1
<1>5. HandedOnIsCommitted'
  BY <1>1, <1>2, <1>3 DEF HandedOnIsCommitted
<1>6. KeptIsWritten'
  <2>1. kept[t] = {}
    BY <1>1 DEF KeptIsWritten, Session
  <2>2. QED
    BY <1>1, <2>1 DEF KeptIsWritten
<1>7. WorkIsCommitted'
  BY <1>1 DEF WorkIsCommitted
<1>8. RunningHasWork' /\ RequestsOver' /\ DrainLeavesNothing'
  BY <1>1, OutboxAssumption DEF RunningHasWork, RequestsOver, DrainLeavesNothing, Unfinished,
     Running, Session, Task
<1>9. QED
  BY <1>4, <1>5, <1>6, <1>7, <1>8
\* A request begins with nothing, and not while a drain waits.
LEMMA BeginRequestKeeps ==
    ASSUME IInv, NEW s \in Request, BeginRequest(s)
    PROVE  IInv'
<1> USE DEF IInv, SessionTypes, Busy
<1>1. /\ s \in Session /\ drain = "off" /\ step[s] = "idle"
      /\ step' = [step EXCEPT ![s] = "open"]
      /\ path' = [path EXCEPT ![s] = <<0>>] /\ opened' = [opened EXCEPT ![s] = 0]
      /\ UNCHANGED <<kept, written, QuietVars>>
  BY DEF BeginRequest, Open, QuietVars, dbVars, taskVars, drainVars, Session
<1>2. SessionTypes'
  <2>1. 0 \in 0..MaxSavepoints
    BY OutboxAssumption
  <2>2. QED
    BY <1>1, <2>1 DEF QuietVars
<1>3. KeptIsWritten' /\ WorkIsCommitted' /\ HandedOnIsCommitted'
  BY <1>1 DEF QuietVars, KeptIsWritten, WorkIsCommitted, HandedOnIsCommitted
<1>4. RunningHasWork' /\ RequestsOver' /\ DrainLeavesNothing'
  BY <1>1, OutboxAssumption DEF QuietVars, RunningHasWork, RequestsOver, DrainLeavesNothing,
     Unfinished, Session, Task
<1>5. QED
  BY <1>2, <1>3, <1>4

\* Steps that leave every session and task as it is.
LEMMA StillKeeps ==
    ASSUME IInv,
           \/ \E j \in Job : EndJob(j)
           \/ StartDrain \/ DrainAgain \/ DrainTimeout
           \/ UNCHANGED vars
    PROVE  IInv'
<1> USE DEF IInv, SessionTypes, Busy
<1>1. /\ UNCHANGED <<step, path, opened, kept, written, rows, pushed, refused, work, ran>>
      /\ drain' \in {"off", "wait", "clean", "timeout"}
  BY DEF EndJob, StartDrain, DrainAgain, DrainTimeout, vars, sessionVars, dbVars, taskVars,
         drainVars
<1>2. SessionTypes' /\ KeptIsWritten' /\ WorkIsCommitted' /\ HandedOnIsCommitted'
  BY <1>1 DEF KeptIsWritten, WorkIsCommitted, HandedOnIsCommitted
<1>3. RunningHasWork' /\ RequestsOver'
  BY <1>1 DEF EndJob, StartDrain, DrainAgain, DrainTimeout, vars, drainVars, RunningHasWork,
     RequestsOver, Unfinished
<1>4. DrainLeavesNothing'
  BY <1>1 DEF EndJob, StartDrain, DrainAgain, DrainTimeout, Looked, vars, drainVars,
     RunningHasWork, RequestsOver, DrainLeavesNothing, Unfinished, Session
<1>5. QED
  BY <1>2, <1>3, <1>4

\* A crash leaves what is committed.
LEMMA CrashKeeps == IInv /\ Crash => IInv'
<1> SUFFICES ASSUME IInv, Crash PROVE IInv'
  OBVIOUS
<1> USE DEF IInv, SessionTypes, Busy
<1>1. /\ step' = [s \in Session |-> "idle"] /\ path' = [s \in Session |-> <<>>]
      /\ written' = [s \in Session |-> {}] /\ kept' = [s \in Session |-> {}]
      /\ work' = [t \in Task |-> IF work[t] = None THEN None ELSE {}]
      /\ UNCHANGED <<opened, rows, pushed, refused, ran, drain>> /\ drain = "off"
  BY DEF Crash, dbVars, drainVars
<1>2. SessionTypes' /\ KeptIsWritten' /\ WorkIsCommitted' /\ HandedOnIsCommitted'
  BY <1>1 DEF KeptIsWritten, WorkIsCommitted, HandedOnIsCommitted
<1>3. RunningHasWork' /\ RequestsOver' /\ DrainLeavesNothing'
  BY <1>1 DEF RunningHasWork, RequestsOver, DrainLeavesNothing, Session
<1>4. QED
  BY <1>2, <1>3

-----------------------------------------------------------------------------
\* The inductive invariant.
THEOREM InvariantHolds == Spec => []IInv
<1>1. IInv /\ [Next]_vars => IInv'
  <2> SUFFICES ASSUME IInv, [Next]_vars PROVE IInv'
    OBVIOUS
  <2>1. ASSUME NEW s \in Session, SessionStep(s) PROVE IInv'
    BY <2>1, InsideKeeps, EmitKeeps, InsertKeeps, RollBackSavepointKeeps, RollBackKeeps,
       CommitKeeps, PushKeeps, DispatchedKeeps DEF SessionStep
  <2>2. QED
    BY <2>1, BeginRequestKeeps, CallHandlerKeeps, StillKeeps, CrashKeeps DEF Next
<1>2. QED
  BY <1>1, InitHolds, PTL DEF Spec

\* Whatever savepoints and transactions are rolled back, and whenever the
\* process dies, a Job handed to RQ and an Event handed to a handler have their
\* committed row (outbox, after_commit).
THEOREM HandedOnSafe == Spec => []HandedOnIsCommitted
<1>1. IInv => HandedOnIsCommitted
  BY DEF IInv
<1>2. QED
  BY <1>1, InvariantHolds, PTL

\* When drain returns in time nothing is left to run, whatever the handlers'
\* own commits scheduled meanwhile (hooks.drain).
THEOREM DrainSafe == Spec => []DrainLeavesNothing
<1>1. IInv => DrainLeavesNothing
  BY DEF IInv
<1>2. QED
  BY <1>1, InvariantHolds, PTL

-----------------------------------------------------------------------------
(* Nothing forgotten, nothing twice, everything in order: what the kept    *)
(* entries, the tasks and the calls begun have to do with each other.      *)

\* The types SessionTypes leaves out.
OtherTypes ==
    /\ wanted \in [Session -> Key \cup {None}] /\ tries \in [Session -> 0..InsertAttempts]
    /\ keyOf \in [Job -> Key \cup {None}]
    /\ rows \subseteq Item /\ over \subseteq Job /\ lost \subseteq Item /\ awaited \subseteq Task
    /\ at \in [Event -> Nat] /\ txns \in [Session -> Nat] /\ origin = [e \in Event |-> origin[e]]
    /\ IsFiniteSet({e \in Event : at[e] > 0})

Begun(c) == \E i \in DOMAIN ran : ran[i] = c

\* The converse of KeptIsWritten: no row enters a transaction without the entry
\* that hands it on.
WrittenIsKept ==
    \A s \in Session : IF step[s] \in Busy THEN written[s] \subseteq kept[s] ELSE written[s] = {}

\* An Event that waits for its commit was emitted in the transaction that keeps
\* it, and is not yet a task, nor in one, nor begun.
KeptIsOwn ==
    \A s \in Session : \A e \in KeptEvents(s) :
        /\ at[e] > 0 /\ origin[e] = <<s, txns[s]>> /\ work[e] = None
        /\ \A t \in Task : work[t] # None => \A c \in work[t] : c[1] # e
        /\ \A i \in DOMAIN ran : ran[i][1] # e

EmittedSometime == \A e \in Event : e \in rows \/ work[e] # None => at[e] > 0
OriginIsPast    == \A e \in Event : at[e] > 0 => \E s \in Session : \E n \in 0..txns[s] : origin[e] = <<s, n>>

\* A transaction's Events are committed together: none while it runs, and all of
\* them are kept while its commit is dispatched.
CommittedTogether ==
    \A s \in Session : \A e \in rows \cap Event : origin[e] = <<s, txns[s]>> =>
        step[s] \notin Busy /\ (step[s] = "dispatch" => e \in KeptEvents(s))

\* The call a task is making has begun, no other of its calls has, and no call is
\* in two tasks.
OneCallBegun ==
    \A t \in Task : work[t] # None =>
        /\ step[t] # "idle" => \A c \in NextCall(t) : Begun(c)
        /\ \A c \in work[t] : Begun(c) => step[t] # "idle" /\ c \in NextCall(t)
        /\ \A u \in Task \ {t} : work[u] # None => work[t] \cap work[u] = {}

\* The calls of one commit are in one task until they begin.
TaskHasAll ==
    \A t \in Task : work[t] # None => \A c \in work[t], d \in Call :
        d[1] \in rows /\ origin[d[1]] = origin[c[1]] => d \in work[t] \/ Begun(d)

Ordered ==
    /\ OtherTypes /\ WrittenIsKept /\ KeptIsOwn /\ EmittedSometime /\ OriginIsPast /\ CommittedTogether
    /\ OneCallBegun /\ TaskHasAll /\ HandledInOrder /\ NothingForgotten

\* Every inserted Job has its key, and an insert that has an active Job of its
\* key before it has lost to one Job fewer than there are.
OfKey(k) == {j \in rows \cap Job : keyOf[j] = k}
LossesCounted ==
    /\ \A j \in Job : j \in rows \/ (\E s \in Session : j \in Uncommitted(s)) => keyOf[j] \in Key
    /\ IsFiniteSet(rows) /\ \A s \in Session : IsFiniteSet(Uncommitted(s))
    /\ \A s \in Session : step[s] \in {"select", "insert"} => wanted[s] \in Key
    /\ \A s \in Session : step[s] = "select" => tries[s] <= Cardinality(OfKey(wanted[s]))
    /\ \A s \in Session : step[s] = "insert" =>
            /\ tries[s] - 1 <= Cardinality(OfKey(wanted[s]))
            /\ Active(wanted[s]) # {} => tries[s] <= Cardinality(OfKey(wanted[s]))

\* At first there is nothing to order and nothing lost.
LEMMA OrderedInit == Init => Ordered /\ LossesCounted
<1> SUFFICES ASSUME Init PROVE Ordered /\ LossesCounted
  OBVIOUS
<1>1. OtherTypes
  <2>1. {e \in Event : at[e] > 0} = {}
    BY DEF Init
  <2>2. 0 \in 0..InsertAttempts
    BY OutboxAssumption
  <2> QED BY <2>1, <2>2, FS_EmptySet DEF Init, OtherTypes
<1>2. WrittenIsKept /\ KeptIsOwn /\ EmittedSometime /\ OriginIsPast /\ CommittedTogether
  BY DEF Init, WrittenIsKept, KeptIsOwn, EmittedSometime, OriginIsPast, CommittedTogether, KeptEvents, Busy, Session, Task
<1>3. OneCallBegun /\ TaskHasAll /\ HandledInOrder /\ NothingForgotten
  BY DEF Init, OneCallBegun, TaskHasAll, HandledInOrder, NothingForgotten, Call
<1>4. LossesCounted
  BY FS_EmptySet DEF Init, LossesCounted, Uncommitted
<1> QED BY <1>1, <1>2, <1>3, <1>4 DEF Ordered

\* Types.
LEMMA OtherTypesKeep ==
    ASSUME IInv, OtherTypes, [Next]_vars
    PROVE  OtherTypes'
<1> USE DEF IInv, SessionTypes, OtherTypes, sessionVars, dbVars, taskVars, eventVars, drainVars
<1>0. 0 \in 0..InsertAttempts
  BY OutboxAssumption
<1>1. ASSUME NEW s \in Session, BeginRequest(s) \/ (s \in Task /\ CallHandler(s))
      PROVE  OtherTypes'
  <2>1. /\ txns' = [txns EXCEPT ![s] = @ + 1]
        /\ UNCHANGED <<wanted, tries, keyOf, rows, over, lost, awaited, at, origin>>
    BY <1>1 DEF BeginRequest, CallHandler, Open
  <2>2. txns' \in [Session -> Nat]
    BY <2>1
  <2> QED BY <2>1, <2>2
<1>2. ASSUME NEW s \in Session, BeginNested(s) \/ ReleaseSavepoint(s) \/ RollBackSavepoint(s) \/ InsertLost(s)
      PROVE  OtherTypes'
  BY <1>2 DEF BeginNested, ReleaseSavepoint, RollBackSavepoint, InsertLost
<1>3. ASSUME NEW s \in Session, NEW e \in Event, Emit(s, e)
      PROVE  OtherTypes'
  <2>1. IsFiniteSet({x \in Event : at[x] > 0}) /\ Cardinality({x \in Event : at[x] > 0}) \in Nat
    BY FS_CardinalityType
  <2>2. at' \in [Event -> Nat] /\ at'[e] > 0 /\ \A x \in Event \ {e} : at'[x] = at[x]
    BY <1>3, <2>1 DEF Emit
  <2>3. {x \in Event : at'[x] > 0} = {x \in Event : at[x] > 0} \cup {e}
    BY <2>2
  <2>4. IsFiniteSet({x \in Event : at'[x] > 0})
    BY ONLY <2>1, <2>3, FS_AddElement
  <2> QED BY <1>3, <2>2, <2>4 DEF Emit
<1>4. ASSUME NEW s \in Session, NEW k \in Key, Enqueue(s, k)
      PROVE  OtherTypes'
  BY <1>0, <1>4 DEF Enqueue
<1>5. ASSUME NEW s \in Session, SelectJob(s)
      PROVE  OtherTypes'
  <2>1. tries[s] + 1 \in 0..InsertAttempts
    BY <1>5, OutboxAssumption DEF SelectJob, TriesLeft
  <2> QED BY <1>5, <2>1 DEF SelectJob
<1>6. ASSUME NEW s \in Session, InsertJob(s)
      PROVE  OtherTypes'
  BY <1>6 DEF InsertJob
<1>7. ASSUME NEW s \in Session, RollBack(s) \/ Dispatched(s)
      PROVE  OtherTypes'
  <2>1. CASE RollBack(s)
    BY <1>0, <2>1 DEF RollBack, Closed
  <2>2. CASE Dispatched(s)
    BY <2>2 DEF Dispatched
  <2> QED BY <1>7, <2>1, <2>2
<1>8. ASSUME NEW s \in Session, Commit(s)
      PROVE  OtherTypes'
  <2>1. rows \cup Uncommitted(s) \subseteq Item
    BY DEF Uncommitted, Tagged
  <2> QED BY <1>0, <1>8, <2>1 DEF Commit, Closed
<1>9. ASSUME NEW s \in Session, NEW d \in kept[s], Push(s, d)
      PROVE  OtherTypes'
  BY <1>9 DEF Push
<1>10. ASSUME NEW j \in Job, EndJob(j)
       PROVE  OtherTypes'
  BY <1>10 DEF EndJob
<1>11. CASE StartDrain \/ DrainAgain \/ DrainTimeout
  <2>1. Unfinished \subseteq Task
    BY DEF Unfinished
  <2> QED BY <1>11, <2>1 DEF StartDrain, DrainAgain, DrainTimeout, Looked
<1>12. CASE Crash
  <2>1. \A t \in Unfinished : \A c \in work[t] : c[1] \in Item
    BY DEF Unfinished, Call, Item
  <2>2. ASSUME NEW c \in UNION {work[t] : t \in Unfinished}
        PROVE  c[1] \in Item
    <3>1. PICK t \in Unfinished : c \in work[t]
      BY <2>2
    <3> QED BY <2>1, <3>1
  <2>3. lost' \subseteq Item
    BY <1>12, <2>2 DEF Crash
  <2>4. /\ wanted' \in [Session -> Key \cup {None}] /\ tries' \in [Session -> 0..InsertAttempts]
        /\ UNCHANGED <<keyOf, rows, over, awaited, at, origin, txns>>
    BY <1>0, <1>12 DEF Crash
  <2> QED BY <2>3, <2>4
<1>13. CASE UNCHANGED vars
  BY <1>13 DEF vars
<1> QED
  BY <1>1, <1>2, <1>3, <1>4, <1>5, <1>6, <1>7, <1>8, <1>9, <1>10, <1>11, <1>12, <1>13
  DEF Next, SessionStep, Session

\* Every step keeps it that no row is written without the entry that hands it on.
LEMMA WrittenKeeps ==
    ASSUME IInv, OtherTypes, WrittenIsKept, [Next]_vars
    PROVE  WrittenIsKept'
<1> USE DEF IInv, SessionTypes, Busy, WrittenIsKept, sessionVars
<1>1. ASSUME NEW s \in Session, BeginRequest(s) \/ (s \in Task /\ CallHandler(s))
      PROVE  WrittenIsKept'
  BY <1>1 DEF BeginRequest, CallHandler, Open
<1>2. ASSUME NEW s \in Session,
             BeginNested(s) \/ ReleaseSavepoint(s) \/ InsertLost(s) \/ SelectJob(s) \/ \E k \in Key : Enqueue(s, k)
      PROVE  WrittenIsKept'
  BY <1>2 DEF BeginNested, ReleaseSavepoint, InsertLost, SelectJob, Enqueue
<1>3. ASSUME NEW s \in Session, RollBackSavepoint(s)
      PROVE  WrittenIsKept'
  BY <1>3 DEF RollBackSavepoint, Dropped, Within
<1>4. ASSUME NEW s \in Session, NEW e \in Event, Emit(s, e)
      PROVE  WrittenIsKept'
  BY <1>4 DEF Emit
<1>5. ASSUME NEW s \in Session, InsertJob(s)
      PROVE  WrittenIsKept'
  <2>1. PICK j \in Job :
          /\ written' = [written EXCEPT ![s] = @ \cup {[item |-> j, path |-> path[s]]}]
          /\ kept' = [kept EXCEPT ![s] = @ \cup {[item |-> j, path |-> path[s]]}]
    BY <1>5 DEF InsertJob
  <2> QED BY <1>5, <2>1 DEF InsertJob
<1>6. ASSUME NEW s \in Session, RollBack(s) \/ Commit(s)
      PROVE  WrittenIsKept'
  BY <1>6 DEF RollBack, Commit, Closed
<1>7. ASSUME NEW s \in Session, Dispatched(s) \/ \E d \in kept[s] : Push(s, d)
      PROVE  WrittenIsKept'
  BY <1>7 DEF Dispatched, Push
<1>8. CASE (\E j \in Job : EndJob(j)) \/ StartDrain \/ DrainAgain \/ DrainTimeout \/ UNCHANGED vars
  BY <1>8 DEF EndJob, StartDrain, DrainAgain, DrainTimeout, vars
<1>9. CASE Crash
  BY <1>9 DEF Crash
<1> QED
  BY <1>1, <1>2, <1>3, <1>4, <1>5, <1>6, <1>7, <1>8, <1>9 DEF Next, SessionStep, Session

\* The Jobs a commit makes durable have been handed on, or are being so.
JobsNotForgotten ==
    \A j \in (rows \cap Job) \ lost :
        \/ j \in pushed \cup refused
        \/ \E s \in Session : step[s] = "dispatch" /\ \E d \in kept[s] : d.item = j

EventsNotForgotten ==
    \A c \in Call :
        c[1] \in rows \ lost =>
            \/ Begun(c)
            \/ \E t \in Unfinished : c \in work[t]
            \/ \E s \in Session : step[s] = "dispatch" /\ c[1] \in KeptEvents(s)

\* Of Jobs and of Events apart.
LEMMA NothingForgottenParts == NothingForgotten <=> EventsNotForgotten /\ JobsNotForgotten
BY DEF NothingForgotten, EventsNotForgotten, JobsNotForgotten, Begun

\* A session that dispatches keeps its entries while others go on.
LEMMA StillDispatching ==
    ASSUME JobsNotForgotten, UNCHANGED <<rows, lost>>, pushed \cup refused \subseteq pushed' \cup refused',
           \A u \in Session : step[u] = "dispatch" => step'[u] = "dispatch" /\ kept'[u] = kept[u]
    PROVE  JobsNotForgotten'
<1> SUFFICES ASSUME NEW j \in (rows \cap Job) \ lost, j \notin pushed' \cup refused'
             PROVE  \E s \in Session : step'[s] = "dispatch" /\ \E d \in kept'[s] : d.item = j
  BY DEF JobsNotForgotten
<1>1. PICK s \in Session : step[s] = "dispatch" /\ \E d \in kept[s] : d.item = j
  BY DEF JobsNotForgotten
<1> QED BY <1>1

\* No step forgets a committed Job.
LEMMA JobsKeep ==
    ASSUME IInv, OtherTypes, WrittenIsKept, JobsNotForgotten, [Next]_vars
    PROVE  JobsNotForgotten'
<1> USE DEF IInv, SessionTypes, Busy, JobsNotForgotten, sessionVars, dbVars, taskVars
<1>1. ASSUME NEW s \in Session, BeginRequest(s) \/ (s \in Task /\ CallHandler(s)) \/ RollBack(s)
      PROVE  JobsNotForgotten'
  <2>1. /\ step[s] # "dispatch" /\ UNCHANGED <<rows, lost, pushed, refused>>
        /\ \A u \in Session \ {s} : step'[u] = step[u] /\ kept'[u] = kept[u]
    BY <1>1 DEF BeginRequest, CallHandler, Open, RollBack, Closed
  <2> QED BY <2>1, StillDispatching
<1>2. ASSUME NEW s \in Session,
             BeginNested(s) \/ ReleaseSavepoint(s) \/ InsertLost(s) \/ SelectJob(s) \/ \E k \in Key : Enqueue(s, k)
      PROVE  JobsNotForgotten'
  <2>1. /\ step[s] # "dispatch" /\ UNCHANGED <<rows, lost, pushed, refused, kept>>
        /\ \A u \in Session \ {s} : step'[u] = step[u]
    BY <1>2 DEF BeginNested, ReleaseSavepoint, InsertLost, SelectJob, Enqueue
  <2> QED BY <2>1, StillDispatching
<1>3. ASSUME NEW s \in Session, RollBackSavepoint(s) \/ InsertJob(s) \/ \E e \in Event : Emit(s, e)
      PROVE  JobsNotForgotten'
  <2>1. /\ step[s] # "dispatch" /\ UNCHANGED <<rows, lost, pushed, refused>>
        /\ \A u \in Session \ {s} : step'[u] = step[u] /\ kept'[u] = kept[u]
    <3>1. CASE RollBackSavepoint(s)
      BY <3>1 DEF RollBackSavepoint
    <3>2. CASE InsertJob(s)
      BY <3>2 DEF InsertJob
    <3>3. CASE \E e \in Event : Emit(s, e)
      BY <3>3 DEF Emit
    <3> QED BY <1>3, <3>1, <3>2, <3>3
  <2> QED BY <2>1, StillDispatching
<1>4. ASSUME NEW s \in Session, Commit(s)
      PROVE  JobsNotForgotten'
  <2>1. /\ step[s] = "open" /\ step' = [step EXCEPT ![s] = "dispatch"] /\ rows' = rows \cup Uncommitted(s)
        /\ UNCHANGED <<kept, lost, pushed, refused>>
    BY <1>4 DEF Commit
  <2>2. \A j \in Uncommitted(s) : \E d \in kept[s] : d.item = j
    BY <2>1 DEF Uncommitted, WrittenIsKept
  <2> QED BY <2>1, <2>2
<1>5. ASSUME NEW s \in Session, NEW d \in kept[s], Push(s, d)
      PROVE  JobsNotForgotten'
  <2>1. /\ kept' = [kept EXCEPT ![s] = @ \ {d}] /\ UNCHANGED <<step, rows, lost>>
        /\ d.item \in pushed' \cup refused' /\ pushed \cup refused \subseteq pushed' \cup refused'
    BY <1>5 DEF Push
  <2> QED BY <2>1
<1>6. ASSUME NEW s \in Session, Dispatched(s)
      PROVE  JobsNotForgotten'
  <2>1. /\ step' = [step EXCEPT ![s] = "idle"] /\ kept' = [kept EXCEPT ![s] = {}]
        /\ (\A d \in kept[s] : d.item \notin Job) /\ UNCHANGED <<rows, lost, pushed, refused>>
    BY <1>6 DEF Dispatched, KeptJobs
  <2> SUFFICES ASSUME NEW j \in (rows \cap Job) \ lost, j \notin pushed' \cup refused'
               PROVE  \E u \in Session : step'[u] = "dispatch" /\ \E d \in kept'[u] : d.item = j
    BY <2>1
  <2>2. PICK u \in Session : step[u] = "dispatch" /\ \E d \in kept[u] : d.item = j
    BY <2>1
  <2>3. u # s
    BY <2>1, <2>2
  <2> QED BY <2>1, <2>2, <2>3
<1>7. CASE (\E j \in Job : EndJob(j)) \/ StartDrain \/ DrainAgain \/ DrainTimeout \/ UNCHANGED vars
  BY <1>7 DEF EndJob, StartDrain, DrainAgain, DrainTimeout, vars
<1>8. CASE Crash
  <2>1. /\ UNCHANGED <<rows, pushed, refused>> /\ lost \subseteq lost'
        /\ \A i \in Item : (\E s \in Session : step[s] = "dispatch" /\ \E d \in kept[s] : d.item = i) => i \in lost'
    BY <1>8 DEF Crash
  <2> QED BY <2>1 DEF Item
<1> QED
  BY <1>1, <1>2, <1>3, <1>4, <1>5, <1>6, <1>7, <1>8 DEF Next, SessionStep, Session

OrderParts ==
    /\ KeptIsOwn /\ EmittedSometime /\ OriginIsPast /\ CommittedTogether /\ OneCallBegun
    /\ TaskHasAll /\ HandledInOrder /\ EventsNotForgotten

\* Steps that neither emit, commit, schedule nor begin a call.
LEMMA OrderStill ==
    ASSUME OrderParts, UNCHANGED <<rows, work, ran, at, origin, txns, lost>>,
           \A u \in Session : /\ KeptEvents(u)' \subseteq KeptEvents(u)
                              /\ step[u] = "dispatch" => KeptEvents(u)' = KeptEvents(u)
                              /\ step[u] = "dispatch" <=> step'[u] = "dispatch"
                              /\ step[u] = "idle" <=> step'[u] = "idle"
                              /\ step'[u] \in Busy => step[u] \in Busy
    PROVE  OrderParts'
<1> USE DEF OrderParts
<1>1. KeptIsOwn'
  BY DEF KeptIsOwn
<1>2. EmittedSometime' /\ OriginIsPast' /\ CommittedTogether'
  BY DEF EmittedSometime, OriginIsPast, CommittedTogether
<1>3. OneCallBegun'
  BY DEF OneCallBegun, NextCall, Begun, Session
<1>4. TaskHasAll'
  BY DEF TaskHasAll, Begun
<1>5. HandledInOrder'
  BY DEF HandledInOrder
<1>6. EventsNotForgotten'
  BY DEF EventsNotForgotten, Begun, Unfinished
<1> QED BY <1>1, <1>2, <1>3, <1>4, <1>5, <1>6

\* Steps that neither emit, commit nor call a handler leave all orders alone.
LEMMA QuietOrder ==
    ASSUME IInv, Ordered, OrderParts,
           \/ \E s \in Session :
                \/ BeginNested(s) \/ ReleaseSavepoint(s) \/ InsertLost(s) \/ SelectJob(s) \/ RollBackSavepoint(s)
                \/ InsertJob(s) \/ (\E k \in Key : Enqueue(s, k)) \/ \E d \in kept[s] : Push(s, d)
           \/ (\E j \in Job : EndJob(j)) \/ StartDrain \/ DrainAgain \/ DrainTimeout \/ UNCHANGED vars
    PROVE  OrderParts'
<1> USE DEF IInv, SessionTypes, Busy, sessionVars, dbVars, taskVars, eventVars
<1>1. UNCHANGED <<rows, work, ran, at, origin, txns, lost>>
  BY DEF BeginNested, ReleaseSavepoint, InsertLost, SelectJob, RollBackSavepoint, InsertJob, Enqueue, Push, EndJob,
         StartDrain, DrainAgain, DrainTimeout, vars
<1>2. \A u \in Session : /\ step[u] = "dispatch" <=> step'[u] = "dispatch"
                         /\ step[u] = "idle" <=> step'[u] = "idle"
                         /\ step'[u] \in Busy => step[u] \in Busy
  BY DEF BeginNested, ReleaseSavepoint, InsertLost, SelectJob, RollBackSavepoint, InsertJob, Enqueue, Push, EndJob,
         StartDrain, DrainAgain, DrainTimeout, vars
<1>3. ASSUME NEW u \in Session
      PROVE  KeptEvents(u)' \subseteq KeptEvents(u) /\ (step[u] = "dispatch" => KeptEvents(u)' = KeptEvents(u))
  <2>1. CASE kept' = kept
    BY <2>1 DEF KeptEvents
  <2>2. CASE \E s \in Session : RollBackSavepoint(s)
    BY <2>2 DEF RollBackSavepoint, KeptEvents
  <2>3. CASE \E s \in Session : InsertJob(s)
    <3>1. PICK s \in Session, j \in Job :
            step[s] # "dispatch" /\ kept' = [kept EXCEPT ![s] = @ \cup {[item |-> j, path |-> path[s]]}]
      BY <2>3 DEF InsertJob
    <3>2. j \notin Event
      BY OutboxAssumption
    <3> QED BY <3>1, <3>2 DEF KeptEvents
  <2>4. CASE \E s \in Session : \E d \in kept[s] : Push(s, d)
    <3>1. PICK s \in Session : \E d : d.item \in Job /\ kept' = [kept EXCEPT ![s] = @ \ {d}]
      BY <2>4 DEF Push, KeptJobs
    <3>2. PICK d : d.item \in Job /\ kept' = [kept EXCEPT ![s] = @ \ {d}]
      BY <3>1
    <3>3. d.item \notin Event
      BY <3>2, OutboxAssumption
    <3> QED BY <3>2, <3>3 DEF KeptEvents
  <2> QED
    BY <2>1, <2>2, <2>3, <2>4 DEF BeginNested, ReleaseSavepoint, InsertLost, SelectJob, Enqueue, EndJob,
         StartDrain, DrainAgain, DrainTimeout, vars
<1> QED BY <1>1, <1>2, <1>3, OrderStill

\* An Event is emitted: it had no part in anything yet.
LEMMA EmitOrder ==
    ASSUME IInv, Ordered, OrderParts, NEW s \in Session, NEW e \in Event, Emit(s, e)
    PROVE  OrderParts'
<1>0. /\ KeptIsOwn /\ EmittedSometime /\ OriginIsPast /\ CommittedTogether /\ OneCallBegun
      /\ TaskHasAll /\ HandledInOrder /\ EventsNotForgotten
      /\ WorkIsCommitted /\ \A i \in DOMAIN ran : ran[i][1] \in rows
  BY DEF OrderParts, IInv, HandedOnIsCommitted
<1>t. /\ at \in [Event -> Nat] /\ txns \in [Session -> Nat] /\ origin = [x \in Event |-> origin[x]]
      /\ kept \in [Session -> SUBSET Tagged] /\ \A t \in Task : work[t] = None \/ work[t] \subseteq Call
      /\ ran \in Seq(Call)
  BY DEF Ordered, OtherTypes, IInv, SessionTypes
<1>1. /\ step[s] = "open" /\ at[e] = 0
      /\ at' = [at EXCEPT ![e] = 1 + Cardinality({x \in Event : at[x] > 0})]
      /\ origin' = [origin EXCEPT ![e] = <<s, txns[s]>>]
      /\ kept' = [kept EXCEPT ![s] = @ \cup {[item |-> e, path |-> path[s]]}]
      /\ UNCHANGED <<step, rows, work, ran, txns, lost>>
  BY DEF Emit, dbVars, taskVars
<1>2. at' \in [Event -> Nat] /\ at'[e] > 0 /\ \A x \in Event \ {e} : at'[x] = at[x]
  <2>1. Cardinality({x \in Event : at[x] > 0}) \in Nat
    BY FS_CardinalityType DEF Ordered, OtherTypes
  <2> DEFINE n == Cardinality({x \in Event : at[x] > 0})
  <2>2. n \in Nat /\ at' = [at EXCEPT ![e] = 1 + n]
    BY <1>1, <2>1
  <2> HIDE DEF n
  <2> QED BY <1>t, <2>2
<1>3. /\ \A u \in Session \ {s} : KeptEvents(u)' = KeptEvents(u)
      /\ KeptEvents(s)' = KeptEvents(s) \cup {e}
  <2>1. \A u \in Session \ {s} : kept'[u] = kept[u]
    BY <1>t, <1>1
  <2>2. kept'[s] = kept[s] \cup {[item |-> e, path |-> path[s]]}
    BY <1>t, <1>1
  <2>3. {d.item : d \in kept'[s]} = {d.item : d \in kept[s]} \cup {e}
    <3> DEFINE r == [item |-> e, path |-> path[s]]
    <3>1. r.item = e /\ kept'[s] = kept[s] \cup {r}
      BY <2>2
    <3> HIDE DEF r
    <3> QED BY <3>1
  <2> QED BY <2>1, <2>3 DEF KeptEvents
<1>4. /\ origin'[e] = <<s, txns[s]>> /\ \A x \in Event \ {e} : origin'[x] = origin[x]
  BY <1>t, <1>1
<1>5. e \notin rows /\ work[e] = None
  BY <1>0, <1>1 DEF EmittedSometime
<1>6. /\ \A t \in Task : work[t] # None => \A c \in work[t] : c \in Call /\ c[1] # e
      /\ \A i \in DOMAIN ran : ran[i][1] # e /\ ran[i] \in Call
  BY <1>0, <1>t, <1>5 DEF WorkIsCommitted
<1>c. \A c \in Call : c[1] \in Event
  BY DEF Call
<1>7. KeptIsOwn'
  <2>1. \A u \in Session : \A x \in KeptEvents(u) : x \in Event /\ x # e
    BY <1>0, <1>1 DEF KeptIsOwn, KeptEvents
  <2> SUFFICES ASSUME NEW u \in Session, NEW x \in KeptEvents(u)'
               PROVE  /\ at'[x] > 0 /\ origin'[x] = <<u, txns'[u]>> /\ work'[x] = None
                      /\ \A t \in Task : work'[t] # None => \A c \in work'[t] : c[1] # x
                      /\ \A i \in DOMAIN ran' : ran'[i][1] # x
    BY DEF KeptIsOwn
  <2>2. CASE x = e
    <3>1. u = s
      BY <1>3, <2>1, <2>2
    <3> QED BY <1>1, <1>2, <1>4, <1>5, <1>6, <2>2, <3>1
  <2>3. CASE x # e
    <3>1. x \in KeptEvents(u)
      BY <1>3, <2>3
    <3>2. at'[x] = at[x] /\ origin'[x] = origin[x]
      BY <1>2, <1>4, <2>1, <3>1
    <3> QED BY <1>0, <1>1, <3>1, <3>2 DEF KeptIsOwn
  <2> QED BY <2>2, <2>3
<1>8. EmittedSometime'
  BY <1>0, <1>1, <1>2 DEF EmittedSometime
<1>9. OriginIsPast'
  <2>1. txns[s] \in 0..txns[s]
    BY <1>t
  <2> QED BY <1>0, <1>1, <1>2, <1>4, <2>1 DEF OriginIsPast
<1>10. CommittedTogether'
  BY <1>0, <1>1, <1>3, <1>4, <1>5 DEF CommittedTogether
<1>11. OneCallBegun'
  <2>1. ASSUME NEW t \in Task, work[t] # None
        PROVE  NextCall(t)' = NextCall(t)
    <3>1. \A c \in work[t] : at'[c[1]] = at[c[1]]
      BY <1>2, <1>6, <1>c, <2>1
    <3> QED BY <1>1, <3>1 DEF NextCall
  <2>2. \A c : Begun(c)' <=> Begun(c)
    BY <1>1 DEF Begun
  <2> QED BY <1>0, <1>1, <2>1, <2>2 DEF OneCallBegun
<1>12. TaskHasAll'
  BY <1>0, <1>1, <1>4, <1>5, <1>6, <1>c DEF TaskHasAll, Begun
<1>13. HandledInOrder'
  BY <1>0, <1>1, <1>2, <1>4, <1>5, <1>6, <1>c DEF HandledInOrder
<1>14. EventsNotForgotten'
  <2>1. \A u \in Session : step[u] = "dispatch" => KeptEvents(u)' = KeptEvents(u)
    BY <1>1, <1>3
  <2> QED BY <1>0, <1>1, <2>1 DEF EventsNotForgotten, Begun, Unfinished
<1> QED BY <1>7, <1>8, <1>9, <1>10, <1>11, <1>12, <1>13, <1>14 DEF OrderParts

\* What the steps below start from.
LEMMA OrderFacts ==
    ASSUME IInv, Ordered
    PROVE  /\ at \in [Event -> Nat] /\ txns \in [Session -> Nat]
           /\ kept \in [Session -> SUBSET Tagged] /\ step \in [Session -> Busy \cup {"idle", "dispatch"}]
           /\ work = [t \in Task |-> work[t]] /\ ran \in Seq(Call)
           /\ \A t \in Task : work[t] # None => \A c \in work[t] : c \in Call /\ c[1] \in rows
           /\ \A i \in DOMAIN ran : ran[i] \in Call /\ ran[i][1] \in rows
           /\ \A c \in Call : c[1] \in Event /\ c[2] \in Nat /\ c = <<c[1], c[2]>>
           /\ \A t \in Task : step[t] # "idle" => work[t] # None
           /\ Task = Event /\ Task \subseteq Session
<1>1. \A c \in Call : c[1] \in Event /\ c[2] \in Nat /\ c = <<c[1], c[2]>>
  BY DEF Call
<1>2. \A t \in Task : work[t] # None => \A c \in work[t] : c \in Call /\ c[1] \in rows
  BY DEF IInv, SessionTypes, WorkIsCommitted
<1>3. ran \in Seq(Call) /\ \A i \in DOMAIN ran : ran[i] \in Call /\ ran[i][1] \in rows
  BY DEF IInv, SessionTypes, HandedOnIsCommitted
<1>4. \A t \in Task : step[t] # "idle" => work[t] # None
  BY DEF IInv, RunningHasWork, Unfinished
<1> QED BY <1>1, <1>2, <1>3, <1>4 DEF IInv, SessionTypes, Ordered, OtherTypes, Task, Session

\* A task that goes on to its next call drops the one that has begun.
LEMMA RollBackOrder ==
    ASSUME IInv, Ordered, OrderParts, NEW s \in Session, RollBack(s)
    PROVE  OrderParts'
<1>0. /\ KeptIsOwn /\ EmittedSometime /\ OriginIsPast /\ CommittedTogether /\ OneCallBegun
      /\ TaskHasAll /\ HandledInOrder /\ EventsNotForgotten
  BY DEF OrderParts
<1>t. /\ kept \in [Session -> SUBSET Tagged] /\ step \in [Session -> Busy \cup {"idle", "dispatch"}]
      /\ work = [t \in Task |-> work[t]] /\ \A t \in Task : step[t] # "idle" => work[t] # None
  BY OrderFacts
<1>1. /\ step[s] \in Busy /\ step' = [step EXCEPT ![s] = "idle"] /\ kept' = [kept EXCEPT ![s] = {}]
      /\ work' = CallOver(work, s)
      /\ UNCHANGED <<rows, ran, at, origin, txns, lost>>
  BY DEF RollBack, Closed, Busy, dbVars, eventVars
<1>2. \A u \in Session : IF u = s THEN step'[u] = "idle" /\ KeptEvents(u)' = {}
                                   ELSE step'[u] = step[u] /\ KeptEvents(u)' = KeptEvents(u)
  BY <1>t, <1>1 DEF KeptEvents
<1>3. /\ \A t \in Task : t # s => work'[t] = work[t]
      /\ s \in Task => work[s] # None /\ work'[s] = work[s] \ NextCall(s)
  BY <1>t, <1>1 DEF CallOver, Busy
<1>4. /\ \A t \in Task : work[t] = None <=> work'[t] = None
      /\ \A t \in Task : work[t] # None => work'[t] \subseteq work[t]
      /\ \A t \in Task : work[t] # None => \A c \in work[t] : c \in work'[t] \/ Begun(c)
  <2>1. s \in Task => work'[s] # None
    BY <1>1, <1>3, OutboxAssumption, OrderFacts DEF CallOver
  <2>2. s \in Task => \A c \in NextCall(s) : Begun(c)
    BY <1>0, <1>1, <1>3 DEF OneCallBegun, Busy
  <2> QED BY <1>3, <2>1, <2>2
<1>5. KeptIsOwn'
  BY <1>0, <1>1, <1>2, <1>4, OrderFacts DEF KeptIsOwn, KeptEvents
<1>6. EmittedSometime' /\ OriginIsPast'
  BY <1>0, <1>1, <1>4, OrderFacts DEF EmittedSometime, OriginIsPast
<1>7. CommittedTogether'
  BY <1>0, <1>1, <1>2 DEF CommittedTogether, Busy
<1>8. OneCallBegun'
  <2>1. \A c : Begun(c)' <=> Begun(c)
    BY <1>1 DEF Begun
  <2>2. ASSUME NEW t \in Task, work'[t] # None, t # s
        PROVE  /\ step'[t] # "idle" => \A c \in NextCall(t)' : Begun(c)
               /\ \A c \in work'[t] : Begun(c) => step'[t] # "idle" /\ c \in NextCall(t)'
    <3>1. NextCall(t)' = NextCall(t)
      BY <1>1, <1>3, <2>2 DEF NextCall
    <3> QED BY <1>0, <1>2, <1>3, <2>2, <3>1, OrderFacts DEF OneCallBegun
  <2>3. ASSUME NEW t \in Task, work'[t] # None, t = s
        PROVE  step'[t] = "idle" /\ \A c \in work'[t] : ~Begun(c)
    BY <1>0, <1>2, <1>3, <2>3 DEF OneCallBegun
  <2>4. \A t \in Task : work'[t] # None => \A u \in Task \ {t} : work'[u] # None => work'[t] \cap work'[u] = {}
    BY <1>0, <1>4 DEF OneCallBegun
  <2> QED BY <2>1, <2>2, <2>3, <2>4 DEF OneCallBegun
<1>9. TaskHasAll'
  BY <1>0, <1>1, <1>4 DEF TaskHasAll, Begun
<1>10. HandledInOrder'
  BY <1>0, <1>1 DEF HandledInOrder
<1>11. EventsNotForgotten'
  <2>1. \A u \in Session : step[u] = "dispatch" => step'[u] = "dispatch" /\ KeptEvents(u)' = KeptEvents(u)
    BY <1>1, <1>2 DEF Busy
  <2>2. \A c : Begun(c)' <=> Begun(c)
    BY <1>1 DEF Begun
  <2>3. \A t \in Unfinished : \A c \in work[t] : Begun(c) \/ (t \in Unfinished' /\ c \in work'[t])
    BY <1>4 DEF Unfinished
  <2> QED BY <1>0, <1>1, <2>1, <2>2, <2>3 DEF EventsNotForgotten
<1> QED BY <1>5, <1>6, <1>7, <1>8, <1>9, <1>10, <1>11 DEF OrderParts

\* A commit makes durable what its own session keeps, and no Event of the same
\* transaction was durable before.
LEMMA CommitOrder ==
    ASSUME IInv, Ordered, OrderParts, NEW s \in Session, Commit(s)
    PROVE  OrderParts'
<1>0. /\ KeptIsOwn /\ EmittedSometime /\ OriginIsPast /\ CommittedTogether /\ OneCallBegun
      /\ TaskHasAll /\ HandledInOrder /\ EventsNotForgotten
  BY DEF OrderParts
<1>t. /\ kept \in [Session -> SUBSET Tagged] /\ step \in [Session -> Busy \cup {"idle", "dispatch"}]
      /\ \A t \in Task : work[t] # None => \A c \in work[t] : c \in Call /\ c[1] \in rows
      /\ \A i \in DOMAIN ran : ran[i] \in Call /\ ran[i][1] \in rows
      /\ \A c \in Call : c[1] \in Event
  BY OrderFacts
<1>1. /\ step[s] = "open" /\ step' = [step EXCEPT ![s] = "dispatch"]
      /\ rows' = rows \cup Uncommitted(s)
      /\ UNCHANGED <<kept, work, ran, at, origin, txns, lost>>
  BY DEF Commit, taskVars, eventVars
<1>2. \A u \in Session : KeptEvents(u)' = KeptEvents(u) /\ (u # s => step'[u] = step[u]) /\ step'[s] = "dispatch"
  BY <1>t, <1>1 DEF KeptEvents
<1>3. \A e \in Event \cap Uncommitted(s) : e \in KeptEvents(s) /\ at[e] > 0 /\ origin[e] = <<s, txns[s]>>
  <2>1. written[s] \subseteq kept[s]
    BY <1>1 DEF Ordered, WrittenIsKept, Busy
  <2> QED BY <1>0, <2>1 DEF KeptIsOwn, KeptEvents, Uncommitted
<1>4. \A e \in rows \cap Event : origin[e] # <<s, txns[s]>>
  BY <1>0, <1>1 DEF CommittedTogether, Busy
<1>5. KeptIsOwn'
  BY <1>0, <1>1, <1>2 DEF KeptIsOwn
<1>6. EmittedSometime' /\ OriginIsPast'
  BY <1>0, <1>1, <1>3 DEF EmittedSometime, OriginIsPast
<1>7. CommittedTogether'
  BY <1>0, <1>1, <1>2, <1>3, <1>4 DEF CommittedTogether, Busy
<1>8. OneCallBegun'
  BY <1>0, <1>1, <1>2 DEF OneCallBegun, NextCall, Begun, Session
<1>9. TaskHasAll'
  BY <1>0, <1>t, <1>1, <1>3, <1>4 DEF TaskHasAll, Begun
<1>10. HandledInOrder'
  BY <1>0, <1>t, <1>1, <1>3, <1>4 DEF HandledInOrder
<1>11. EventsNotForgotten'
  BY <1>0, <1>t, <1>1, <1>2, <1>3 DEF EventsNotForgotten, Begun, Unfinished
<1> QED BY <1>5, <1>6, <1>7, <1>8, <1>9, <1>10, <1>11 DEF OrderParts

\* The task of a commit: nothing of it has begun, and it has all the calls.
LEMMA DispatchedOrder ==
    ASSUME IInv, Ordered, OrderParts, NEW s \in Session, Dispatched(s)
    PROVE  OrderParts'
<1> DEFINE calls == Calls(KeptEvents(s))
<1>0. /\ KeptIsOwn /\ EmittedSometime /\ OriginIsPast /\ CommittedTogether /\ OneCallBegun
      /\ TaskHasAll /\ HandledInOrder /\ EventsNotForgotten
  BY DEF OrderParts
<1>t. /\ kept \in [Session -> SUBSET Tagged] /\ step \in [Session -> Busy \cup {"idle", "dispatch"}]
      /\ work = [t \in Task |-> work[t]] /\ \A t \in Task : step[t] # "idle" => work[t] # None
      /\ \A t \in Task : work[t] # None => \A c \in work[t] : c \in Call /\ c[1] \in rows
      /\ Task = Event /\ Task \subseteq Session /\ \A c \in Call : c[1] \in Event
  BY OrderFacts
<1>1. /\ step[s] = "dispatch" /\ step' = [step EXCEPT ![s] = "idle"] /\ kept' = [kept EXCEPT ![s] = {}]
      /\ UNCHANGED <<rows, ran, at, origin, txns, lost>>
  BY DEF Dispatched, dbVars, eventVars
<1>2. \A u \in Session : IF u = s THEN step'[u] = "idle" /\ KeptEvents(u)' = {}
                                   ELSE step'[u] = step[u] /\ KeptEvents(u)' = KeptEvents(u)
  BY <1>t, <1>1 DEF KeptEvents
<1>3. /\ calls \subseteq Call /\ calls # None /\ \A c \in calls : c[1] \in KeptEvents(s)
      /\ \A c \in Call : c[1] \in KeptEvents(s) => c \in calls
  BY OutboxAssumption DEF Calls
<1>4. \/ calls = {} /\ work' = CallOver(work, s)
      \/ \E t \in FirstOf(calls) : work' = CallOver([work EXCEPT ![t] = calls], s)
  BY DEF Dispatched
<1> HIDE DEF calls
<1>5. \A t \in FirstOf(calls) : t \in Task /\ t \in KeptEvents(s)
  BY <1>t, <1>3 DEF FirstOf
<1>6. \A e \in KeptEvents(s) : /\ work[e] = None /\ e # s /\ at[e] > 0 /\ origin[e] = <<s, txns[s]>>
                               /\ \A t \in Task : work[t] # None => \A c \in work[t] : c[1] # e
                               /\ \A i \in DOMAIN ran : ran[i][1] # e
  BY <1>0, <1>t, <1>1 DEF KeptIsOwn, KeptEvents
<1>7. PICK new \in SUBSET Task :
        /\ \A t \in new : t \in KeptEvents(s)
        /\ \A t, u \in new : t = u
        /\ calls = {} \/ new # {}
        /\ \A t \in Task : t \in new => work'[t] = calls
        /\ \A t \in Task : t \notin new => work'[t] = IF t = s THEN work[t] \ NextCall(t) ELSE work[t]
  <2>1. CASE calls = {} /\ work' = CallOver(work, s)
    <3>1. \A t \in Task : work'[t] = IF t = s THEN work[t] \ NextCall(t) ELSE work[t]
      BY <1>t, <2>1 DEF CallOver
    <3> QED BY <2>1, <3>1
  <2>2. ASSUME NEW t \in FirstOf(calls), work' = CallOver([work EXCEPT ![t] = calls], s)
        PROVE  \E new \in SUBSET Task :
                 /\ \A x \in new : x \in KeptEvents(s)
                 /\ \A x, u \in new : x = u
                 /\ calls = {} \/ new # {}
                 /\ \A x \in Task : x \in new => work'[x] = calls
                 /\ \A x \in Task : x \notin new => work'[x] = IF x = s THEN work[x] \ NextCall(x) ELSE work[x]
    <3>1. t \in Task /\ t \in KeptEvents(s) /\ t # s
      BY <1>5, <1>6, <2>2
    <3>2. /\ work'[t] = calls
          /\ \A x \in Task : x # t => work'[x] = IF x = s THEN work[x] \ NextCall(x) ELSE work[x]
      BY <1>t, <2>2, <3>1 DEF CallOver
    <3>3. {t} \in SUBSET Task
      BY <3>1
    <3> USE <3>3
    <3> WITNESS {t} \in SUBSET Task
    <3> QED BY <3>1, <3>2
  <2> QED BY <1>4, <2>1, <2>2
<1>8. /\ \A t \in Task \ new : work[t] = None <=> work'[t] = None
      /\ \A t \in Task \ new : work[t] # None => work'[t] \subseteq work[t]
      /\ \A t \in Task \ new : work[t] # None => \A c \in work[t] : c \in work'[t] \/ Begun(c)
  <2>1. s \in Task => work[s] # None /\ \A c \in NextCall(s) : Begun(c)
    BY <1>0, <1>t, <1>1 DEF OneCallBegun
  <2>2. s \in Task => work[s] \ NextCall(s) # None
    <3>1. s \in Task => work[s] \ NextCall(s) \in SUBSET Call
      BY <1>t, <2>1
    <3> QED BY <3>1, OutboxAssumption
  <2> QED BY <1>7, <2>1, <2>2
<1>9. KeptIsOwn'
  <2> SUFFICES ASSUME NEW u \in Session, NEW e \in KeptEvents(u)'
               PROVE  /\ at'[e] > 0 /\ origin'[e] = <<u, txns'[u]>> /\ work'[e] = None
                      /\ \A t \in Task : work'[t] # None => \A c \in work'[t] : c[1] # e
                      /\ \A i \in DOMAIN ran' : ran'[i][1] # e
    BY DEF KeptIsOwn
  <2>1. u # s /\ e \in KeptEvents(u) /\ e \in Task
    BY <1>t, <1>2 DEF KeptEvents
  <2>2. /\ at[e] > 0 /\ origin[e] = <<u, txns[u]>> /\ work[e] = None
        /\ \A t \in Task : work[t] # None => \A c \in work[t] : c[1] # e
        /\ \A i \in DOMAIN ran : ran[i][1] # e
    BY <1>0, <2>1 DEF KeptIsOwn
  <2>3. e \notin KeptEvents(s)
    BY <1>6, <2>1, <2>2
  <2> QED BY <1>1, <1>3, <1>7, <1>8, <2>1, <2>2, <2>3
<1>10. EmittedSometime' /\ OriginIsPast'
  BY <1>0, <1>t, <1>1, <1>6, <1>7, <1>8 DEF EmittedSometime, OriginIsPast
<1>11. CommittedTogether'
  BY <1>0, <1>1, <1>2 DEF CommittedTogether, Busy
<1>12. OneCallBegun'
  <2>1. \A c : Begun(c)' <=> Begun(c)
    BY <1>1 DEF Begun
  <2>2. ASSUME NEW t \in Task, work'[t] # None, t # s, t \notin new
        PROVE  /\ step'[t] # "idle" => \A c \in NextCall(t)' : Begun(c)
               /\ \A c \in work'[t] : Begun(c) => step'[t] # "idle" /\ c \in NextCall(t)'
    <3>1. work'[t] = work[t]
      BY <1>7, <2>2
    <3>2. NextCall(t)' = NextCall(t)
      BY <1>1, <3>1 DEF NextCall
    <3> QED BY <1>0, <1>t, <1>2, <2>2, <3>1, <3>2 DEF OneCallBegun
  <2>3. ASSUME NEW t \in Task, work'[t] # None, t = s, t \notin new
        PROVE  step'[t] = "idle" /\ \A c \in work'[t] : ~Begun(c)
    <3>1. work'[t] = work[t] \ NextCall(t)
      BY <1>7, <2>3
    <3>2. work[t] # None
      BY <1>8, <2>3
    <3>3. \A c \in work[t] : Begun(c) => c \in NextCall(t)
      BY <1>0, <3>2 DEF OneCallBegun
    <3> QED BY <1>2, <2>3, <3>1, <3>3
  <2>4. ASSUME NEW t \in new
        PROVE  step'[t] = "idle" /\ \A c \in work'[t] : ~Begun(c)
    <3>1. t \in KeptEvents(s) /\ t \in Task /\ t \in Session /\ work[t] = None /\ t # s
      BY <1>t, <1>6, <1>7
    <3>2. step'[t] = "idle"
      BY <1>t, <1>2, <3>1
    <3>3. work'[t] = calls
      BY <1>7, <3>1
    <3>4. \A c \in calls : ~Begun(c)
      BY <1>3, <1>6 DEF Begun
    <3> QED BY <3>2, <3>3, <3>4
  <2>5. ASSUME NEW t \in Task, work'[t] # None, NEW u \in Task \ {t}, work'[u] # None
        PROVE  work'[t] \cap work'[u] = {}
    <3>1. CASE t \notin new /\ u \notin new
      BY <1>0, <1>8, <2>5, <3>1 DEF OneCallBegun
    <3>2. CASE t \in new
      BY <1>3, <1>6, <1>7, <1>8, <2>5, <3>2
    <3>3. CASE u \in new
      BY <1>3, <1>6, <1>7, <1>8, <2>5, <3>3
    <3> QED BY <3>1, <3>2, <3>3
  <2> QED BY <2>1, <2>2, <2>3, <2>4, <2>5 DEF OneCallBegun
<1>13. TaskHasAll'
  <2> SUFFICES ASSUME NEW t \in Task, work'[t] # None, NEW c \in work'[t], NEW d \in Call,
                      d[1] \in rows, origin[d[1]] = origin[c[1]]
               PROVE  d \in work'[t] \/ Begun(d)
    BY <1>1 DEF TaskHasAll, Begun
  <2>1. CASE t \notin new
    BY <1>0, <1>8, <2>1 DEF TaskHasAll
  <2>2. CASE t \in new
    <3>1. origin[d[1]] = <<s, txns[s]>>
      BY <1>3, <1>6, <1>7, <2>2
    <3>2. d[1] \in KeptEvents(s)
      BY <1>0, <1>t, <1>1, <3>1 DEF CommittedTogether
    <3> QED BY <1>3, <1>7, <2>2, <3>2
  <2> QED BY <2>1, <2>2
<1>14. HandledInOrder'
  BY <1>0, <1>1 DEF HandledInOrder
<1>15. EventsNotForgotten'
  <2>1. \A c : Begun(c)' <=> Begun(c)
    BY <1>1 DEF Begun
  <2>2. \A t \in Unfinished : t \notin new => \A c \in work[t] : Begun(c) \/ (t \in Unfinished' /\ c \in work'[t])
    BY <1>8 DEF Unfinished
  <2>3. \A t \in Unfinished : t \notin new
    BY <1>6, <1>7 DEF Unfinished
  <2>4. \A c \in Call : c[1] \in KeptEvents(s) => \E t \in Unfinished' : c \in work'[t]
    BY <1>3, <1>7 DEF Unfinished
  <2> SUFFICES ASSUME NEW c \in Call, c[1] \in rows \ lost
               PROVE  \/ Begun(c)
                      \/ \E t \in Unfinished' : c \in work'[t]
                      \/ \E u \in Session : step'[u] = "dispatch" /\ c[1] \in KeptEvents(u)'
    BY <1>1, <2>1 DEF EventsNotForgotten
  <2>5. CASE Begun(c) \/ \E t \in Unfinished : c \in work[t]
    BY <2>2, <2>3, <2>5
  <2>6. CASE \E u \in Session : step[u] = "dispatch" /\ c[1] \in KeptEvents(u)
    BY <1>2, <2>4, <2>6
  <2> QED BY <1>0, <2>5, <2>6 DEF EventsNotForgotten
<1> QED BY <1>9, <1>10, <1>11, <1>12, <1>13, <1>14, <1>15 DEF OrderParts

\* A session that begins its next transaction: nothing committed is of it yet.
LEMMA NewTransaction ==
    ASSUME IInv, Ordered, OrderParts, NEW s \in Session,
           txns' = [txns EXCEPT ![s] = @ + 1], step[s] = "idle", step' = [step EXCEPT ![s] = "open"],
           UNCHANGED <<rows, kept, at, origin>>
    PROVE  OriginIsPast' /\ CommittedTogether' /\ KeptEvents(s) = {}
<1>0. OriginIsPast /\ CommittedTogether /\ EmittedSometime
  BY DEF OrderParts
<1>t. /\ txns \in [Session -> Nat] /\ step \in [Session -> Busy \cup {"idle", "dispatch"}]
      /\ kept \in [Session -> SUBSET Tagged]
  BY OrderFacts
<1>1. txns'[s] = txns[s] + 1 /\ \A u \in Session : u # s => txns'[u] = txns[u] /\ step'[u] = step[u]
  BY <1>t
<1>2. OriginIsPast'
  <2> SUFFICES ASSUME NEW e \in Event, at[e] > 0
               PROVE  \E u \in Session : \E n \in 0..txns'[u] : origin[e] = <<u, n>>
    BY DEF OriginIsPast
  <2>1. PICK u \in Session : \E n \in 0..txns[u] : origin[e] = <<u, n>>
    BY <1>0 DEF OriginIsPast
  <2>2. \A n \in 0..txns[u] : n \in 0..txns'[u]
    BY <1>t, <1>1
  <2> QED BY <2>1, <2>2
<1>3. \A e \in rows \cap Event : origin[e] # <<s, txns'[s]>>
  <2> SUFFICES ASSUME NEW e \in rows \cap Event, origin[e] = <<s, txns'[s]>>
               PROVE  FALSE
    OBVIOUS
  <2>1. PICK u \in Session : \E n \in 0..txns[u] : origin[e] = <<u, n>>
    BY <1>0 DEF OriginIsPast, EmittedSometime
  <2>2. u = s /\ txns[s] + 1 \in 0..txns[s]
    BY <1>1, <2>1
  <2> QED BY <1>t, <2>2
<1>4. CommittedTogether'
  <2> SUFFICES ASSUME NEW u \in Session, NEW e \in rows \cap Event, origin[e] = <<u, txns'[u]>>
               PROVE  step'[u] \notin Busy /\ (step'[u] = "dispatch" => e \in KeptEvents(u)')
    BY DEF CommittedTogether
  <2>1. u # s
    BY <1>3
  <2>2. KeptEvents(u)' = KeptEvents(u)
    BY DEF KeptEvents
  <2> QED BY <1>0, <1>1, <2>1, <2>2 DEF CommittedTogether
<1>5. KeptEvents(s) = {}
  BY DEF IInv, KeptIsWritten, KeptEvents
<1> QED BY <1>2, <1>4, <1>5

\* A request's transaction is a new one.
LEMMA BeginRequestOrder ==
    ASSUME IInv, Ordered, OrderParts, NEW s \in Request, BeginRequest(s)
    PROVE  OrderParts'
<1>0. /\ KeptIsOwn /\ EmittedSometime /\ OneCallBegun /\ TaskHasAll /\ HandledInOrder /\ EventsNotForgotten
  BY DEF OrderParts
<1>t. /\ txns \in [Session -> Nat] /\ step \in [Session -> Busy \cup {"idle", "dispatch"}] /\ Task \subseteq Session
  BY OrderFacts
<1>1. /\ s \in Session /\ step[s] = "idle" /\ step' = [step EXCEPT ![s] = "open"]
      /\ txns' = [txns EXCEPT ![s] = @ + 1]
      /\ UNCHANGED <<kept, rows, work, ran, at, origin, lost>>
  BY DEF BeginRequest, Open, dbVars, taskVars, Session
<1>2. OriginIsPast' /\ CommittedTogether' /\ KeptEvents(s) = {}
  BY <1>1, NewTransaction
<1>3. \A u \in Session : /\ KeptEvents(u)' = KeptEvents(u)
                         /\ u # s => step'[u] = step[u] /\ txns'[u] = txns[u]
  BY <1>t, <1>1 DEF KeptEvents
<1>4. s \notin Task
  BY <1>1, OutboxAssumption DEF Task
<1>5. KeptIsOwn'
  BY <1>0, <1>1, <1>2, <1>3 DEF KeptIsOwn
<1>6. EmittedSometime' /\ TaskHasAll' /\ HandledInOrder'
  BY <1>0, <1>1 DEF EmittedSometime, TaskHasAll, HandledInOrder, Begun
<1>7. OneCallBegun'
  BY <1>0, <1>t, <1>1, <1>3, <1>4 DEF OneCallBegun, NextCall, Begun
<1>8. EventsNotForgotten'
  BY <1>0, <1>1, <1>3 DEF EventsNotForgotten, Begun, Unfinished
<1> QED BY <1>2, <1>5, <1>6, <1>7, <1>8 DEF OrderParts

\* A task's next call is one call.
LEMMA NextCallIsOne ==
    ASSUME IInv, Ordered, NEW t \in Task, work[t] # None, NEW c \in NextCall(t), NEW d \in NextCall(t)
    PROVE  c = d
<1>1. /\ c \in work[t] /\ d \in work[t]
      /\ at[c[1]] < at[d[1]] \/ (c[1] = d[1] /\ c[2] <= d[2])
      /\ at[d[1]] < at[c[1]] \/ (c[1] = d[1] /\ d[2] <= c[2])
  BY DEF NextCall
<1>2. /\ at \in [Event -> Nat] /\ c[1] \in Event /\ d[1] \in Event
      /\ c[2] \in Nat /\ d[2] \in Nat /\ c = <<c[1], c[2]>> /\ d = <<d[1], d[2]>>
  BY <1>1, OrderFacts
<1>3. at[c[1]] \in Nat /\ at[d[1]] \in Nat
  BY <1>2
<1>4. c[1] = d[1] /\ c[2] = d[2]
  BY <1>1, <1>2, <1>3
<1> QED BY <1>2, <1>4

\* A task calls the first of its calls, in a transaction of its own.
LEMMA CallHandlerOrder ==
    ASSUME IInv, Ordered, OrderParts, NEW t \in Task, CallHandler(t)
    PROVE  OrderParts'
<1>0. /\ KeptIsOwn /\ EmittedSometime /\ OneCallBegun /\ TaskHasAll /\ HandledInOrder /\ EventsNotForgotten
  BY DEF OrderParts
<1>t. /\ txns \in [Session -> Nat] /\ step \in [Session -> Busy \cup {"idle", "dispatch"}]
      /\ Task = Event /\ Task \subseteq Session /\ ran \in Seq(Call) /\ at \in [Event -> Nat]
      /\ \A u \in Task : work[u] # None => \A c \in work[u] : c \in Call /\ c[1] \in rows
      /\ \A i \in DOMAIN ran : ran[i] \in Call /\ ran[i][1] \in rows
      /\ \A c \in Call : c[1] \in Event /\ c[2] \in Nat /\ c = <<c[1], c[2]>>
  BY OrderFacts
<1>1. /\ t \in Session /\ step[t] = "idle" /\ step' = [step EXCEPT ![t] = "open"]
      /\ txns' = [txns EXCEPT ![t] = @ + 1] /\ work[t] # None
      /\ UNCHANGED <<kept, rows, work, at, origin, lost>>
  BY <1>t DEF CallHandler, Open, dbVars, Unfinished
<1>2. PICK c \in NextCall(t) : ran' = Append(ran, c)
  BY DEF CallHandler
<1>3. /\ c \in work[t] /\ c \in Call /\ c[1] \in rows
      /\ \A d \in work[t] : at[c[1]] < at[d[1]] \/ (c[1] = d[1] /\ c[2] <= d[2])
  BY <1>t, <1>1 DEF NextCall
<1>4. /\ DOMAIN ran' = DOMAIN ran \cup {Len(ran) + 1} /\ ran'[Len(ran) + 1] = c
      /\ \A i \in DOMAIN ran : ran'[i] = ran[i] /\ i < Len(ran) + 1
  <2>1. ran \in Seq(Call) /\ c \in Call
    BY <1>t, <1>3
  <2>2. /\ DOMAIN Append(ran, c) = 1..(Len(ran) + 1) /\ DOMAIN ran = 1..Len(ran) /\ Len(ran) \in Nat
        /\ Append(ran, c)[Len(ran) + 1] = c
        /\ \A i \in 1..Len(ran) : Append(ran, c)[i] = ran[i]
    BY <2>1
  <2> QED BY <1>2, <2>2
<1>5. \A d : Begun(d)' <=> Begun(d) \/ d = c
  BY <1>4 DEF Begun
<1>6. ~Begun(c)
  BY <1>0, <1>1, <1>3 DEF OneCallBegun
<1>7. OriginIsPast' /\ CommittedTogether' /\ KeptEvents(t) = {}
  BY <1>1, NewTransaction
<1>8. \A u \in Session : /\ KeptEvents(u)' = KeptEvents(u)
                         /\ u # t => step'[u] = step[u] /\ txns'[u] = txns[u]
  BY <1>t, <1>1 DEF KeptEvents
<1>9. KeptIsOwn'
  <2> SUFFICES ASSUME NEW u \in Session, NEW e \in KeptEvents(u)'
               PROVE  /\ at'[e] > 0 /\ origin'[e] = <<u, txns'[u]>> /\ work'[e] = None
                      /\ \A x \in Task : work'[x] # None => \A d \in work'[x] : d[1] # e
                      /\ \A i \in DOMAIN ran' : ran'[i][1] # e
    BY DEF KeptIsOwn
  <2>1. u # t /\ e \in KeptEvents(u) /\ txns'[u] = txns[u]
    BY <1>7, <1>8
  <2>2. /\ at[e] > 0 /\ origin[e] = <<u, txns[u]>> /\ work[e] = None
        /\ \A x \in Task : work[x] # None => \A d \in work[x] : d[1] # e
        /\ \A i \in DOMAIN ran : ran[i][1] # e
    BY <1>0, <2>1 DEF KeptIsOwn
  <2> QED BY <1>1, <1>3, <1>4, <2>1, <2>2
<1>10. EmittedSometime'
  BY <1>0, <1>1 DEF EmittedSometime
<1>11. OneCallBegun'
  <2>1. \A u \in Task : NextCall(u)' = NextCall(u)
    BY <1>1 DEF NextCall
  <2>2. \A d \in NextCall(t) : d = c
    BY <1>1, NextCallIsOne
  <2>3. ASSUME NEW u \in Task, work[u] # None, u # t
        PROVE  c \notin work[u]
    BY <1>0, <1>1, <1>3, <2>3 DEF OneCallBegun
  <2>4. \A d \in work[t] : ~Begun(d)
    BY <1>0, <1>1 DEF OneCallBegun
  <2>5. step'[t] # "idle"
    BY <1>t, <1>1
  <2>6. ASSUME NEW u \in Task, work[u] # None
        PROVE  /\ step'[u] # "idle" => \A d \in NextCall(u) : Begun(d)'
               /\ \A d \in work[u] : Begun(d)' => step'[u] # "idle" /\ d \in NextCall(u)
    <3>1. CASE u = t
      BY <1>2, <1>5, <2>2, <2>4, <2>5, <3>1
    <3>2. CASE u # t
      BY <1>0, <1>t, <1>5, <1>8, <2>3, <2>6, <3>2 DEF OneCallBegun
    <3> QED BY <3>1, <3>2
  <2> QED BY <1>0, <1>1, <2>1, <2>6 DEF OneCallBegun
<1>12. TaskHasAll'
  BY <1>0, <1>1, <1>5 DEF TaskHasAll
<1>13. HandledInOrder'
  <2> SUFFICES ASSUME NEW i \in DOMAIN ran'
               PROVE  /\ \A j \in DOMAIN ran' : i # j => ran'[i] # ran'[j]
                      /\ \A d \in Call :
                            /\ d[1] \in rows /\ origin[d[1]] = origin[ran'[i][1]]
                            /\ at[d[1]] < at[ran'[i][1]] \/ (d[1] = ran'[i][1] /\ d[2] < ran'[i][2])
                            => \E j \in DOMAIN ran' : j < i /\ ran'[j] = d
    BY <1>1 DEF HandledInOrder
  <2>1. CASE i \in DOMAIN ran
    BY <1>0, <1>4, <1>6, <2>1 DEF HandledInOrder, Begun
  <2>2. CASE i = Len(ran) + 1
    <3>1. \A j \in DOMAIN ran' : i # j => ran'[i] # ran'[j]
      BY <1>4, <1>6, <2>2 DEF Begun
    <3>2. ASSUME NEW d \in Call, d[1] \in rows, origin[d[1]] = origin[c[1]],
                 at[d[1]] < at[c[1]] \/ (d[1] = c[1] /\ d[2] < c[2])
          PROVE  Begun(d)
      <4>1. d \in work[t] \/ Begun(d)
        BY <1>0, <1>1, <1>3, <3>2 DEF TaskHasAll
      <4>2. at[d[1]] \in Nat /\ at[c[1]] \in Nat /\ d[2] \in Nat /\ c[2] \in Nat
        BY <1>t, <1>3
      <4>3. d \notin work[t]
        BY <1>3, <3>2, <4>2
      <4> QED BY <4>1, <4>3
    <3> QED BY <1>4, <2>2, <3>1, <3>2 DEF Begun
  <2> QED BY <1>4, <2>1, <2>2
<1>14. EventsNotForgotten'
  <2>1. \A u \in Session : step[u] = "dispatch" => step'[u] = "dispatch" /\ KeptEvents(u)' = KeptEvents(u)
    BY <1>1, <1>8
  <2> QED BY <1>0, <1>1, <1>5, <2>1 DEF EventsNotForgotten, Unfinished
<1> QED BY <1>7, <1>9, <1>10, <1>11, <1>12, <1>13, <1>14 DEF OrderParts

\* A crash records what it takes.
LEMMA CrashOrder ==
    ASSUME IInv, Ordered, OrderParts, Crash
    PROVE  OrderParts'
<1>0. /\ EmittedSometime /\ OriginIsPast /\ HandledInOrder /\ EventsNotForgotten
  BY DEF OrderParts
<1>t. /\ work = [t \in Task |-> work[t]] /\ Task = Event /\ Task \subseteq Session
      /\ \A c \in Call : c[1] \in Event
  BY OrderFacts
<1>1. /\ \A s \in Session : step'[s] = "idle" /\ kept'[s] = {}
      /\ \A t \in Task : work'[t] = IF work[t] = None THEN None ELSE {}
      /\ UNCHANGED <<rows, ran, at, origin, txns>>
      /\ lost \subseteq lost'
  BY DEF Crash, dbVars, eventVars
<1>2. \A t \in Unfinished : \A c \in work[t] : c[1] \in lost'
  BY DEF Crash
<1>3. \A s \in Session : step[s] = "dispatch" => \A e \in KeptEvents(s) : e \in lost'
  BY DEF Crash, KeptEvents, Item
<1>4. KeptIsOwn' /\ CommittedTogether' /\ OneCallBegun' /\ TaskHasAll'
  BY <1>t, <1>1 DEF KeptIsOwn, CommittedTogether, OneCallBegun, TaskHasAll, KeptEvents, Busy
<1>5. EmittedSometime' /\ OriginIsPast' /\ HandledInOrder'
  BY <1>0, <1>t, <1>1 DEF EmittedSometime, OriginIsPast, HandledInOrder
<1>6. EventsNotForgotten'
  BY <1>0, <1>1, <1>2, <1>3 DEF EventsNotForgotten, Begun
<1> QED BY <1>4, <1>5, <1>6 DEF OrderParts

\* Events become tasks, and tasks calls, in order and once, in every reachable
\* state (after_commit.py, hooks.py).
THEOREM OrderHolds == Spec => [](IInv /\ Ordered)
<1>1. Ordered <=> OtherTypes /\ WrittenIsKept /\ OrderParts /\ JobsNotForgotten
  BY NothingForgottenParts DEF Ordered, OrderParts
<1>2. Init => Ordered
  BY OrderedInit
<1>3. IInv /\ Ordered /\ [Next]_vars => Ordered'
  <2> SUFFICES ASSUME IInv, Ordered, [Next]_vars PROVE Ordered'
    OBVIOUS
  <2>1. OtherTypes' /\ WrittenIsKept' /\ JobsNotForgotten'
    BY <1>1, OtherTypesKeep, WrittenKeeps, JobsKeep
  <2>2. ASSUME NEW s \in Session, SessionStep(s) PROVE OrderParts'
    BY <1>1, <2>2, QuietOrder, EmitOrder, RollBackOrder, CommitOrder, DispatchedOrder DEF SessionStep
  <2>3. OrderParts'
    BY <1>1, <2>2, QuietOrder, BeginRequestOrder, CallHandlerOrder, CrashOrder DEF Next
  <2>4. NothingForgotten' <=> EventsNotForgotten' /\ JobsNotForgotten'
    BY DEF NothingForgotten, EventsNotForgotten, JobsNotForgotten, Begun
  <2> QED BY <2>1, <2>3, <2>4 DEF Ordered, OrderParts
<1> QED BY <1>2, <1>3, InvariantHolds, PTL DEF Spec

-----------------------------------------------------------------------------
\* The passes of `enqueue`.

\* The Jobs of a key are finitely many.
LEMMA JobsAreFew ==
    ASSUME LossesCounted, NEW k
    PROVE  IsFiniteSet(OfKey(k)) /\ Cardinality(OfKey(k)) \in Nat
<1>1. OfKey(k) \in SUBSET rows /\ IsFiniteSet(rows)
  BY DEF OfKey, LossesCounted
<1>2. IsFiniteSet(OfKey(k))
  BY ONLY <1>1, FS_Subset
<1> QED BY <1>2, FS_CardinalityType

\* Steps that neither commit, select nor lose.
LEMMA LossesStill ==
    ASSUME LossesCounted, UNCHANGED rows, over \subseteq over',
           keyOf \in [Job -> Key \cup {None}],
           \A j \in Job : keyOf'[j] = keyOf[j] \/ (j \notin rows /\ keyOf'[j] \in Key),
           \A u \in Session : /\ IsFiniteSet(Uncommitted(u)')
                              /\ \A j \in Uncommitted(u)' \cap Job : j \in Uncommitted(u) \/ keyOf'[j] \in Key
                              /\ step'[u] \in {"select", "insert"} =>
                                     step'[u] = step[u] /\ wanted'[u] = wanted[u] /\ tries'[u] = tries[u]
    PROVE  LossesCounted'
<1>1. \A k : OfKey(k)' = OfKey(k) /\ Active(k)' \subseteq Active(k)
  BY DEF OfKey, Active
<1>2. \A j \in Job : j \in rows \/ (\E s \in Session : j \in Uncommitted(s)') => keyOf'[j] \in Key
  BY DEF LossesCounted
<1>3. ASSUME NEW u \in Session, step'[u] \in {"select", "insert"}
      PROVE  /\ wanted'[u] \in Key
             /\ step'[u] = "select" => tries'[u] <= Cardinality(OfKey(wanted[u])')
             /\ step'[u] = "insert" =>
                    /\ tries'[u] - 1 <= Cardinality(OfKey(wanted[u])')
                    /\ Active(wanted[u])' # {} => tries'[u] <= Cardinality(OfKey(wanted[u])')
  <2>1. step'[u] = step[u] /\ wanted'[u] = wanted[u] /\ tries'[u] = tries[u]
    BY <1>3
  <2>2. OfKey(wanted[u])' = OfKey(wanted[u]) /\ Active(wanted[u])' \subseteq Active(wanted[u])
    BY <1>1, <2>1 DEF OfKey, Active
  <2> QED BY <1>3, <2>1, <2>2 DEF LossesCounted
<1> QED BY <1>2, <1>3 DEF LossesCounted

\* Steps outside the insert loop lose nothing.
LEMMA QuietLosses ==
    ASSUME IInv, OtherTypes, LossesCounted,
           \/ \E s \in Session :
                \/ BeginNested(s) \/ ReleaseSavepoint(s) \/ RollBackSavepoint(s) \/ RollBack(s)
                \/ Dispatched(s) \/ (\E d \in kept[s] : Push(s, d)) \/ (s \in Task /\ CallHandler(s))
                \/ BeginRequest(s)
           \/ (\E j \in Job : EndJob(j)) \/ StartDrain \/ DrainAgain \/ DrainTimeout \/ UNCHANGED vars
    PROVE  LossesCounted'
<1> USE DEF IInv, SessionTypes, OtherTypes, sessionVars, dbVars
<1>1. UNCHANGED <<rows, keyOf>> /\ over \subseteq over'
  BY DEF BeginNested, ReleaseSavepoint, RollBackSavepoint, RollBack, Dispatched, Push, CallHandler, BeginRequest, EndJob,
         StartDrain, DrainAgain, DrainTimeout, vars
<1>2. \A u \in Session : written'[u] \subseteq written[u]
  BY DEF BeginNested, ReleaseSavepoint, RollBackSavepoint, RollBack, Closed, Dispatched, Push, CallHandler, BeginRequest,
         EndJob, StartDrain, DrainAgain, DrainTimeout, vars
<1>3. ASSUME NEW u \in Session, step'[u] \in {"select", "insert"}
      PROVE  step'[u] = step[u] /\ wanted'[u] = wanted[u] /\ tries'[u] = tries[u]
  BY <1>3 DEF BeginNested, ReleaseSavepoint, RollBackSavepoint, RollBack, Closed, Dispatched, Push, CallHandler,
     BeginRequest, Open, EndJob, StartDrain, DrainAgain, DrainTimeout, vars
<1>4. ASSUME NEW u \in Session
      PROVE  Uncommitted(u)' \subseteq Uncommitted(u) /\ IsFiniteSet(Uncommitted(u)')
  <2>1. Uncommitted(u)' \in SUBSET Uncommitted(u) /\ IsFiniteSet(Uncommitted(u))
    BY <1>2 DEF Uncommitted, LossesCounted
  <2>2. IsFiniteSet(Uncommitted(u)')
    BY ONLY <2>1, FS_Subset
  <2> QED BY <2>1, <2>2
<1> QED BY <1>1, <1>3, <1>4, LossesStill

\* A row is written.
LEMMA OneMoreRow ==
    ASSUME LossesCounted, SessionTypes, NEW s \in Session, NEW i,
           written' = [written EXCEPT ![s] = @ \cup {[item |-> i, path |-> path[s]]}]
    PROVE  \A u \in Session : /\ Uncommitted(u)' = Uncommitted(u) \cup IF u = s THEN {i} ELSE {}
                              /\ IsFiniteSet(Uncommitted(u)')
<1> DEFINE r == [item |-> i, path |-> path[s]]
<1>1. r.item = i /\ \A u \in Session : written'[u] = written[u] \cup IF u = s THEN {r} ELSE {}
  BY DEF SessionTypes
<1> HIDE DEF r
<1> SUFFICES ASSUME NEW u \in Session
             PROVE  /\ Uncommitted(u)' = Uncommitted(u) \cup IF u = s THEN {i} ELSE {}
                    /\ IsFiniteSet(Uncommitted(u)')
  OBVIOUS
<1>2. Uncommitted(u)' = Uncommitted(u) \cup IF u = s THEN {i} ELSE {}
  BY <1>1 DEF Uncommitted
<1>3. IsFiniteSet(Uncommitted(u)) /\ IsFiniteSet(Uncommitted(u) \cup {i})
  <2>1. IsFiniteSet(Uncommitted(u))
    BY DEF LossesCounted
  <2> QED BY <2>1, FS_AddElement
<1> QED BY <1>2, <1>3

\* A written row ends the pass that wrote it.
LEMMA WriteLosses ==
    ASSUME IInv, OtherTypes, LossesCounted, NEW s \in Session, InsertJob(s) \/ \E e \in Event : Emit(s, e)
    PROVE  LossesCounted'
<1>t. keyOf \in [Job -> Key \cup {None}] /\ SessionTypes /\ step \in [Session -> Busy \cup {"idle", "dispatch"}]
  BY DEF IInv, SessionTypes, OtherTypes
<1>1. ASSUME NEW e \in Event, Emit(s, e)
      PROVE  LossesCounted'
  <2>1. /\ written' = [written EXCEPT ![s] = @ \cup {[item |-> e, path |-> path[s]]}]
        /\ UNCHANGED <<step, wanted, tries, rows, over, keyOf>>
    BY <1>1 DEF Emit, dbVars
  <2>2. e \notin Job
    BY OutboxAssumption
  <2>r. \A u \in Session : /\ Uncommitted(u)' = Uncommitted(u) \cup IF u = s THEN {e} ELSE {}
                           /\ IsFiniteSet(Uncommitted(u)')
    BY ONLY <1>t, <2>1, LossesCounted, OneMoreRow, s \in Session
  <2>3. \A u \in Session : IsFiniteSet(Uncommitted(u)') /\ \A j \in Uncommitted(u)' \cap Job : j \in Uncommitted(u)
    BY <2>2, <2>r
  <2> QED BY <1>t, <2>1, <2>3, LossesStill
<1>2. CASE InsertJob(s)
  <2>1. PICK j \in Job :
          /\ keyOf[j] = None /\ keyOf' = [keyOf EXCEPT ![j] = wanted[s]]
          /\ written' = [written EXCEPT ![s] = @ \cup {[item |-> j, path |-> path[s]]}]
    BY <1>2 DEF InsertJob
  <2>2. /\ step[s] = "insert" /\ step' = [step EXCEPT ![s] = "open"]
        /\ UNCHANGED <<wanted, tries, rows, over>>
    BY <1>2 DEF InsertJob
  <2>3. wanted[s] \in Key
    BY <2>2 DEF LossesCounted
  <2>4. j \notin rows
    BY <2>1, OutboxAssumption DEF LossesCounted
  <2>5. \A i \in Job : keyOf'[i] = keyOf[i] \/ (i \notin rows /\ keyOf'[i] \in Key)
    BY <1>t, <2>1, <2>3, <2>4
  <2>6. \A u \in Session : IsFiniteSet(Uncommitted(u)')
                           /\ \A i \in Uncommitted(u)' \cap Job : i \in Uncommitted(u) \/ keyOf'[i] \in Key
    <3>1. keyOf'[j] \in Key
      BY <1>t, <2>1, <2>3
    <3>2. \A u \in Session : /\ Uncommitted(u)' = Uncommitted(u) \cup IF u = s THEN {j} ELSE {}
                             /\ IsFiniteSet(Uncommitted(u)')
      BY ONLY <1>t, <2>1, LossesCounted, OneMoreRow, s \in Session
    <3> QED BY <3>1, <3>2
  <2>7. \A u \in Session : step'[u] \in {"select", "insert"} =>
          step'[u] = step[u] /\ wanted'[u] = wanted[u] /\ tries'[u] = tries[u]
    BY <1>t, <2>2
  <2> QED BY <1>t, <2>2, <2>5, <2>6, <2>7, LossesStill
<1> QED BY <1>1, <1>2

\* The loop of one session: a pass that begins has lost as often as Jobs have
\* come, and one that loses has lost to an active Job.
LEMMA LoopLosses ==
    ASSUME IInv, OtherTypes, LossesCounted, NEW s \in Session,
           SelectJob(s) \/ InsertLost(s) \/ \E k \in Key : Enqueue(s, k)
    PROVE  LossesCounted'
<1>t. /\ wanted \in [Session -> Key \cup {None}] /\ tries \in [Session -> 0..InsertAttempts]
      /\ step \in [Session -> Busy \cup {"idle", "dispatch"}]
  BY DEF IInv, SessionTypes, OtherTypes
<1>1. UNCHANGED <<written, rows, keyOf, over>>
  BY DEF SelectJob, InsertLost, Enqueue, dbVars
<1>2. \A u \in Session : u # s => step'[u] = step[u] /\ wanted'[u] = wanted[u] /\ tries'[u] = tries[u]
  BY <1>t DEF SelectJob, InsertLost, Enqueue
<1>3. /\ \A k : OfKey(k)' = OfKey(k) /\ Active(k)' = Active(k)
      /\ \A u \in Session : Uncommitted(u)' = Uncommitted(u)
  BY <1>1 DEF OfKey, Active, Uncommitted
<1>4. \A k : Cardinality(OfKey(k)) \in Nat
  BY JobsAreFew
<1>5. /\ step'[s] \in {"select", "insert"} => wanted'[s] \in Key
      /\ step'[s] = "select" => tries'[s] <= Cardinality(OfKey(wanted'[s]))
      /\ step'[s] = "insert" =>
            /\ tries'[s] - 1 <= Cardinality(OfKey(wanted'[s]))
            /\ Active(wanted'[s]) # {} => tries'[s] <= Cardinality(OfKey(wanted'[s]))
  <2>1. CASE SelectJob(s)
    <3>1. /\ step[s] = "select" /\ wanted' = wanted /\ tries'[s] = tries[s] + 1
          /\ step'[s] = IF Seen(s, wanted[s]) # {} THEN "open" ELSE "insert"
      BY <1>t, <2>1 DEF SelectJob
    <3>2. wanted[s] \in Key /\ tries[s] <= Cardinality(OfKey(wanted[s]))
      BY <3>1 DEF LossesCounted
    <3>3. step'[s] = "insert" => Active(wanted[s]) = {}
      BY <3>1 DEF Seen
    <3>4. tries[s] \in Nat /\ tries'[s] - 1 = tries[s]
      BY <1>t, <3>1
    <3> QED BY <3>1, <3>2, <3>3, <3>4
  <2>2. CASE InsertLost(s)
    <3>1. step[s] = "insert" /\ step'[s] = "select" /\ UNCHANGED <<wanted, tries>> /\ Active(wanted[s]) # {}
      BY <1>t, <2>2 DEF InsertLost
    <3> QED BY <3>1 DEF LossesCounted
  <2>3. CASE \E k \in Key : Enqueue(s, k)
    <3>1. step'[s] = "select" /\ wanted'[s] \in Key /\ tries'[s] = 0
      BY <1>t, <2>3 DEF Enqueue
    <3> QED BY <1>4, <3>1
  <2> QED BY <2>1, <2>2, <2>3
<1>6. \A u \in Session : OfKey(wanted[u])' = OfKey(wanted'[u]) /\ Active(wanted[u])' = Active(wanted'[u])
  BY <1>1 DEF OfKey, Active
<1>7. ASSUME NEW u \in Session
      PROVE  /\ step'[u] \in {"select", "insert"} => wanted'[u] \in Key
             /\ step'[u] = "select" => tries'[u] <= Cardinality(OfKey(wanted[u])')
             /\ step'[u] = "insert" =>
                    /\ tries'[u] - 1 <= Cardinality(OfKey(wanted[u])')
                    /\ Active(wanted[u])' # {} => tries'[u] <= Cardinality(OfKey(wanted[u])')
  <2>1. CASE u = s
    BY <1>5, <1>6, <2>1
  <2>2. CASE u # s
    BY <1>2, <1>6, <2>2 DEF LossesCounted
  <2> QED BY <2>1, <2>2
<1>8. /\ \A j \in Job : j \in rows' \/ (\E u \in Session : j \in Uncommitted(u)') => keyOf'[j] \in Key
      /\ IsFiniteSet(rows') /\ \A u \in Session : IsFiniteSet(Uncommitted(u)')
  BY <1>1, <1>3 DEF LossesCounted
<1> QED BY <1>7, <1>8 DEF LossesCounted

\* A commit that gives a waiting insert an active Job gives its key one Job more.
LEMMA CommitLosses ==
    ASSUME IInv, OtherTypes, LossesCounted, NEW s \in Session, Commit(s)
    PROVE  LossesCounted'
<1>t. /\ tries \in [Session -> 0..InsertAttempts] /\ step \in [Session -> Busy \cup {"idle", "dispatch"}]
      /\ written \in [Session -> SUBSET Tagged]
      /\ wanted \in [Session -> Key \cup {None}]
  BY DEF IInv, SessionTypes, OtherTypes
<1>1. /\ rows' = rows \cup Uncommitted(s) /\ written' = [written EXCEPT ![s] = {}]
      /\ step' = [step EXCEPT ![s] = "dispatch"] /\ UNCHANGED <<keyOf, over>>
      /\ \A u \in Session : u # s => wanted'[u] = wanted[u] /\ tries'[u] = tries[u]
  BY <1>t DEF Commit, Closed
<1>2. IsFiniteSet(rows')
  BY <1>1, FS_Union DEF LossesCounted
<1>3. /\ \A u \in Session \ {s} : Uncommitted(u)' = Uncommitted(u)
      /\ Uncommitted(s)' = {}
  BY <1>t, <1>1 DEF Uncommitted
<1>4. \A j \in Job : j \in rows' \/ (\E u \in Session : j \in Uncommitted(u)') => keyOf'[j] \in Key
  BY <1>1, <1>3 DEF LossesCounted
<1>5. \A u \in Session : IsFiniteSet(Uncommitted(u)')
  BY <1>3, FS_EmptySet DEF LossesCounted
<1>6. ASSUME NEW u \in Session, step'[u] \in {"select", "insert"}
      PROVE  /\ wanted'[u] \in Key
             /\ step'[u] = "select" => tries'[u] <= Cardinality(OfKey(wanted[u])')
             /\ step'[u] = "insert" =>
                    /\ tries'[u] - 1 <= Cardinality(OfKey(wanted[u])')
                    /\ Active(wanted[u])' # {} => tries'[u] <= Cardinality(OfKey(wanted[u])')
  <2> DEFINE k == wanted[u]
             old == OfKey(k)
             now == {j \in rows' \cap Job : keyOf[j] = k}
             live == now \ over
  <2>1. /\ u # s /\ step'[u] = step[u] /\ wanted'[u] = k /\ tries'[u] = tries[u]
        /\ k \in Key
    BY <1>t, <1>1, <1>6 DEF LossesCounted
  <2>2. OfKey(wanted[u])' = now /\ Active(wanted[u])' = live
    BY <1>1, <2>1 DEF OfKey, Active
  <2>3. old \subseteq now /\ IsFiniteSet(now) /\ IsFiniteSet(old) /\ Cardinality(now) \in Nat /\ Cardinality(old) \in Nat
    <3>1. now \in SUBSET rows' /\ IsFiniteSet(rows')
      BY <1>2
    <3>2. IsFiniteSet(now)
      BY ONLY <3>1, FS_Subset
    <3>3. old \subseteq now
      BY <1>1 DEF OfKey
    <3> QED BY <3>2, <3>3, JobsAreFew, FS_CardinalityType
  <2>4. Cardinality(old) <= Cardinality(now) /\ (old # now => Cardinality(old) + 1 <= Cardinality(now))
    <3>1. Cardinality(old) <= Cardinality(now) /\ (Cardinality(now) = Cardinality(old) => now = old)
      BY ONLY <2>3, FS_Subset
    <3> QED BY <2>3, <3>1
  <2>5. live # {} => Active(k) # {} \/ old # now
    BY <1>1 DEF Active, OfKey
  <2>6. tries[u] \in Nat
    BY <1>t
  <2>7. /\ step[u] = "select" => tries[u] <= Cardinality(old)
        /\ step[u] = "insert" => /\ tries[u] - 1 <= Cardinality(old)
                                 /\ Active(k) # {} => tries[u] <= Cardinality(old)
    BY DEF LossesCounted
  <2> HIDE DEF k, old, now, live
  <2>8. step[u] = "insert" /\ live # {} => tries[u] <= Cardinality(now)
    BY <2>3, <2>4, <2>5, <2>6, <2>7
  <2>9. /\ step[u] = "select" => tries[u] <= Cardinality(now)
        /\ step[u] = "insert" => tries[u] - 1 <= Cardinality(now)
    BY <2>3, <2>4, <2>6, <2>7
  <2> QED BY <2>1, <2>2, <2>8, <2>9
<1> QED BY <1>2, <1>4, <1>5, <1>6 DEF LossesCounted

\* A crash ends all passes.
LEMMA CrashLosses ==
    ASSUME OtherTypes, LossesCounted, Crash
    PROVE  LossesCounted'
<1>1. /\ UNCHANGED <<rows, keyOf, over>> /\ keyOf \in [Job -> Key \cup {None}]
      /\ \A u \in Session : written'[u] = {} /\ step'[u] = "idle"
  BY DEF Crash, dbVars, OtherTypes
<1>2. \A u \in Session : Uncommitted(u)' = {}
  BY <1>1 DEF Uncommitted
<1> QED BY <1>1, <1>2, FS_EmptySet, LossesStill

\* The passes of enqueue that were lost, or are about to be, are at most as many
\* as the committed Jobs of the key, in every reachable state (enqueue.py).
THEOREM LossesHold == Spec => []LossesCounted
<1>1. Init => LossesCounted
  BY OrderedInit
<1>2. IInv /\ Ordered /\ LossesCounted /\ [Next]_vars => LossesCounted'
  <2> SUFFICES ASSUME IInv, OtherTypes, LossesCounted, [Next]_vars PROVE LossesCounted'
    BY DEF Ordered
  <2>1. \A s \in Request : s \in Session
    BY DEF Session
  <2>2. \A t \in Task : t \in Session
    BY DEF Session
  <2> QED BY <2>1, <2>2, QuietLosses, WriteLosses, LoopLosses, CommitLosses, CrashLosses DEF Next, SessionStep
<1> QED BY <1>1, <1>2, OrderHolds, PTL DEF Spec

-----------------------------------------------------------------------------
\* Every variable has its type in every reachable state, the tags of rows and
\* kept entries included.
THEOREM TypesHold == Spec => []TypeOK
<1>1. IInv /\ Ordered => TypeOK
  BY DEF IInv, SessionTypes, Busy, Ordered, OtherTypes, TypeOK
<1> QED BY <1>1, OrderHolds, PTL

\* A handler is called at most once for an Event, and after every handler of the
\* Events its transaction emitted before and those registered before it, however
\* transactions, tasks, handlers' own commits and crashes interleave
\* (after_commit.schedule, hooks._run).
THEOREM OrderSafe == Spec => []HandledInOrder
<1>1. Ordered => HandledInOrder
  BY DEF Ordered
<1> QED BY <1>1, OrderHolds, PTL

\* Whatever has committed is handed on, or a session or a task is about to hand it
\* on, or a crash or a failed push took it: a rolled back savepoint beside it, or
\* a task that is drained, never does (outbox.record_pending, after_commit.defer).
THEOREM ForgetsNothing == Spec => []NothingForgotten
<1>1. Ordered => NothingForgotten
  BY DEF Ordered
<1> QED BY <1>1, OrderHolds, PTL

\* Each pass of `enqueue` that loses has another committed Job of its key to show
\* for it: the RuntimeError takes as many Jobs as there are attempts.
THEOREM LossesSafe == Spec => []EachLossIsAnotherJob
<1>1. IInv /\ Ordered /\ LossesCounted => EachLossIsAnotherJob
  <2> SUFFICES ASSUME IInv, Ordered, LossesCounted, NEW s \in Session
               PROVE  (IF step[s] = "select" THEN tries[s] ELSE IF step[s] = "insert" THEN tries[s] - 1 ELSE 0)
                        <= Cardinality({j \in rows \cap Job : keyOf[j] = wanted[s]})
    BY DEF EachLossIsAnotherJob
  <2>1. /\ OfKey(wanted[s]) = {j \in rows \cap Job : keyOf[j] = wanted[s]}
        /\ Cardinality(OfKey(wanted[s])) \in Nat
    BY JobsAreFew DEF OfKey
  <2>2. /\ step[s] = "select" => tries[s] <= Cardinality(OfKey(wanted[s]))
        /\ step[s] = "insert" => tries[s] - 1 <= Cardinality(OfKey(wanted[s]))
    BY DEF LossesCounted
  <2>3. (IF step[s] = "select" THEN tries[s] ELSE IF step[s] = "insert" THEN tries[s] - 1 ELSE 0)
           <= Cardinality(OfKey(wanted[s]))
    BY <2>1, <2>2
  <2> QED BY ONLY <2>1, <2>3
<1> QED BY <1>1, InvariantHolds, OrderHolds, LossesHold, PTL
=============================================================================
