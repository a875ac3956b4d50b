------------------------------ MODULE LLMGate ------------------------------
(***************************************************************************)
(* The priority semaphore in front of the local LLM: core/llm_gate.py.     *)
(* Every platform-LLM call, of any process, takes a slot with one Lua      *)
(* script over three Valkey sorted sets (holders, waiters, waiters_seen),  *)
(* polls until it is granted, renews the entry while it runs, and removes  *)
(* it at the end.  A script is one action; a reply, a cancellation, an     *)
(* error or a crash may come between any two.                              *)
(*                                                                         *)
(* Time: Tick is one renewal period (renew_every_s).  A waiter polls many  *)
(* times within waiter_stale_s, which is shorter than a Tick, so an entry  *)
(* of `waiters_seen` is stale after a Tick unless its call is polling.     *)
(***************************************************************************)
EXTENDS Naturals, FiniteSets

CONSTANTS
    Call,       \* calls of LLMGate.acquire; the token of each is unique
    Priority,   \* the number of each call's GateClass, lower first
    Capacity,
    Ttl,        \* holder_ttl_s in renewal periods
    Patient,    \* the calls whose wait budget does not run out
    Faults,     \* the disturbances a run allows
    MaxFaults   \* bound on how many of them happen

ASSUME GateAssumption ==
    /\ IsFiniteSet(Call)
    /\ Priority \in [Call -> Nat]
    /\ Capacity \in Nat \ {0}
    /\ Ttl \in Nat /\ Ttl >= 2
    /\ MaxFaults \in Nat

VARIABLES
    \* the calls
    pc,
    arrival,   \* order in which the calls computed their scores
    loops,     \* calls whose renewal task runs
    due,       \* renewals whose sleep is over
    missed,    \* renewals in a row that Valkey failed
    stalled,   \* calls whose event loop is stuck
    \* Valkey
    holders, waiters,
    left,      \* periods until a holder's expiry
    stale,     \* waiters not seen for waiter_stale_s
    late,      \* scripts of cancelled calls that are still to run
    \* history
    hurt,      \* calls that were stalled at some time
    faults

callVars == <<pc, arrival, loops, due, missed, stalled>>
zsets    == <<holders, waiters, left, stale>>
vars     == <<callVars, zsets, late, hurt, faults>>

Discarding == {"busy", "cancelled", "failing", "release"}

TypeOK ==
    /\ pc \in [Call -> {"idle", "ask", "refused", "granted", "run", "over"} \cup Discarding]
    /\ arrival \in [Call -> Nat]
    /\ missed \in [Call -> Nat]
    /\ left \in [Call -> 0..Ttl]
    /\ due \subseteq loops /\ loops \subseteq {c \in Call : pc[c] = "run"}
    /\ stalled \subseteq Call /\ hurt \subseteq Call /\ late \subseteq Call
    /\ holders \subseteq Call
    /\ waiters \subseteq Call \ holders
    /\ stale \subseteq waiters
    /\ faults \in 0..MaxFaults

Init ==
    /\ pc = [c \in Call |-> "idle"]
    /\ arrival = [c \in Call |-> 0]
    /\ missed = [c \in Call |-> 0]
    /\ left = [c \in Call |-> 0]
    /\ loops = {} /\ due = {} /\ stalled = {} /\ hurt = {} /\ late = {}
    /\ holders = {} /\ waiters = {} /\ stale = {}
    /\ faults = 0

Disturb(kind) ==
    /\ kind \in Faults
    /\ faults < MaxFaults
    /\ faults' = faults + 1

-----------------------------------------------------------------------------
(* The acquire script                                                      *)

\* The order of the scores: the class, then the arrival.
Before(b, c) ==
    \/ Priority[b] < Priority[c]
    \/ Priority[b] = Priority[c] /\ arrival[b] < arrival[c]

\* mutant: an entry is purged a period early
ExpiredEarly == {c \in holders : left[c] <= 1}

\* Holders whose expiry has passed.
Expired == {c \in holders : left[c] = 0}

\* mutant: a waiter of a dead process stays
NoneAreDead == {}

\* Waiters whose call has stopped polling.
DeadWaiters == stale

\* mutant: one slot too many
FitsLate(rank, free) == rank <= free

\* rank < free, which no rank is when nothing is free.
Fits(rank, free) == rank < free

\* The queue after c was granted.
QueueAfter(c, q) == q \ {c}

\* Purge; then c is a holder already, or enqueued, and granted if it is
\* among the first as many as there are free slots.
Script(c, granted) ==
    LET held  == holders \ Expired
        queue == (waiters \ DeadWaiters) \cup (IF c \in held THEN {} ELSE {c})
        rank  == Cardinality({b \in queue : Before(b, c)})
        taken == Cardinality(held)
    IN
    /\ granted = (c \in held \/ (taken <= Capacity /\ Fits(rank, Capacity - taken)))
    /\ holders' = IF granted THEN held \cup {c} ELSE held
    /\ waiters' = IF granted THEN QueueAfter(c, queue) ELSE queue
    /\ left' = IF granted /\ c \notin held THEN [left EXCEPT ![c] = Ttl] ELSE left
    /\ stale' = stale \ (DeadWaiters \cup {c})

-----------------------------------------------------------------------------
(* The calls                                                               *)

\* acquire: the token and its score, once for all polls.
Ask(c) ==
    /\ pc[c] = "idle"
    /\ pc' = [pc EXCEPT ![c] = "ask"]
    /\ arrival' = [arrival EXCEPT ![c] = Cardinality({b \in Call : pc[b] # "idle"})]
    /\ UNCHANGED <<loops, due, missed, stalled, zsets, late, hurt, faults>>

Polls(c) == pc[c] \in {"ask", "refused"} /\ c \notin stalled

\* One poll, and its answer on the way.
Poll(c) ==
    /\ Polls(c)
    /\ \E granted \in BOOLEAN :
        /\ Script(c, granted)
        /\ pc' = [pc EXCEPT ![c] = IF granted THEN "granted" ELSE "refused"]
    /\ UNCHANGED <<arrival, loops, due, missed, stalled, late, hurt, faults>>

\* The call sees that it has the slot; its renewal task starts.
Receive(c) ==
    /\ pc[c] = "granted" /\ c \notin stalled
    /\ pc' = [pc EXCEPT ![c] = "run"]
    /\ loops' = loops \cup {c}
    /\ UNCHANGED <<arrival, due, missed, stalled, zsets, late, hurt, faults>>

\* The wait budget ran out: LLMBusy, once the token is discarded.
GiveUp(c) ==
    /\ pc[c] = "refused" /\ c \notin stalled /\ c \notin Patient
    /\ pc' = [pc EXCEPT ![c] = "busy"]
    /\ UNCHANGED <<arrival, loops, due, missed, stalled, zsets, late, hurt, faults>>

\* The waiting task is cancelled; its last script may still be on its way,
\* or have run without its answer being read.
Cancel(c) ==
    /\ pc[c] \in {"ask", "refused", "granted"} /\ c \notin stalled
    /\ pc' = [pc EXCEPT ![c] = "cancelled"]
    /\ \/ UNCHANGED <<late, faults>>
       \/ pc[c] # "granted" /\ Disturb("late") /\ late' = late \cup {c}
    /\ UNCHANGED <<arrival, loops, due, missed, stalled, zsets, hurt>>

\* Valkey refuses the script or its answer is lost: the call fails open.
PollFails(c) ==
    /\ Polls(c)
    /\ Disturb("lose")
    /\ \/ UNCHANGED zsets
       \/ \E granted \in BOOLEAN : Script(c, granted)
    /\ pc' = [pc EXCEPT ![c] = "failing"]
    /\ UNCHANGED <<arrival, loops, due, missed, stalled, late, hurt>>

\* A script left behind by a cancelled call runs after all.
LatePoll(c) ==
    /\ c \in late
    /\ late' = late \ {c}
    /\ \E granted \in BOOLEAN : Script(c, granted)
    /\ UNCHANGED <<callVars, hurt, faults>>

\* _release: the token leaves all three sets; an error is swallowed.
Discard(c) ==
    /\ pc[c] \in Discarding /\ c \notin stalled
    /\ \/ /\ holders' = holders \ {c}
          /\ waiters' = waiters \ {c}
          /\ stale' = stale \ {c}
          /\ UNCHANGED faults
       \/ Disturb("lose") /\ UNCHANGED <<holders, waiters, stale>>
    /\ pc' = [pc EXCEPT ![c] = IF pc[c] = "failing" THEN "run" ELSE "over"]
    /\ UNCHANGED <<arrival, loops, due, missed, stalled, left, late, hurt>>

\* _renew_loop: moves the expiry of an entry that is there, expired or not,
\* and ends when it is not: an entry is never re-added.
Renew(c) ==
    /\ c \in due /\ c \notin stalled
    /\ IF c \in holders
       THEN /\ left' = [left EXCEPT ![c] = Ttl]
            /\ missed' = [missed EXCEPT ![c] = 0]
            /\ UNCHANGED loops
       ELSE loops' = loops \ {c} /\ UNCHANGED <<left, missed>>
    /\ due' = due \ {c}
    /\ UNCHANGED <<pc, arrival, stalled, holders, waiters, stale, late, hurt, faults>>

\* Valkey fails the renewal; the loop goes on.
RenewFails(c) ==
    /\ c \in due /\ c \notin stalled
    /\ Disturb("lose")
    /\ missed' = [missed EXCEPT ![c] = @ + 1]
    /\ due' = due \ {c}
    /\ UNCHANGED <<pc, arrival, loops, stalled, zsets, late, hurt>>

\* The LLM call is over, or cancelled: the renewal stops, then the release;
\* the no-op slot of a call that failed open has neither.
Finish(c) ==
    /\ pc[c] = "run" /\ c \notin stalled
    /\ pc' = [pc EXCEPT ![c] = "release"]
    /\ loops' = loops \ {c}
    /\ due' = due \ {c}
    /\ UNCHANGED <<arrival, missed, stalled, zsets, late, hurt, faults>>

\* Valkey is not there when the call asks: ungated, without a token.
Ungated(c) ==
    /\ pc[c] = "idle"
    /\ Disturb("lose")
    /\ pc' = [pc EXCEPT ![c] = "run"]
    /\ UNCHANGED <<arrival, loops, due, missed, stalled, zsets, late, hurt>>

\* The call's process dies: what it left in Valkey stays.
Crash(c) ==
    /\ pc[c] \notin {"idle", "over"}
    /\ Disturb("crash")
    /\ pc' = [pc EXCEPT ![c] = "over"]
    /\ loops' = loops \ {c} /\ due' = due \ {c} /\ stalled' = stalled \ {c}
    /\ UNCHANGED <<arrival, missed, zsets, late, hurt>>

Stall(c) ==
    /\ pc[c] \notin {"idle", "over"} /\ c \notin stalled
    /\ Disturb("stall")
    /\ stalled' = stalled \cup {c}
    /\ hurt' = hurt \cup {c}
    /\ UNCHANGED <<pc, arrival, loops, due, missed, zsets, late>>

Unstall(c) ==
    /\ c \in stalled
    /\ stalled' = stalled \ {c}
    /\ UNCHANGED <<pc, arrival, loops, due, missed, zsets, late, hurt, faults>>

\* mutant: `waiters_seen` is written by the first poll only
SeenOnce(c) == pc[c] = "ask" /\ c \notin stalled

\* The entry of c is refreshed all the time.
Seen(c) == Polls(c)

\* A renewal period passes.  A call that is not stalled has read its answer
\* and done its renewal by then.
Tick ==
    /\ \A c \in Call \ stalled : c \notin due /\ pc[c] # "granted"
    /\ left' = [c \in Call |-> IF left[c] > 0 THEN left[c] - 1 ELSE 0]
    /\ stale' = {c \in waiters : ~Seen(c)}
    /\ due' = loops
    /\ UNCHANGED <<pc, arrival, loops, missed, stalled, holders, waiters, late, hurt, faults>>

-----------------------------------------------------------------------------
Next ==
    \/ \E c \in Call :
        \/ Ask(c) \/ Poll(c) \/ Receive(c) \/ GiveUp(c) \/ Cancel(c) \/ PollFails(c) \/ LatePoll(c)
        \/ Discard(c) \/ Renew(c) \/ RenewFails(c) \/ Finish(c) \/ Ungated(c)
        \/ Crash(c) \/ Stall(c) \/ Unstall(c)
    \/ Tick

Spec == Init /\ [][Next]_vars

\* Waiting tasks poll, replies and renewals are handled, an LLM call ends
\* (it has a timeout), a stuck loop gets unstuck, and time passes.
Fairness ==
    /\ \A c \in Call :
        /\ WF_vars(Poll(c)) /\ WF_vars(Receive(c)) /\ WF_vars(Discard(c))
        /\ WF_vars(Renew(c)) /\ WF_vars(Finish(c)) /\ WF_vars(Unstall(c))
    /\ WF_vars(Tick)

FairSpec == Spec /\ Fairness

-----------------------------------------------------------------------------
(* Properties                                                              *)

\* The holders never outnumber the capacity, whatever late scripts,
\* renewals, purges and failed releases come between (the acquire script
\* purges, enqueues and grants at once; the renewal never re-adds).
SlotsBounded == Cardinality(holders) <= Capacity

\* A call with a slot whose loop was never stuck and whose renewals did not
\* fail for as long as the TTL has room for.
Healthy(c) == pc[c] = "run" /\ c \in loops /\ c \notin hurt /\ missed[c] + 1 < Ttl

\* Such calls keep their entry, so that no more than `capacity` of them run
\* at once: the renewal is in time for every purge (renew_every_s, holder_ttl_s).
HealthyKeepSlot == \A c \in Call : Healthy(c) => c \in holders /\ left[c] > 0

\* Calls that keep polling are served in the order of class and arrival: when
\* a call is granted a slot, fewer of those that were refused and come before
\* it wait than there were free slots; a purge never costs them their place.
Overtaken(c) == {b \in Call : pc[b] = "refused" /\ b \notin hurt /\ Before(b, c)}
ServedInOrder ==
    [][\A c \in Call :
        (pc[c] # "granted" /\ pc'[c] = "granted") =>
            Cardinality(Overtaken(c)) + Cardinality(holders' \ {c}) < Capacity]_vars

\* A call that goes on waiting gets its slot, whoever died, stalled or was
\* cancelled before it, in or before the queue: what they left expires.
PatientServed ==
    \A c \in Patient : pc[c] = "ask" ~> pc[c] \in {"granted", "run", "over", "failing", "cancelled"}

-----------------------------------------------------------------------------
(* Inductive invariant, for the proofs                                     *)

\* HealthyKeepSlot, and why: a call takes its entry as it is granted, and a
\* period, a missed renewal and a renewal that is due each cost one of the TTL.
KeepInv ==
    /\ stalled \subseteq hurt
    /\ \A c \in late : pc[c] \in {"cancelled", "over"}
    /\ \A c \in Call :
        /\ pc[c] \in {"idle", "ask", "refused"} => c \notin holders
        /\ pc[c] \in {"idle", "ask", "refused", "granted"} => missed[c] = 0
        /\ pc[c] = "granted" /\ c \notin hurt => c \in holders /\ left[c] = Ttl
        /\ Healthy(c) => /\ c \in holders
                         /\ left[c] + missed[c] + (IF c \in due THEN 1 ELSE 0) = Ttl

\* What ServedInOrder rests on: who was refused and never stuck stands in the
\* queue, and no purge of a later script takes the place.
Queued == \A b \in Call : pc[b] = "refused" /\ b \notin hurt => b \in waiters \ stale

=============================================================================
