------------------------------ MODULE Throttle ------------------------------
(***************************************************************************)
(* The leading-and-trailing throttle of core/pubsub.py: publishes of one   *)
(* throttle key, by the tasks of several processes.  The key in Valkey     *)
(* marks the window; each process keeps at most one trailing publish.      *)
(*                                                                         *)
(* A Valkey command runs at the server in one action, and the task that    *)
(* sent it goes on in a later one: other tasks of its process, and other   *)
(* processes, may come between.                                            *)
(***************************************************************************)
EXTENDS Naturals, FiniteSets

CONSTANTS
    Call,      \* the publishes, each by its own task
    Process,
    Home,      \* the process of each
    Status,    \* the publishes that are never throttled (a status change)
    Faults,    \* the disturbances a run allows
    MaxFaults  \* bound on how many of them happen

ASSUME ThrottleAssumption ==
    /\ IsFiniteSet(Call)
    /\ Home \in [Call -> Process]
    /\ Status \subseteq Call
    /\ MaxFaults \in Nat

VARIABLES
    pc,        \* the publishing tasks
    value,     \* the order of the values they publish; 0 before
    trail,     \* _TRAILING, and how far its task is
    stopped,   \* processes whose loop has ended
    window,    \* whether the key is there
    outgoing,  \* publishes that are being sent
    \* history
    sent,      \* the newest value that reached the subscribers
    covered,   \* publishes that began before a message was sent
    overlapped, \* publishes that ran while another of their process did
    faults

history == <<sent, covered, overlapped, faults>>
vars    == <<pc, value, trail, stopped, window, outgoing, history>>

NoTrail == [st |-> "none", msg |-> 0]
Value   == 0..Cardinality(Call)

Init ==
    /\ pc = [c \in Call |-> "idle"]
    /\ value = [c \in Call |-> 0]
    /\ trail = [p \in Process |-> NoTrail]
    /\ stopped = {} /\ outgoing = {} /\ covered = {} /\ overlapped = {}
    /\ window = FALSE /\ sent = 0 /\ faults = 0

Disturb(kind) ==
    /\ kind \in Faults
    /\ faults < MaxFaults
    /\ faults' = faults + 1

Started == {c \in Call : pc[c] # "idle"}

\* The other publishes that c's process has under way.
Alongside(c) == {d \in Call : Home[d] = Home[c] /\ pc[d] \in {"ask", "won", "refused"}} \ {c}

\* SET NX PX at the server.
TakeWindow(got) ==
    /\ got = ~window
    /\ window' = TRUE

-----------------------------------------------------------------------------
(* A publish                                                               *)

\* publish_campaign_event(id=None) or publish_job(progress_only=True).
Publish(c) ==
    /\ pc[c] = "idle" /\ c \notin Status /\ Home[c] \notin stopped
    /\ value' = [value EXCEPT ![c] = Cardinality(Started) + 1]
    /\ pc' = [pc EXCEPT ![c] = "ask"]
    /\ overlapped' = IF Alongside(c) = {} THEN overlapped ELSE overlapped \cup Alongside(c) \cup {c}
    /\ UNCHANGED <<trail, stopped, window, outgoing, sent, covered, faults>>

\* publish_job of a status change: drops the trail, and is sent.
PublishStatus(c) ==
    /\ pc[c] = "idle" /\ c \in Status /\ Home[c] \notin stopped
    /\ value' = [value EXCEPT ![c] = Cardinality(Started) + 1]
    /\ pc' = [pc EXCEPT ![c] = "over"]
    /\ trail' = [trail EXCEPT ![Home[c]] = NoTrail]
    /\ outgoing' = outgoing \cup {Cardinality(Started) + 1}
    /\ overlapped' = overlapped \cup Alongside(c)
    /\ UNCHANGED <<stopped, window, sent, covered, faults>>

\* _acquire at the server, or its failure: then nothing is published.
Acquire(c) ==
    /\ pc[c] = "ask"
    /\ \/ /\ \E got \in BOOLEAN :
              /\ TakeWindow(got)
              /\ pc' = [pc EXCEPT ![c] = IF got THEN "won" ELSE "refused"]
          /\ UNCHANGED faults
       \/ /\ Disturb("lose")
          /\ \/ UNCHANGED window
             \/ \E got \in BOOLEAN : TakeWindow(got)
          /\ pc' = [pc EXCEPT ![c] = "over"]
    /\ UNCHANGED <<value, trail, stopped, outgoing, sent, covered, overlapped>>

\* The window is this publish's: it is newer than any pending trail.
Lead(c) ==
    /\ pc[c] = "won"
    /\ trail' = [trail EXCEPT ![Home[c]] = NoTrail]
    /\ outgoing' = outgoing \cup {value[c]}
    /\ pc' = [pc EXCEPT ![c] = "over"]
    /\ UNCHANGED <<value, stopped, window, history>>

\* The trailing edge keeps the latest.
TrailMessage(old, new) == new

\* The window is taken: the value waits in the process's trail.
Follow(c) ==
    LET p   == Home[c]
        old == trail[p]
    IN
    /\ pc[c] = "refused"
    /\ trail' = [trail EXCEPT ![p] =
                    [st |-> IF old.st = "none" THEN "new" ELSE old.st,
                     msg |-> TrailMessage(old, value[c])]]
    /\ pc' = [pc EXCEPT ![c] = "over"]
    /\ UNCHANGED <<value, stopped, window, outgoing, history>>

-----------------------------------------------------------------------------
(* The trailing publish                                                    *)

\* _run_trail reads the key's PTTL and sleeps that long.
Sleep(p) ==
    /\ trail[p].st = "new"
    /\ trail' = [trail EXCEPT ![p].st = IF window THEN "sleep" ELSE "awake"]
    /\ UNCHANGED <<pc, value, stopped, window, outgoing, history>>

\* The window it slept through is over: it tries to take the next.
Wake(p) ==
    /\ trail[p].st = "awake"
    /\ \E got \in BOOLEAN :
        /\ TakeWindow(got)
        /\ trail' = [trail EXCEPT ![p].st = IF got THEN "won" ELSE "refused"]
    /\ UNCHANGED <<pc, value, stopped, outgoing, history>>

\* A trail that is over leaves _TRAILING.
TrailOver(p) == NoTrail

\* The trail is over: sent, or dropped because a newer publish has the window.
Trail(p) ==
    /\ trail[p].st \in {"won", "refused"}
    /\ outgoing' = IF trail[p].st = "won" THEN outgoing \cup {trail[p].msg} ELSE outgoing
    /\ trail' = [trail EXCEPT ![p] = TrailOver(p)]
    /\ UNCHANGED <<pc, value, stopped, window, history>>

\* Valkey fails it: dropped.
TrailFails(p) ==
    /\ trail[p].st \in {"new", "sleep", "awake"}
    /\ Disturb("lose")
    /\ trail' = [trail EXCEPT ![p] = NoTrail]
    /\ UNCHANGED <<pc, value, stopped, window, outgoing, sent, covered, overlapped>>

\* mutant: the pending trail is cancelled with the loop
NothingFlushed(p) == {}

\* What flush_pending sends: the pending trail, whatever the window.
Flushed(p) == {trail[p].msg} \ {0}

\* flush_pending, before the process's loop ends.
LoopEnds(p) ==
    /\ p \notin stopped
    /\ \A c \in Call : Home[c] = p => pc[c] \in {"idle", "over"}
    /\ outgoing' = outgoing \cup Flushed(p)
    /\ trail' = [trail EXCEPT ![p] = NoTrail]
    /\ stopped' = stopped \cup {p}
    /\ UNCHANGED <<pc, value, window, history>>

-----------------------------------------------------------------------------
(* Valkey                                                                  *)

\* PUBLISH at the server, or its failure.
Send(m) ==
    /\ m \in outgoing
    /\ outgoing' = outgoing \ {m}
    /\ \/ /\ sent' = IF m > sent THEN m ELSE sent
          /\ covered' = Started
          /\ UNCHANGED faults
       \/ Disturb("lose") /\ UNCHANGED <<sent, covered>>
    /\ UNCHANGED <<pc, value, trail, stopped, window, overlapped>>

\* mutant: the trail sleeps on
NeverWoken(t) == t

\* Its sleep ends with the window.
Woken(t) == IF t.st = "sleep" THEN [t EXCEPT !.st = "awake"] ELSE t

\* The key expires; the trails that slept through the window wake.
WindowEnds ==
    /\ window
    /\ window' = FALSE
    /\ trail' = [p \in Process |-> Woken(trail[p])]
    /\ UNCHANGED <<pc, value, stopped, outgoing, history>>

Next ==
    \/ \E c \in Call : Publish(c) \/ PublishStatus(c) \/ Acquire(c) \/ Lead(c) \/ Follow(c)
    \/ \E p \in Process : Sleep(p) \/ Wake(p) \/ Trail(p) \/ TrailFails(p) \/ LoopEnds(p)
    \/ \E m \in outgoing : Send(m)
    \/ WindowEnds

Spec == Init /\ [][Next]_vars

\* Tasks run on, messages are sent, windows end.
Fairness ==
    /\ \A c \in Call : WF_vars(Acquire(c)) /\ WF_vars(Lead(c)) /\ WF_vars(Follow(c))
    /\ \A p \in Process : WF_vars(Sleep(p)) /\ WF_vars(Wake(p)) /\ WF_vars(Trail(p))
    /\ \A m \in Value : WF_vars(Send(m))
    /\ WF_vars(WindowEnds)

FairSpec == Spec /\ Fairness

-----------------------------------------------------------------------------
(* Properties                                                              *)

\* While Valkey works, the newest of the values that one process publishes one
\* after another (a Job's progress) is never lost: it, or a newer one, is sent
\* in the end, through the races of publishes, status changes, the end of a
\* window and the end of the loop with the trail's own steps (_throttled,
\* _run_trail, flush_pending).
NewestIsSent ==
    \A c \in Call :
        value[c] > 0 ~> (value[c] > 0 /\ (sent >= value[c] \/ c \in overlapped \/ faults > 0))

\* "So the last value is never lost": after a publish of an invalidation some
\* message goes out, so that the subscribers refetch what it announced.
NothingUnannounced ==
    \A c \in Call :
        (pc[c] = "over" /\ faults = 0) =>
            \/ c \in covered
            \/ outgoing # {} \/ \E d \in Call : pc[d] = "won"
            \/ \E p \in Process : trail[p].st # "none"

-----------------------------------------------------------------------------
(* An inductive invariant, for the proof. *)

\* NothingUnannounced, and why it holds of one process: a trail has a message,
\* and what it wakes up to find taken was taken by a publish that is about to be
\* sent, for Lead drops the trail.
Types ==
    /\ pc \in [Call -> {"idle", "ask", "won", "refused", "over"}]
    /\ value \in [Call -> Nat]
    /\ trail \in [Process -> [st : {"none", "new", "sleep", "awake", "won", "refused"}, msg : Nat]]
    /\ window \in BOOLEAN
    /\ faults \in Nat
Numbered == \A c \in Call : pc[c] # "idle" => value[c] > 0
GivesWay ==
    \A p \in Process :
        /\ trail[p].st # "none" => trail[p].msg > 0
        /\ faults = 0 /\ (trail[p].st = "refused" \/ (trail[p].st = "awake" /\ window)) =>
                \E c \in Call : pc[c] = "won"
AnnounceInv == Types /\ Numbered /\ GivesWay /\ NothingUnannounced
=============================================================================
