--------------------------- MODULE LLMGate_proofs ---------------------------
(***************************************************************************)
(* Theorems about LLMGate for every set of calls, classes, capacity and    *)
(* TTL, and every number of disturbances.                                  *)
(***************************************************************************)
EXTENDS LLMGate, FiniteSetTheorems, TLAPS

\* What one run of the acquire script does to the sorted sets.
LEMMA ScriptTypes ==
    ASSUME TypeOK, NEW c \in Call, NEW granted \in BOOLEAN, Script(c, granted)
    PROVE  /\ holders' \subseteq Call /\ waiters' \subseteq Call \ holders'
           /\ stale' \subseteq waiters' /\ left' \in [Call -> 0..Ttl]
BY GateAssumption DEF TypeOK, Script, Expired, DeadWaiters, QueueAfter

\* Every variable keeps its type: in particular no token is a holder and a
\* waiter at once, and renewals run for running calls only.
THEOREM TypeCorrect == Spec => []TypeOK
<1>1. Init => TypeOK
  BY GateAssumption DEF Init, TypeOK
<1>2. TypeOK /\ [Next]_vars => TypeOK'
  <2> SUFFICES ASSUME TypeOK, [Next]_vars PROVE TypeOK'
    OBVIOUS
  <2> USE GateAssumption DEF Disturb, Discarding
  <2>1. ASSUME NEW c \in Call, Ask(c) PROVE TypeOK'
    <3>1. IsFiniteSet({b \in Call : pc[b] # "idle"})
      BY FS_Subset
    <3>2. Cardinality({b \in Call : pc[b] # "idle"}) \in Nat
      BY <3>1, FS_CardinalityType
    <3>3. QED
      BY <2>1, <3>2 DEF Ask, TypeOK, zsets
  <2>2. ASSUME NEW c \in Call, Poll(c) PROVE TypeOK'
    <3>1. PICK granted \in BOOLEAN : Script(c, granted) /\ pc' = [pc EXCEPT ![c] = IF granted THEN "granted" ELSE "refused"]
      BY <2>2 DEF Poll
    <3>2. QED
      BY <2>2, <3>1, ScriptTypes DEF Poll, Polls, TypeOK
  <2>3. ASSUME NEW c \in Call, PollFails(c) PROVE TypeOK'
    <3>1. /\ holders' \subseteq Call /\ waiters' \subseteq Call \ holders'
          /\ stale' \subseteq waiters' /\ left' \in [Call -> 0..Ttl]
      <4>1. CASE UNCHANGED zsets
        BY <4>1 DEF zsets, TypeOK
      <4>2. CASE \E granted \in BOOLEAN : Script(c, granted)
        BY <4>2, ScriptTypes
      <4>3. UNCHANGED zsets \/ \E granted \in BOOLEAN : Script(c, granted)
        BY <2>3 DEF PollFails
      <4>4. QED
        BY <4>1, <4>2, <4>3
    <3>2. due' \subseteq loops' /\ loops' \subseteq {b \in Call : pc'[b] = "run"}
      BY <2>3 DEF PollFails, Polls, TypeOK
    <3>3. pc' \in [Call -> {"idle", "ask", "refused", "granted", "run", "over"} \cup Discarding]
      BY <2>3 DEF PollFails, TypeOK
    <3>4. QED
      BY <2>3, <3>1, <3>2, <3>3 DEF PollFails, TypeOK
  <2>4. ASSUME NEW c \in Call, LatePoll(c) PROVE TypeOK'
    <3>1. PICK granted \in BOOLEAN : Script(c, granted)
      BY <2>4 DEF LatePoll
    <3>2. QED
      BY <2>4, <3>1, ScriptTypes DEF LatePoll, TypeOK, callVars
  <2>5. ASSUME NEW c \in Call, Receive(c) \/ GiveUp(c) \/ Cancel(c) PROVE TypeOK'
    BY <2>5 DEF Receive, GiveUp, Cancel, TypeOK, zsets
  <2>6. ASSUME NEW c \in Call, Discard(c) PROVE TypeOK'
    BY <2>6 DEF Discard, TypeOK
  <2>7. ASSUME NEW c \in Call, Renew(c) \/ RenewFails(c) PROVE TypeOK'
    BY <2>7 DEF Renew, RenewFails, TypeOK, zsets
  <2>8. ASSUME NEW c \in Call, Finish(c) \/ Ungated(c) \/ Crash(c) PROVE TypeOK'
    BY <2>8 DEF Finish, Ungated, Crash, TypeOK, zsets
  <2>9. ASSUME NEW c \in Call, Stall(c) \/ Unstall(c) PROVE TypeOK'
    BY <2>9 DEF Stall, Unstall, TypeOK, zsets
  <2>10. CASE Tick
    BY <2>10 DEF Tick, TypeOK
  <2>11. CASE UNCHANGED vars
    BY <2>11 DEF vars, callVars, zsets, TypeOK
  <2>12. QED
    BY <2>1, <2>2, <2>3, <2>4, <2>5, <2>6, <2>7, <2>8, <2>9, <2>10, <2>11 DEF Next
<1>3. QED
  BY <1>1, <1>2, PTL DEF Spec

-----------------------------------------------------------------------------
(* The capacity                                                            *)

\* Fewer holders never count for more.
LEMMA FewerHolders ==
    ASSUME TypeOK, NEW S, S \subseteq holders
    PROVE  /\ IsFiniteSet(S) /\ Cardinality(S) \in Nat
           /\ Cardinality(S) <= Cardinality(holders)
<1>1. IsFiniteSet(holders)
  BY GateAssumption, FS_Subset DEF TypeOK
<1>2. QED
  BY <1>1, FS_Subset, FS_CardinalityType

\* The script grants only what is free.
LEMMA ScriptBounded ==
    ASSUME TypeOK, SlotsBounded, NEW c \in Call, NEW granted \in BOOLEAN, Script(c, granted)
    PROVE  SlotsBounded'
<1> DEFINE held  == holders \ Expired
           queue == (waiters \ DeadWaiters) \cup (IF c \in held THEN {} ELSE {c})
           ahead == {b \in queue : Before(b, c)}
<1>1. IsFiniteSet(held) /\ Cardinality(held) \in Nat /\ Cardinality(held) <= Capacity
  <2>1. Cardinality(holders) \in Nat
    BY FewerHolders
  <2>2. QED
    BY <2>1, FewerHolders, GateAssumption DEF SlotsBounded
<1>2. CASE holders' = held
  BY <1>1, <1>2 DEF SlotsBounded
<1>3. CASE granted /\ c \notin held
  <2>1. IsFiniteSet(ahead) /\ Cardinality(ahead) \in Nat
    <3>1. ahead \subseteq Call
      BY DEF TypeOK
    <3>2. QED
      BY <3>1, GateAssumption, FS_Subset, FS_CardinalityType
  <2>2. Cardinality(ahead) < Capacity - Cardinality(held)
    BY <1>3 DEF Script, Fits
  <2>3. Cardinality(held \cup {c}) = Cardinality(held) + 1
    BY <1>1, <1>3, FS_AddElement
  <2>4. holders' = held \cup {c}
    BY <1>3 DEF Script
  <2>5. QED
    BY <1>1, <2>1, <2>2, <2>3, <2>4, GateAssumption DEF SlotsBounded
<1>4. QED
  BY <1>2, <1>3 DEF Script

\* There are never more holders than the capacity.
THEOREM SlotsBoundedHolds == Spec => []SlotsBounded
<1>1. Init => SlotsBounded
  BY GateAssumption, FS_EmptySet DEF Init, SlotsBounded
<1>2. TypeOK /\ SlotsBounded /\ [Next]_vars => SlotsBounded'
  <2> SUFFICES ASSUME TypeOK, SlotsBounded, [Next]_vars PROVE SlotsBounded'
    OBVIOUS
  <2>1. ASSUME holders' \subseteq holders PROVE SlotsBounded'
    <3>1. Cardinality(holders) \in Nat
      BY FewerHolders
    <3>2. QED
      BY <2>1, <3>1, FewerHolders, GateAssumption DEF SlotsBounded
  <2>2. ASSUME NEW c \in Call, Poll(c) \/ LatePoll(c) PROVE SlotsBounded'
    BY <2>2, ScriptBounded DEF Poll, LatePoll
  <2>3. ASSUME NEW c \in Call, PollFails(c) PROVE SlotsBounded'
    BY <2>1, <2>3, ScriptBounded DEF PollFails, zsets
  <2>4. ASSUME NEW c \in Call,
               \/ Ask(c) \/ Receive(c) \/ GiveUp(c) \/ Cancel(c) \/ Discard(c) \/ Renew(c)
               \/ RenewFails(c) \/ Finish(c) \/ Ungated(c) \/ Crash(c) \/ Stall(c) \/ Unstall(c)
        PROVE  holders' \subseteq holders
    BY <2>4 DEF Ask, Receive, GiveUp, Cancel, Discard, Renew, RenewFails, Finish,
                Ungated, Crash, Stall, Unstall, zsets
  <2>5. ASSUME Tick \/ UNCHANGED vars PROVE holders' \subseteq holders
    BY <2>5 DEF Tick, vars, zsets
  <2>6. QED
    BY <2>1, <2>2, <2>3, <2>4, <2>5 DEF Next
<1>3. QED
  BY <1>1, <1>2, TypeCorrect, PTL DEF Spec

-----------------------------------------------------------------------------
(* The renewal                                                             *)

\* The script purges no entry that has time left, and adds only the caller's.
LEMMA ScriptKeeps ==
    ASSUME TypeOK, NEW c \in Call, NEW granted \in BOOLEAN, Script(c, granted)
    PROVE  /\ \A b \in Call : b \in holders /\ left[b] > 0 => b \in holders' /\ left'[b] = left[b]
           /\ \A b \in Call : b # c /\ b \notin holders => b \notin holders'
           /\ ~granted => c \notin holders'
           /\ granted /\ c \notin holders => c \in holders' /\ left'[c] = Ttl
<1> DEFINE held == holders \ Expired
<1>1. \A b \in Call : b \in holders /\ left[b] > 0 => b \in held
  BY DEF Expired
<1>2. held \subseteq holders /\ (granted => holders' = held \cup {c}) /\ (~granted => holders' = held)
  BY DEF Script
<1>3. ~granted => c \notin held
  BY DEF Script
<1>4. \A b \in Call : b \in held => left'[b] = left[b]
  BY DEF Script, TypeOK
<1>5. granted /\ c \notin holders => left'[c] = Ttl
  BY DEF Script, TypeOK
<1>6. QED
  BY <1>1, <1>2, <1>3, <1>4, <1>5

\* Every step keeps KeepInv: time does not pass over a due renewal.
LEMMA KeepInvInductive == TypeOK /\ TypeOK' /\ KeepInv /\ [Next]_vars => KeepInv'
<1> SUFFICES ASSUME TypeOK, TypeOK', KeepInv, [Next]_vars PROVE KeepInv'
  OBVIOUS
<1> USE GateAssumption DEF Disturb, Discarding
<1>s. ASSUME NEW c \in Call, NEW granted \in BOOLEAN, Script(c, granted),
             UNCHANGED <<loops, due, missed, stalled, hurt>>,
             \/ pc[c] \in {"ask", "refused"} /\ late' = late
                /\ pc' = [pc EXCEPT ![c] = IF granted THEN "granted" ELSE "refused"]
             \/ pc[c] \in {"ask", "refused"} /\ late' = late /\ pc' = [pc EXCEPT ![c] = "failing"]
             \/ c \in late /\ late' \subseteq late /\ pc' = pc
      PROVE  KeepInv'
  <2>1. \A b \in Call : Healthy(b) => left[b] > 0
    BY DEF KeepInv, Healthy, TypeOK
  <2>2. \A b \in Call : pc[b] = "granted" /\ b \notin hurt => left[b] > 0
    BY DEF KeepInv
  <2>3. QED
    BY <1>s, <2>1, <2>2, ScriptKeeps DEF KeepInv, Healthy, TypeOK
<1>1. ASSUME NEW c \in Call, Ask(c) PROVE KeepInv'
  BY <1>1 DEF KeepInv, Healthy, TypeOK, Ask, zsets
<1>2. ASSUME NEW c \in Call, Poll(c) PROVE KeepInv'
  BY <1>2, <1>s DEF Poll, Polls
<1>3. ASSUME NEW c \in Call, PollFails(c) PROVE KeepInv'
  <2>1. CASE UNCHANGED zsets
    BY <1>3, <2>1 DEF PollFails, Polls, KeepInv, Healthy, TypeOK, zsets
  <2>2. CASE \E granted \in BOOLEAN : Script(c, granted)
    BY <1>3, <2>2, <1>s DEF PollFails, Polls
  <2>3. QED
    BY <1>3, <2>1, <2>2 DEF PollFails
<1>4. ASSUME NEW c \in Call, LatePoll(c) PROVE KeepInv'
  BY <1>4, <1>s DEF LatePoll, callVars
<1>5. ASSUME NEW c \in Call, Receive(c) PROVE KeepInv'
  BY <1>5 DEF KeepInv, Healthy, TypeOK, Receive, zsets
<1>6. ASSUME NEW c \in Call, GiveUp(c) \/ Cancel(c) PROVE KeepInv'
  BY <1>6 DEF KeepInv, Healthy, TypeOK, GiveUp, Cancel, zsets
<1>7. ASSUME NEW c \in Call, Discard(c) PROVE KeepInv'
  BY <1>7 DEF KeepInv, Healthy, TypeOK, Discard
<1>8. ASSUME NEW c \in Call, Renew(c) PROVE KeepInv'
  BY <1>8 DEF KeepInv, Healthy, TypeOK, Renew
<1>9. ASSUME NEW c \in Call, RenewFails(c) PROVE KeepInv'
  BY <1>9 DEF KeepInv, Healthy, TypeOK, RenewFails, zsets
<1>10. ASSUME NEW c \in Call, Finish(c) \/ Ungated(c) \/ Crash(c) PROVE KeepInv'
  BY <1>10 DEF KeepInv, Healthy, TypeOK, Finish, Ungated, Crash, zsets
<1>11. ASSUME NEW c \in Call, Stall(c) \/ Unstall(c) PROVE KeepInv'
  BY <1>11 DEF KeepInv, Healthy, TypeOK, Stall, Unstall, zsets
<1>12. CASE Tick
  BY <1>12 DEF KeepInv, Healthy, TypeOK, Tick
<1>13. CASE UNCHANGED vars
  BY <1>13 DEF KeepInv, Healthy, vars, callVars, zsets
<1>14. QED
  BY <1>1, <1>2, <1>3, <1>4, <1>5, <1>6, <1>7, <1>8, <1>9, <1>10, <1>11, <1>12, <1>13 DEF Next

\* A call whose loop is not stuck and whose renewals do not fail for too long
\* never loses its slot to a purge.
THEOREM HealthyKeepSlotHolds == Spec => []HealthyKeepSlot
<1>1. Init => KeepInv
  BY DEF Init, KeepInv, Healthy
<1>2. TypeOK /\ KeepInv => HealthyKeepSlot
  BY GateAssumption DEF TypeOK, KeepInv, HealthyKeepSlot, Healthy
<1>3. QED
  BY <1>1, <1>2, KeepInvInductive, TypeCorrect, PTL DEF Spec

-----------------------------------------------------------------------------
(* The order                                                               *)

\* The script purges no waiter that was seen, and takes only the caller out
\* of the queue; refused, the caller is in it.
LEMMA ScriptQueues ==
    ASSUME TypeOK, NEW c \in Call, NEW granted \in BOOLEAN, Script(c, granted)
    PROVE  /\ \A b \in waiters \ stale : b # c => b \in waiters' \ stale'
           /\ ~granted => c \in waiters' \ stale'
<1> DEFINE held  == holders \ Expired
           queue == (waiters \ DeadWaiters) \cup (IF c \in held THEN {} ELSE {c})
<1>1. stale' = {}
  BY DEF Script, DeadWaiters
<1>2. waiters' = IF granted THEN queue \ {c} ELSE queue
  BY DEF Script, QueueAfter
<1>3. ~granted => c \notin held
  BY DEF Script
<1>4. QED
  BY <1>1, <1>2, <1>3 DEF DeadWaiters

\* Only a script run for a call changes who waits, and it keeps the others;
\* a call that was cancelled or died was not refused and waiting.
LEMMA QueuedInductive == TypeOK /\ KeepInv /\ Queued /\ [Next]_vars => Queued'
<1> SUFFICES ASSUME TypeOK, KeepInv, Queued, [Next]_vars PROVE Queued'
  OBVIOUS
<1> USE DEF Disturb, Discarding
<1>1. ASSUME NEW c \in Call, Poll(c) PROVE Queued'
  <2>1. PICK granted \in BOOLEAN : /\ Script(c, granted)
                                   /\ pc' = [pc EXCEPT ![c] = IF granted THEN "granted" ELSE "refused"]
    BY <1>1 DEF Poll
  <2>2. QED
    BY <1>1, <2>1, ScriptQueues DEF Poll, Queued, TypeOK
<1>2. ASSUME NEW c \in Call, PollFails(c) PROVE Queued'
  <2>1. \A b \in waiters \ stale : b # c => b \in waiters' \ stale'
    BY <1>2, ScriptQueues DEF PollFails, zsets
  <2>2. QED
    BY <1>2, <2>1 DEF PollFails, Queued, TypeOK
<1>3. ASSUME NEW c \in Call, LatePoll(c) PROVE Queued'
  <2>1. pc[c] # "refused" /\ pc' = pc /\ hurt' = hurt
    BY <1>3 DEF LatePoll, KeepInv, callVars
  <2>2. \A b \in waiters \ stale : b # c => b \in waiters' \ stale'
    BY <1>3, ScriptQueues DEF LatePoll
  <2>3. QED
    BY <2>1, <2>2 DEF Queued
<1>4. ASSUME NEW c \in Call,
             \/ Ask(c) \/ Receive(c) \/ GiveUp(c) \/ Cancel(c) \/ RenewFails(c) \/ Finish(c)
             \/ Ungated(c) \/ Crash(c) \/ Stall(c) \/ Unstall(c)
      PROVE  Queued'
  BY <1>4 DEF Ask, Receive, GiveUp, Cancel, RenewFails, Finish, Ungated, Crash, Stall, Unstall,
              Queued, TypeOK, zsets
<1>5. ASSUME NEW c \in Call, Discard(c) PROVE Queued'
  BY <1>5 DEF Discard, Queued, TypeOK
<1>6. ASSUME NEW c \in Call, Renew(c) PROVE Queued'
  BY <1>6 DEF Renew, Queued
<1>7. CASE Tick
  BY <1>7 DEF Tick, Seen, Polls, Queued, KeepInv
<1>8. CASE UNCHANGED vars
  BY <1>8 DEF Queued, vars, callVars, zsets
<1>9. QED
  BY <1>1, <1>2, <1>3, <1>4, <1>5, <1>6, <1>7, <1>8 DEF Next

\* When the script grants, those it overtakes are among the waiters that it
\* counted, and what others hold is what it counted as taken.
LEMMA GrantIsInOrder ==
    ASSUME TypeOK, KeepInv, Queued, NEW c \in Call, Polls(c), Script(c, TRUE)
    PROVE  Cardinality(Overtaken(c)) + Cardinality(holders' \ {c}) < Capacity
<1> DEFINE held  == holders \ Expired
           queue == (waiters \ DeadWaiters) \cup (IF c \in held THEN {} ELSE {c})
           ahead == {b \in queue : Before(b, c)}
<1>1. c \notin held
  BY DEF KeepInv, Polls
<1>2. Cardinality(ahead) < Capacity - Cardinality(held)
  BY <1>1 DEF Script, Fits
<1>3. holders' \ {c} = held
  BY <1>1 DEF Script
<1>4. Overtaken(c) \subseteq ahead
  BY DEF Overtaken, Queued, DeadWaiters
<1>5. ahead \subseteq Call
  BY DEF TypeOK
<1>6. IsFiniteSet(held) /\ Cardinality(held) \in Nat
  BY FewerHolders
<1>7. IsFiniteSet(ahead)
  BY <1>5, GateAssumption, FS_Subset
<1> HIDE DEF held, ahead
<1>8. /\ Cardinality(ahead) \in Nat /\ Cardinality(Overtaken(c)) \in Nat
      /\ Cardinality(Overtaken(c)) <= Cardinality(ahead)
  BY <1>4, <1>7, FS_Subset, FS_CardinalityType
<1>9. QED
  BY <1>2, <1>3, <1>6, <1>8, GateAssumption

\* A call is granted a slot only when there is one for each of the refused
\* that come before it and for itself, whoever died or was purged.
THEOREM ServedInOrderHolds == Spec => ServedInOrder
<1>1. Init => KeepInv /\ Queued
  BY DEF Init, KeepInv, Healthy, Queued
<1>2. TypeOK /\ KeepInv /\ Queued /\ [Next]_vars =>
          [\A c \in Call : (pc[c] # "granted" /\ pc'[c] = "granted") =>
              Cardinality(Overtaken(c)) + Cardinality(holders' \ {c}) < Capacity]_vars
  <2> SUFFICES ASSUME TypeOK, KeepInv, Queued, Next,
                      NEW c \in Call, pc[c] # "granted", pc'[c] = "granted"
               PROVE  Cardinality(Overtaken(c)) + Cardinality(holders' \ {c}) < Capacity
    OBVIOUS
  <2>1. Poll(c)
    BY DEF Next, Ask, Poll, Receive, GiveUp, Cancel, PollFails, LatePoll, Discard, Renew,
           RenewFails, Finish, Ungated, Crash, Stall, Unstall, Tick, TypeOK, callVars
  <2>2. Polls(c) /\ Script(c, TRUE)
    <3>1. PICK granted \in BOOLEAN : /\ Script(c, granted)
                                     /\ pc' = [pc EXCEPT ![c] = IF granted THEN "granted" ELSE "refused"]
      BY <2>1 DEF Poll
    <3>2. granted = TRUE
      BY <3>1 DEF TypeOK
    <3>3. QED
      BY <2>1, <3>1, <3>2 DEF Poll
  <2>3. QED
    BY <2>2, GrantIsInOrder
<1>3. QED
  BY <1>1, <1>2, KeepInvInductive, QueuedInductive, TypeCorrect, PTL DEF Spec, ServedInOrder

=============================================================================
