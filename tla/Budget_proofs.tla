---------------------------- MODULE Budget_proofs ----------------------------
(***************************************************************************)
(* Theorems about Budget for every set of slots and requests, every cost,  *)
(* budget and number of failed loads.                                      *)
(***************************************************************************)
EXTENDS Budget, FiniteSetTheorems, TLAPS

\* A use leaves the order of last_used an order: at most one of two slots is
\* the older one.
LEMMA UsedOrders ==
    ASSUME TypeOK, NEW s \in Slot
    PROVE  /\ Used(s) \subseteq Slot \X Slot
           /\ \A t, u \in Slot : <<t, u>> \in Used(s) => <<u, t>> \notin Used(s)
BY DEF TypeOK, Used, Others

\* Every variable keeps its type; in particular last_used stays an order.
THEOREM TypeCorrect == Spec => []TypeOK
<1>1. Init => TypeOK
  BY BudgetAssumption DEF Init, TypeOK
<1>2. TypeOK /\ [Next]_vars => TypeOK'
  <2> SUFFICES ASSUME TypeOK, [Next]_vars PROVE TypeOK'
    OBVIOUS
  <2> USE BudgetAssumption DEF TypeOK
  <2>1. ASSUME NEW c \in Request, Acquire(c) PROVE TypeOK'
    <3>1. Wants[c] \in Slot
      OBVIOUS
    <3>2. /\ older' \subseteq Slot \X Slot
          /\ \A t, u \in Slot : <<t, u>> \in older' => <<u, t>> \notin older'
      BY <2>1, <3>1, UsedOrders DEF Acquire
    <3>3. loaded' \subseteq Slot /\ reserved' \subseteq Slot
      BY <2>1, <3>1 DEF Acquire
    <3>4. users' \in [Slot -> SUBSET Request]
      BY <2>1, <3>1 DEF Acquire, Entering
    <3>5. QED
      BY <2>1, <3>2, <3>3, <3>4 DEF Acquire
  <2>2. ASSUME NEW c \in Request, Release(c) PROVE TypeOK'
    <3>1. Wants[c] \in Slot
      OBVIOUS
    <3>2. /\ older' \subseteq Slot \X Slot
          /\ \A t, u \in Slot : <<t, u>> \in older' => <<u, t>> \notin older'
      BY <2>2, <3>1, UsedOrders DEF Release
    <3>3. users' \in [Slot -> SUBSET Request] /\ reserved' \subseteq Slot
      BY <2>2, <3>1 DEF Release
    <3>4. QED
      BY <2>2, <3>2, <3>3 DEF Release
  <2>3. ASSUME NEW c \in Request, Lock(c) PROVE TypeOK'
    BY <2>3 DEF Lock
  <2>4. ASSUME NEW c \in Request, LoadFails(c) PROVE TypeOK'
    BY <2>4 DEF LoadFails, Unlocked
  <2>5. ASSUME NEW c \in Request, Refuse(c) \/ Load(c) \/ Serve(c) PROVE TypeOK'
    BY <2>5 DEF Refuse, Load, Serve
  <2>6. CASE UNCHANGED vars
    BY <2>6 DEF vars
  <2>7. QED
    BY <2>1, <2>2, <2>3, <2>4, <2>5, <2>6 DEF Next
<1>3. QED
  BY <1>1, <1>2, PTL DEF Spec

-----------------------------------------------------------------------------
\* UseInv is inductive: it is what each step of a request knows of the others.
LEMMA UseInvInductive ==
    ASSUME TypeOK, UseInv, [Next]_vars
    PROVE  UseInv'
<1> USE BudgetAssumption DEF TypeOK, UseInv, NothingLeaks
<1>1. ASSUME NEW c \in Request, Acquire(c) PROVE UseInv'
  <2> DEFINE s == Wants[c]
  <2>1. /\ s \in Slot /\ pc[c] = "new" /\ UNCHANGED lock
        /\ pc' = [pc EXCEPT ![c] = "wait"]
        /\ users' = [users EXCEPT ![s] = @ \cup {c}]
        /\ loaded' = loaded \ Evicted(s)
        /\ reserved' = (reserved \ Evicted(s)) \cup {s}
    BY <1>1 DEF Acquire, Entering
  <2>2. \A t \in Evicted(s) : t # s /\ users[t] = {}
    BY DEF Evicted, Idle
  <2> HIDE DEF s
  <2>3. \A t \in Slot : users'[t] = {d \in Request : Wants[d] = t /\ pc'[d] \in {"wait", "load", "serve", "release"}}
    BY <2>1 DEF s
  <2>4. \A t \in Slot : lock'[t] # None => Wants[lock'[t]] = t /\ pc'[lock'[t]] \in {"load", "serve"}
    BY <2>1
  <2>5. \A t \in Slot : users'[t] # {} => t \in reserved'
    BY <2>1, <2>2
  <2>6. loaded' \subseteq reserved'
    BY <2>1
  <2>7. \A t \in Slot : users'[t] = {} => (t \in reserved' <=> t \in loaded')
    BY <2>1, <2>2
  <2>8. QED
    BY <2>3, <2>4, <2>5, <2>6, <2>7
<1>2. ASSUME NEW c \in Request, Release(c) PROVE UseInv'
  <2> DEFINE s == Wants[c]
  <2>1. /\ s \in Slot /\ pc[c] = "release" /\ UNCHANGED <<lock, loaded>>
        /\ pc' = [pc EXCEPT ![c] = "over"]
        /\ users' = [users EXCEPT ![s] = @ \ {c}]
        /\ reserved' = reserved \ Dropped(c)
    BY <1>2 DEF Release
  <2>2. Dropped(c) = IF s \notin loaded /\ users[s] = {c} THEN {s} ELSE {}
    BY <2>1 DEF Dropped
  <2>3. c \in users[s]
    BY <2>1
  <2> HIDE DEF s
  <2>4. \A t \in Slot : users'[t] = {d \in Request : Wants[d] = t /\ pc'[d] \in {"wait", "load", "serve", "release"}}
    BY <2>1 DEF s
  <2>5. \A t \in Slot : lock'[t] # None => Wants[lock'[t]] = t /\ pc'[lock'[t]] \in {"load", "serve"}
    BY <2>1
  <2>6. \A t \in Slot : users'[t] # {} => t \in reserved'
    BY <2>1, <2>2, <2>3
  <2>7. loaded' \subseteq reserved'
    BY <2>1, <2>2
  <2>8. \A t \in Slot : users'[t] = {} => (t \in reserved' <=> t \in loaded')
    BY <2>1, <2>2, <2>3
  <2>9. QED
    BY <2>4, <2>5, <2>6, <2>7, <2>8
<1>3. ASSUME NEW c \in Request, Lock(c) PROVE UseInv'
  <2>1. \A t \in Slot : users'[t] = {d \in Request : Wants[d] = t /\ pc'[d] \in {"wait", "load", "serve", "release"}}
    BY <1>3 DEF Lock
  <2>2. \A t \in Slot : lock'[t] # None => Wants[lock'[t]] = t /\ pc'[lock'[t]] \in {"load", "serve"}
    BY <1>3 DEF Lock
  <2>3. QED
    BY <1>3, <2>1, <2>2 DEF Lock
<1>4. ASSUME NEW c \in Request, Load(c) PROVE UseInv'
  <2>1. \A t \in Slot : users'[t] = {d \in Request : Wants[d] = t /\ pc'[d] \in {"wait", "load", "serve", "release"}}
    BY <1>4 DEF Load
  <2>2. \A t \in Slot : lock'[t] # None => Wants[lock'[t]] = t /\ pc'[lock'[t]] \in {"load", "serve"}
    BY <1>4 DEF Load
  <2>3. Wants[c] \in Slot /\ c \in users[Wants[c]]
    BY <1>4 DEF Load
  <2>4. QED
    BY <1>4, <2>1, <2>2, <2>3 DEF Load
<1>5. ASSUME NEW c \in Request, LoadFails(c) \/ Serve(c) PROVE UseInv'
  <2>1. \A t \in Slot : users'[t] = {d \in Request : Wants[d] = t /\ pc'[d] \in {"wait", "load", "serve", "release"}}
    BY <1>5 DEF LoadFails, Serve
  <2>2. \A t \in Slot : lock'[t] # None => Wants[lock'[t]] = t /\ pc'[lock'[t]] \in {"load", "serve"}
    BY <1>5 DEF LoadFails, Serve, Unlocked
  <2>3. QED
    BY <1>5, <2>1, <2>2 DEF LoadFails, Serve
<1>6. ASSUME NEW c \in Request, Refuse(c) PROVE UseInv'
  <2>1. \A t \in Slot : users'[t] = {d \in Request : Wants[d] = t /\ pc'[d] \in {"wait", "load", "serve", "release"}}
    BY <1>6 DEF Refuse
  <2>2. \A t \in Slot : lock'[t] # None => Wants[lock'[t]] = t /\ pc'[lock'[t]] \in {"load", "serve"}
    BY <1>6 DEF Refuse
  <2>3. QED
    BY <1>6, <2>1, <2>2 DEF Refuse
<1>7. CASE UNCHANGED vars
  BY <1>7 DEF vars
<1>8. QED
  BY <1>1, <1>2, <1>3, <1>4, <1>5, <1>6, <1>7 DEF Next

\* Whatever loads fail, wait, are retried or evicted: an unused slot is charged
\* for exactly when it holds its model (budget.py, release).
THEOREM NothingLeaksHolds == Spec => []NothingLeaks
<1>1. Init => UseInv
  BY DEF Init, UseInv, NothingLeaks
<1>2. TypeOK /\ UseInv /\ [Next]_vars => UseInv'
  BY UseInvInductive
<1>3. UseInv => NothingLeaks
  BY DEF UseInv
<1>4. QED
  BY TypeCorrect, <1>1, <1>2, <1>3, PTL DEF Spec

\* An eviction, which holds the budget lock, finds the slot's lock free: no
\* request waits for the two locks in opposite orders (budget.py, "Locking").
THEOREM EvictionNeverWaitsHolds == Spec => []EvictionNeverWaits
<1>1. Init => UseInv
  BY DEF Init, UseInv, NothingLeaks
<1>2. TypeOK /\ UseInv /\ [Next]_vars => UseInv'
  BY UseInvInductive
<1>3. TypeOK /\ UseInv => EvictionNeverWaits
  BY BudgetAssumption DEF UseInv, EvictionNeverWaits, TypeOK
<1>4. QED
  BY TypeCorrect, <1>1, <1>2, <1>3, PTL DEF Spec

-----------------------------------------------------------------------------
(* The cost of sets of slots.                                              *)

\* The megabytes of some slots are finitely many.
LEMMA TotalIsNat ==
    ASSUME NEW slots \in SUBSET Slot
    PROVE  IsFiniteSet(Megabytes(slots)) /\ Total(slots) \in Nat
<1> DEFINE all == {{s} \X (1..Cost[s]) : s \in slots}
           f == [s \in slots |-> {s} \X (1..Cost[s])]
<1>1. IsFiniteSet(slots)
  BY BudgetAssumption, FS_Subset
<1>2. f \in Surjection(slots, all)
  BY DEF Surjection
<1> HIDE DEF f
<1>3. IsFiniteSet(all)
  BY ONLY <1>1, <1>2, FS_Surjection
<1>4. ASSUME NEW s \in slots
      PROVE  IsFiniteSet({s} \X (1..Cost[s]))
  <2>1. 1 \in Int /\ Cost[s] \in Int
    BY BudgetAssumption
  <2>2. IsFiniteSet({s}) /\ IsFiniteSet(1..Cost[s])
    BY ONLY <2>1, FS_Singleton, FS_Interval
  <2> QED BY ONLY <2>2, FS_Product
<1>5. \A x \in all : IsFiniteSet(x)
  BY <1>4
<1>6. IsFiniteSet(UNION all)
  BY ONLY <1>3, <1>5, FS_UNION
<1> QED BY <1>6, FS_CardinalityType DEF Megabytes, Total

\* More slots cost more, and what is taken away is no longer paid for.
LEMMA TotalGrows ==
    ASSUME NEW a \in SUBSET Slot, NEW b \in SUBSET Slot, a \subseteq b
    PROVE  Total(a) <= Total(b) /\ Total(b \ a) = Total(b) - Total(a)
<1>1. IsFiniteSet(Megabytes(a)) /\ IsFiniteSet(Megabytes(b)) /\ Total(a) \in Nat /\ Total(b) \in Nat
  BY TotalIsNat
<1>2. Megabytes(a) \in SUBSET Megabytes(b)
  BY DEF Megabytes
<1>3. Megabytes(b \ a) = Megabytes(b) \ Megabytes(a)
  BY DEF Megabytes
<1>4. Megabytes(b) \cap Megabytes(a) = Megabytes(a)
  BY <1>2
<1>5. Cardinality(Megabytes(a)) <= Cardinality(Megabytes(b))
  BY ONLY <1>1, <1>2, FS_Subset
<1>6. Cardinality(Megabytes(b) \ Megabytes(a)) = Cardinality(Megabytes(b)) - Cardinality(Megabytes(a))
  <2>1. Cardinality(Megabytes(b) \ Megabytes(a)) = Cardinality(Megabytes(b)) - Cardinality(Megabytes(b) \cap Megabytes(a))
    BY ONLY <1>1, FS_Difference
  <2> QED BY ONLY <2>1, <1>4
<1> QED BY <1>3, <1>5, <1>6 DEF Total

\* One slot more costs at most its cost more.
LEMMA TotalOfOneMore ==
    ASSUME NEW a \in SUBSET Slot, NEW s \in Slot
    PROVE  Total(a \cup {s}) <= Total(a) + Cost[s]
<1> DEFINE own == {s} \X (1..Cost[s])
<1>1. Megabytes(a \cup {s}) = Megabytes(a) \cup own
  BY DEF Megabytes
<1>2. IsFiniteSet(own) /\ Cardinality(own) = Cost[s]
  <2>1. 1 \in Int /\ Cost[s] \in Int /\ Cost[s] >= 1
    BY BudgetAssumption
  <2>2. IsFiniteSet({s}) /\ Cardinality({s}) = 1
    BY ONLY FS_Singleton
  <2>3. IsFiniteSet(1..Cost[s]) /\ Cardinality(1..Cost[s]) = IF 1 > Cost[s] THEN 0 ELSE Cost[s] - 1 + 1
    BY ONLY <2>1, FS_Interval
  <2>4. Cardinality(1..Cost[s]) = Cost[s]
    BY <2>1, <2>3
  <2>5. IsFiniteSet(own) /\ Cardinality(own) = Cardinality({s}) * Cardinality(1..Cost[s])
    BY ONLY <2>2, <2>3, FS_Product
  <2> QED BY ONLY <2>1, <2>2, <2>4, <2>5
<1> HIDE DEF own
<1>3. IsFiniteSet(Megabytes(a)) /\ Total(a) \in Nat
  BY TotalIsNat
<1>4. Cardinality(Megabytes(a) \cup own)
        = Cardinality(Megabytes(a)) + Cardinality(own) - Cardinality(Megabytes(a) \cap own)
  BY ONLY <1>2, <1>3, FS_Union
<1>5. Cardinality(Megabytes(a) \cap own) \in Nat
  <2>1. Megabytes(a) \cap own \in SUBSET Megabytes(a)
    OBVIOUS
  <2>2. IsFiniteSet(Megabytes(a) \cap own)
    BY ONLY <1>3, <2>1, FS_Subset
  <2> QED BY ONLY <2>2, FS_CardinalityType
<1>6. Total(a \cup {s}) = Total(a) + Cost[s] - Cardinality(Megabytes(a) \cap own)
  BY <1>1, <1>2, <1>4 DEF Total
<1>7. Cost[s] \in Nat
  BY BudgetAssumption
<1> QED BY ONLY <1>3, <1>5, <1>6, <1>7

-----------------------------------------------------------------------------
(* An eviction frees what is lacking.                                      *)

\* Of the idle slots that stay, one has only evicted ones before it: the walk of
\* acquire stopped there, because those before it were enough.
LEMMA EvictedSuffice ==
    ASSUME TypeOK, OlderChains, NEW s \in Slot, Total(Idle(s)) >= Shortfall(s)
    PROVE  Evicted(s) \subseteq Idle(s) /\ Total(Evicted(s)) >= Shortfall(s)
<1> DEFINE Before(t) == {o \in Idle(s) : <<o, t>> \in older}
           staying == Idle(s) \ Evicted(s)
           befores == {Before(t) : t \in staying}
<1>1. Idle(s) \in SUBSET Slot /\ Evicted(s) \in SUBSET Idle(s)
  BY DEF TypeOK, Idle, Evicted
<1>2. CASE staying = {}
  <2>1. Evicted(s) = Idle(s)
    BY <1>1, <1>2
  <2> QED BY <2>1
<1>3. CASE staying # {}
  <2>1. IsWellFoundedOn(StrictSubsetOrdering(Slot), FiniteSubsetsOf(Slot))
    BY FS_StrictSubsetOrderingWellFounded
  <2>2. \A x \in SUBSET Slot : x \in FiniteSubsetsOf(Slot)
    BY BudgetAssumption, FS_Subset DEF FiniteSubsetsOf
  <2>3. befores \subseteq FiniteSubsetsOf(Slot) /\ befores # {}
    BY <1>1, <1>3, <2>2
  <2> HIDE DEF befores
  <2>4. PICK least \in befores : \A y \in befores : ~(<<y, least>> \in StrictSubsetOrdering(Slot))
    BY ONLY <2>1, <2>3, WFMin
  <2>5. PICK t \in staying : least = Before(t)
    BY <2>4 DEF befores
  <2>6. ASSUME NEW o \in Before(t)
        PROVE  o \in Evicted(s)
    <3>1. o \in Slot /\ t \in Slot /\ <<o, t>> \in older
      BY <1>1
    <3>2. Before(o) \subseteq Before(t)
      BY <1>1, <3>1 DEF OlderChains
    <3>3. o \in Before(t) /\ o \notin Before(o)
      BY <3>1 DEF TypeOK
    <3>4. <<Before(o), Before(t)>> \in StrictSubsetOrdering(Slot)
      BY <1>1, <3>2, <3>3 DEF StrictSubsetOrdering
    <3>5. Before(o) \notin befores
      BY <2>4, <2>5, <3>4
    <3> QED BY <3>5 DEF befores
  <2>7. Total(Before(t)) >= Shortfall(s)
    <3>1. ~(Total(Before(t)) < Shortfall(s))
      BY DEF Evicted
    <3>2. Before(t) \in SUBSET Slot
      BY <1>1
    <3>3. Shortfall(s) \in Int
      BY TotalIsNat, BudgetAssumption DEF Shortfall, TypeOK
    <3> HIDE DEF Before
    <3>4. Total(Before(t)) \in Int
      BY <3>2, TotalIsNat
    <3> QED BY ONLY <3>1, <3>3, <3>4
  <2>8. Total(Before(t)) <= Total(Evicted(s))
    <3>1. Before(t) \in SUBSET Slot /\ Evicted(s) \in SUBSET Slot /\ Before(t) \subseteq Evicted(s)
      BY <1>1, <2>6
    <3> HIDE DEF Before
    <3> QED BY ONLY <3>1, TotalGrows
  <2>9. Total(Before(t)) \in Int /\ Total(Evicted(s)) \in Int /\ Shortfall(s) \in Int
    <3>1. Before(t) \in SUBSET Slot /\ Evicted(s) \in SUBSET Slot /\ reserved \in SUBSET Slot
      BY <1>1 DEF TypeOK
    <3> HIDE DEF Before
    <3> QED BY <3>1, TotalIsNat, BudgetAssumption DEF Shortfall
  <2> QED BY ONLY <1>1, <2>7, <2>8, <2>9
<1> QED BY <1>2, <1>3

\* What is reserved fits the budget, and last_used orders the slots as times do
\* (budget.py, acquire: the walk over the idle slots stops when there is room).
THEOREM ReservedFitsHolds == Spec => [](OlderChains /\ ReservedFits)
<1>1. Init => OlderChains /\ ReservedFits
  <2>1. Total({}) = 0
    BY FS_EmptySet DEF Total, Megabytes
  <2> QED BY <2>1, BudgetAssumption DEF Init, OlderChains, ReservedFits
<1>2. TypeOK /\ OlderChains /\ ReservedFits /\ [Next]_vars => (OlderChains /\ ReservedFits)'
  <2> SUFFICES ASSUME TypeOK, OlderChains, ReservedFits, [Next]_vars PROVE (OlderChains /\ ReservedFits)'
    OBVIOUS
  <2>1. ASSUME NEW s \in Slot, older' = Used(s) PROVE OlderChains'
    BY <2>1 DEF TypeOK, OlderChains, Used, Others
  <2>2. ASSUME NEW c \in Request, Acquire(c) PROVE OlderChains' /\ ReservedFits'
    <3> DEFINE s == Wants[c]
    <3>1. s \in Slot /\ older' = Used(s) /\ reserved' = (reserved \ Evicted(s)) \cup {s}
      BY <2>2, BudgetAssumption DEF Acquire
    <3>2. Total(Idle(s)) >= Shortfall(s)
      BY <2>2 DEF Acquire
    <3> HIDE DEF s
    <3>3. reserved \in SUBSET Slot /\ Idle(s) \subseteq reserved
      BY DEF TypeOK, Idle
    <3>4. Evicted(s) \subseteq Idle(s) /\ Total(Evicted(s)) >= Shortfall(s)
      BY <3>1, <3>2, EvictedSuffice
    <3>5. /\ Total(reserved) \in Nat /\ Total(Evicted(s)) \in Nat /\ Total(reserved') \in Nat
          /\ Total(reserved \ Evicted(s)) = Total(reserved) - Total(Evicted(s))
      BY <3>1, <3>3, <3>4, TotalIsNat, TotalGrows
    <3>6. CASE s \in reserved
      <4>1. reserved' \in SUBSET Slot /\ reserved' \subseteq reserved
        BY <3>1, <3>3, <3>6
      <4>2. Total(reserved') <= Total(reserved)
        BY ONLY <3>3, <4>1, TotalGrows
      <4>3. Total(reserved)' = Total(reserved')
        BY DEF Total, Megabytes
      <4> QED BY <2>1, <3>1, <3>5, <4>2, <4>3, BudgetAssumption DEF ReservedFits
    <3>7. CASE s \notin reserved
      <4>1. Shortfall(s) = Total(reserved) + Cost[s] - BudgetMb
        BY <3>7 DEF Shortfall
      <4>2. reserved \ Evicted(s) \in SUBSET Slot
        BY <3>3
      <4>3. Total(reserved') <= Total(reserved \ Evicted(s)) + Cost[s]
        BY <3>1, <4>2, TotalOfOneMore
      <4>4. Cost[s] \in Nat /\ BudgetMb \in Nat
        BY <3>1, BudgetAssumption
      <4>5. Total(reserved') <= BudgetMb
        BY ONLY <3>4, <3>5, <4>1, <4>3, <4>4
      <4>6. Total(reserved)' = Total(reserved')
        BY DEF Total, Megabytes
      <4> QED BY <2>1, <3>1, <4>5, <4>6 DEF ReservedFits
    <3> QED BY <3>6, <3>7
  <2>3. ASSUME NEW c \in Request, Release(c) PROVE OlderChains' /\ ReservedFits'
    <3>1. /\ Wants[c] \in Slot /\ older' = Used(Wants[c])
          /\ reserved' \in SUBSET reserved /\ reserved \in SUBSET Slot
      BY <2>3, BudgetAssumption DEF Release, TypeOK
    <3>2. Total(reserved') <= Total(reserved) /\ Total(reserved') \in Nat /\ Total(reserved) \in Nat
      BY <3>1, TotalGrows, TotalIsNat
    <3>3. Total(reserved)' = Total(reserved')
      BY DEF Total, Megabytes
    <3> QED BY <2>1, <3>1, <3>2, <3>3, BudgetAssumption DEF ReservedFits
  <2>4. ASSUME NEW c \in Request, Refuse(c) \/ Lock(c) \/ Load(c) \/ LoadFails(c) \/ Serve(c)
        PROVE  OlderChains' /\ ReservedFits'
    BY <2>4 DEF Refuse, Lock, Load, LoadFails, Serve, OlderChains, ReservedFits, Total, Megabytes
  <2>5. CASE UNCHANGED vars
    BY <2>5 DEF vars, OlderChains, ReservedFits, Total, Megabytes
  <2> QED BY <2>2, <2>3, <2>4, <2>5 DEF Next
<1> QED BY <1>1, <1>2, TypeCorrect, PTL DEF Spec

\* The models in memory and those on their way fit the budget, whichever loads
\* fail and are retried: the walk over the idle slots frees what a reservation
\* lacks, and what is loaded or loading is reserved (budget.py, acquire).
THEOREM WithinBudgetHolds == Spec => []WithinBudget
<1>1. Init => UseInv
  BY DEF Init, UseInv, NothingLeaks
<1>2. TypeOK /\ UseInv /\ [Next]_vars => UseInv'
  BY UseInvInductive
<1>3. TypeOK /\ UseInv /\ ReservedFits => WithinBudget
  <2> SUFFICES ASSUME TypeOK, UseInv, ReservedFits PROVE WithinBudget
    OBVIOUS
  <2>1. loaded \cup Loading \in SUBSET reserved /\ reserved \in SUBSET Slot
    BY BudgetAssumption DEF TypeOK, UseInv, Loading
  <2>2. Total(loaded \cup Loading) <= Total(reserved)
    BY <2>1, TotalGrows
  <2>3. Total(loaded \cup Loading) \in Nat /\ Total(reserved) \in Nat
    BY <2>1, TotalIsNat
  <2> QED BY <2>2, <2>3, BudgetAssumption DEF WithinBudget, ReservedFits
<1> QED BY TypeCorrect, ReservedFitsHolds, <1>1, <1>2, <1>3, PTL DEF Spec

=============================================================================
