---------------------------- MODULE Chat_proofs -----------------------------
(***************************************************************************)
(* What a chat turn promises, for any turns, gate, reply length, number of *)
(* changes and number of clients that leave: its types, and with them that *)
(* the gate is never overfull; that a turn which is over holds nothing;    *)
(* that no stream is built on a grant lost before it began; and that the   *)
(* watch is obeyed.                                                        *)
(***************************************************************************)
EXTENDS Chat, FiniteSetTheorems, SequenceTheorems, TLAPS

-----------------------------------------------------------------------------
(* The slots of the gate.                                                  *)

\* A turn that holds one slot at most stands in Held once or not at all.
LEMMA OneEach ==
    ASSUME NEW f \in [Turn -> 0..1]
    PROVE  \A h : h \in UNION {{t} \X (1..f[t]) : t \in Turn} <=> \E t \in Turn : f[t] = 1 /\ h = <<t, 1>>
<1>1. ASSUME NEW t \in Turn, NEW i
      PROVE  i \in 1..f[t] <=> f[t] = 1 /\ i = 1
  <2>1. f[t] = 0 \/ f[t] = 1
    OBVIOUS
  <2> QED BY <2>1
<1>2. ASSUME NEW h
      PROVE  h \in UNION {{t} \X (1..f[t]) : t \in Turn} <=> \E t \in Turn : \E i \in 1..f[t] : h = <<t, i>>
  OBVIOUS
<1> QED BY <1>1, <1>2

\* The slots that turns hold are finitely many.
LEMMA HeldIsFinite ==
    ASSUME NEW f \in [Turn -> 0..1]
    PROVE  IsFiniteSet(UNION {{t} \X (1..f[t]) : t \in Turn})
<1>1. UNION {{t} \X (1..f[t]) : t \in Turn} \subseteq Turn \X {1}
  BY OneEach
<1>2. IsFiniteSet(Turn \X {1})
  BY ChatAssumption, FS_Singleton, FS_Product
<1> QED BY <1>1, <1>2, FS_Subset

\* Giving slots back, or leaving them alone, never overfills the gate.
LEMMA GivingBackFits ==
    ASSUME slots \in [Turn -> 0..1], slots' \in [Turn -> 0..1], Taken <= Slots,
           \A t \in Turn : slots'[t] = 1 => slots[t] = 1
    PROVE  Taken' <= Slots
<1>1. IsFiniteSet(Held) /\ \A h : h \in Held <=> \E t \in Turn : slots[t] = 1 /\ h = <<t, 1>>
  BY HeldIsFinite, OneEach DEF Held
<1>2. \A h : h \in Held' <=> \E t \in Turn : slots'[t] = 1 /\ h = <<t, 1>>
  BY OneEach DEF Held
<1>3. Held' \subseteq Held
  BY <1>1, <1>2
<1>4. IsFiniteSet(Held') /\ Cardinality(Held') <= Cardinality(Held)
  BY <1>1, <1>3, FS_Subset
<1>5. Cardinality(Held) \in Nat /\ Cardinality(Held') \in Nat
  BY <1>1, <1>4, FS_CardinalityType
<1> QED BY <1>4, <1>5, ChatAssumption DEF Taken

\* A turn that held none takes one slot, and there was room.
LEMMA TakingOneFits ==
    ASSUME slots \in [Turn -> 0..1], NEW t \in Turn, slots[t] = 0, Taken < Slots,
           slots' = [slots EXCEPT ![t] = 1]
    PROVE  Taken' <= Slots
<1>1. IsFiniteSet(Held) /\ \A h : h \in Held <=> \E u \in Turn : slots[u] = 1 /\ h = <<u, 1>>
  BY HeldIsFinite, OneEach DEF Held
<1>2. \A h : h \in Held' <=> \E u \in Turn : slots'[u] = 1 /\ h = <<u, 1>>
  <2>1. slots' \in [Turn -> 0..1]
    OBVIOUS
  <2> QED BY <2>1, OneEach DEF Held
<1>3. Held' = Held \cup {<<t, 1>>} /\ <<t, 1>> \notin Held
  BY <1>1, <1>2
<1>4. Cardinality(Held) \in Nat
  BY <1>1, FS_CardinalityType
<1>5. Cardinality(Held') = Cardinality(Held) + 1
  BY <1>1, <1>3, FS_AddElement
<1> QED BY <1>4, <1>5, ChatAssumption DEF Taken

-----------------------------------------------------------------------------
(* Types.                                                                  *)

\* TypeOK without the sum over the gate.
Shapes ==
    /\ scoped \in BOOLEAN
    /\ grant \in Grant /\ grant.epoch <= MaxChanges
    /\ messages \in Seq(Turn)
    /\ pc \in [Turn -> Awaits \cup {"start", "over"}]
    /\ basis \in [Turn -> Grant]
    /\ watched \in [Turn -> Grant \cup {Nothing, Lost}]
    /\ stored \in [Turn -> Seq(Turn)]
    /\ slots \in [Turn -> 0..1]
    /\ watch \in [Turn -> {"none", "running", "fired", "cancelled"}]
    /\ chunk \in [Turn -> {"none", "awaited", "text", "end", "failed", "broken"}]
    /\ upstream \in [Turn -> BOOLEAN]
    /\ sent \in [Turn -> Seq({"meta", "delta", "error", "done"})]
    /\ outcome \in [Turn -> {"none", "revoked", "error", "ended", "raised"}]
    /\ gone \in [Turn -> BOOLEAN] /\ lapsed \in [Turn -> BOOLEAN]
    /\ changes \in 0..MaxChanges /\ faults \in 0..MaxFaults

\* The epoch of the grant counts its changes.
EpochCounts == grant.epoch = changes

\* A request holds no slot before it reserves one, and none once it has let go.
SlotsKept(t) ==
    pc[t] \in {"start", "session", "retrieval", "slot", "commit", "send_error", "send_done", "over"} => slots[t] = 0

\* Before its response a turn has no task, no request to the LLM and no event;
\* a blocking turn never has a task.
NothingYet(t) ==
    pc[t] \in {"start", "session", "retrieval", "slot", "response"} =>
        /\ watch[t] = "none" /\ chunk[t] = "none" /\ ~upstream[t]
        /\ outcome[t] = "none" /\ ~lapsed[t] /\ sent[t] = <<>>
BlockingIsPlain(t) ==
    t \notin Streamed =>
        /\ pc[t] \in {"start", "session", "retrieval", "slot", "call", "commit", "over"}
        /\ watch[t] = "none" /\ chunk[t] = "none" /\ ~lapsed[t]
CallIsBlocking(t) == pc[t] = "call" => t \notin Streamed

\* The cleanup, in its order: the watch, the chunk, the stream.
WatchIsOff(t) ==
    /\ pc[t] \in {"cancel_chunk", "cancel_tasks", "aclose"} => watch[t] # "running"
    /\ pc[t] = "aclose" => chunk[t] # "awaited"
LetGo(t) ==
    pc[t] \in {"release", "commit", "send_error", "send_done", "background", "over"} =>
        ~upstream[t] /\ watch[t] # "running" /\ chunk[t] # "awaited"

\* A reply ends only under a watch that had not fired, and that is then
\* cancelled; only such a reply is stored.
EndedUnfired(t) ==
    /\ outcome[t] = "ended" => watch[t] \in {"none", "cancelled"}
    /\ pc[t] \in {"check", "send_meta", "race", "send_delta"} => outcome[t] = "none"
    /\ pc[t] = "commit" /\ t \in Streamed => outcome[t] = "ended"

Kept(t) ==
    /\ SlotsKept(t) /\ NothingYet(t) /\ BlockingIsPlain(t) /\ CallIsBlocking(t)
    /\ WatchIsOff(t) /\ LetGo(t) /\ EndedUnfired(t)

\* A grant a turn once read is the present one or an older one; and what a
\* stream stands on follows from what its context was.
Dated(g) == g.epoch <= grant.epoch /\ (g.epoch = grant.epoch => g = grant)
GrantsDated(t) ==
    /\ Dated(basis[t])
    /\ watched[t] \notin {Nothing, Lost} => Dated(watched[t])
StandsOnBasis(t) ==
    t \in Streamed /\ pc[t] \in {"slot", "response"} =>
        /\ scoped => watched[t] = basis[t]
        /\ ~scoped /\ basis[t].role # "gm" => watched[t] = Nothing
        /\ ~scoped /\ basis[t].role = "gm" => watched[t] = Lost \/ watched[t].role = "gm"

\* Where a turn can be whose grant was lost before its stream began.
LapsedIsRefused(t) ==
    lapsed[t] =>
        /\ pc[t] \in {"check", "cancel_tasks", "aclose", "release", "send_error", "background", "over"}
        /\ pc[t] = "check" => Changed(t)
        /\ outcome[t] \in {"none", "revoked"} /\ chunk[t] = "none" /\ ~upstream[t]
        /\ \A i \in 1..Len(sent[t]) : sent[t][i] = "error"

\* A turn is in the session, or in what another turn read of it, only once it
\* has been stored, and a lapsed one never.
Occurs(t, s) == \E i \in 1..Len(s) : s[i] = t
StoredIsPast(t) ==
    Occurs(t, messages) \/ (\E u \in Turn : Occurs(t, stored[u])) =>
        pc[t] \in {"send_done", "background", "over"} /\ ~lapsed[t]

Built(t) == GrantsDated(t) /\ StandsOnBasis(t) /\ LapsedIsRefused(t) /\ StoredIsPast(t)

IInv == TypeOK /\ EpochCounts /\ \A t \in Turn : Kept(t) /\ Built(t)

\* The steps of one turn.
Step(t) == Requests(t) \/ Llm(t) \/ Streams(t) \/ Fire(t) \/ Leave(t)

\* The types hold at first, and nobody holds a slot.
LEMMA ShapesInit == Init => TypeOK /\ EpochCounts /\ \A t \in Turn : SlotsKept(t)
<1> SUFFICES ASSUME Init PROVE TypeOK /\ EpochCounts /\ \A t \in Turn : SlotsKept(t)
  OBVIOUS
<1>1. Shapes /\ EpochCounts /\ \A t \in Turn : SlotsKept(t)
  BY ChatAssumption DEF Init, Shapes, EpochCounts, SlotsKept, Grant, Role, Nothing, Awaits
<1>2. Taken <= Slots
  <2>1. slots = [t \in Turn |-> 0]
    BY DEF Init
  <2>2. Held = {}
    BY <1>1, <2>1, OneEach DEF Shapes, Held
  <2> QED BY <2>2, FS_EmptySet, ChatAssumption DEF Taken
<1> QED BY <1>1, <1>2 DEF Shapes, TypeOK

\* A step of a turn keeps the types and what bounds the epochs.
LEMMA ShapesStep ==
    ASSUME Shapes, EpochCounts, NEW t \in Turn, Step(t)
    PROVE  Shapes' /\ EpochCounts'
<1> USE DEF Shapes, EpochCounts, Awaits, Goes, Sends, shared, request, tasks, bounds
<1> USE ChatAssumption
<1>1. CASE Requests(t)
  <2>1. CASE Prepare(t)
    BY <2>1 DEF Prepare
  <2>1a. CASE ReadSession(t)
    BY <2>1a DEF ReadSession
  <2>2. CASE Retrieve(t)
    <3>1. Watched(t) \in Grant \cup {Nothing, Lost}
      BY DEF Watched, Grant
    <3> QED BY <2>2, <3>1 DEF Retrieve
  <2>3. CASE Reserve(t)
    BY <2>3 DEF Reserve
  <2>4. CASE Busy(t)
    BY <2>4 DEF Busy
  <2> QED BY <1>1, <2>1, <2>1a, <2>2, <2>3, <2>4 DEF Requests
<1>2. CASE Llm(t)
  <2>1. CASE Answer(t)
    BY <2>1 DEF Answer
  <2>2. CASE CallFails(t)
    BY <2>2 DEF CallFails
  <2>3. CASE Generate(t)
    BY <2>3 DEF Generate
  <2> QED BY <1>2, <2>1, <2>2, <2>3 DEF Llm
<1>3. CASE Starts(t)
  <2>1. LostBasis(t) \in BOOLEAN
    BY DEF LostBasis
  <2>2. CASE Begin(t)
    BY <2>1, <2>2 DEF Begin
  <2>3. CASE BeginUnwatched(t)
    BY <2>1, <2>3 DEF BeginUnwatched
  <2>4. CASE BeginLost(t)
    BY <2>1, <2>4 DEF BeginLost, Leaves, Stopped
  <2> QED BY <1>3, <2>2, <2>3, <2>4 DEF Starts
<1>4. CASE CheckPasses(t)
  BY <1>4 DEF CheckPasses
<1>5. CASE CheckRefuses(t)
  BY <1>5 DEF CheckRefuses, Leaves, Stopped
<1>6. CASE NextChunk(t)
  BY <1>6 DEF NextChunk, Nested
<1>7. CASE Revoke(t)
  BY <1>7 DEF Revoke
<1>8. CASE TakeText(t)
  BY <1>8 DEF TakeText
<1>9. CASE TakeEnd(t)
  BY <1>9 DEF TakeEnd, Leaves, Stopped
<1>10. CASE Cleans(t)
  <2>1. CASE CancelChunk(t)
    BY <2>1 DEF CancelChunk, Cancelled
  <2>2. CASE CancelTasks(t)
    BY <2>2 DEF CancelTasks, Cancelled
  <2>3. CASE Aclose(t)
    BY <2>3 DEF Aclose
  <2>4. CASE Release(t)
    <3>1. \E to \in Awaits \cup {"over"} : pc' = [pc EXCEPT ![t] = to]
      BY <2>4 DEF Release
    <3>2. sent' = sent \/ sent' = [sent EXCEPT ![t] = Append(@, "error")]
      BY <2>4 DEF Release
    <3>3. pc' \in [Turn -> Awaits \cup {"start", "over"}]
      BY <3>1
    <3>4. sent' \in [Turn -> Seq({"meta", "delta", "error", "done"})]
      <4>1. [sent EXCEPT ![t] = Append(@, "error")] \in [Turn -> Seq({"meta", "delta", "error", "done"})]
        OBVIOUS
      <4> QED BY <3>2, <4>1
    <3>5. slots' \in [Turn -> 0..1]
      BY <2>4 DEF Release, Released
    <3> QED BY <2>4, <3>3, <3>4, <3>5 DEF Release
  <2>5. CASE Abandon(t)
    BY <2>5 DEF Abandon, BackgroundReleases, Released
  <2>6. CASE Finalise(t)
    BY <2>6 DEF Finalise, Released, Stopped
  <2> QED BY <1>10, <2>1, <2>2, <2>3, <2>4, <2>5, <2>6 DEF Cleans
<1>11. CASE Persist(t)
  BY <1>11 DEF Persist
<1>12. CASE Finish(t)
  BY <1>12 DEF Finish
<1>13. CASE Background(t)
  BY <1>13 DEF Background, BackgroundReleases, Released
<1>14. CASE Fire(t)
  BY <1>14 DEF Fire
<1>15. CASE Leave(t)
  <2>1. After(t) \in Awaits
    <3>1. CASE pc[t] \in {"response", "commit", "send_error", "send_done"}
      BY <3>1 DEF After
    <3> QED BY <1>15, <3>1 DEF Leave, After
  <2>2. messages' \in Seq(Turn)
    <3>1. messages' = messages \/ messages' = Append(stored[t], t)
      BY <1>15 DEF Leave
    <3>2. stored[t] \in Seq(Turn) /\ messages \in Seq(Turn)
      OBVIOUS
    <3>3. Append(stored[t], t) \in Seq(Turn)
      BY <3>2, AppendProperties
    <3> QED BY <3>1, <3>2, <3>3
  <2>3. watch' \in [Turn -> {"none", "running", "fired", "cancelled"}]
    BY <1>15 DEF Leave, Stopped
  <2> QED BY <1>15, <2>1, <2>2, <2>3 DEF Leave
<1> QED
  BY <1>1, <1>2, <1>3, <1>4, <1>5, <1>6, <1>7, <1>8, <1>9, <1>10, <1>11, <1>12, <1>13, <1>14, <1>15
  DEF Step, Streams

\* A step of one turn leaves the fields of the others alone, and the grant.
LEMMA OthersStay ==
    ASSUME Shapes, NEW t \in Turn, Step(t)
    PROVE  /\ scoped' = scoped /\ grant' = grant
           /\ \A u \in Turn \ {t} :
                /\ pc'[u] = pc[u] /\ slots'[u] = slots[u] /\ basis'[u] = basis[u] /\ watched'[u] = watched[u]
                /\ stored'[u] = stored[u] /\ watch'[u] = watch[u] /\ chunk'[u] = chunk[u]
                /\ upstream'[u] = upstream[u] /\ sent'[u] = sent[u] /\ outcome'[u] = outcome[u]
                /\ lapsed'[u] = lapsed[u]
<1> USE DEF Shapes, Goes, Sends, shared, request, tasks, bounds
<1>1. CASE Requests(t)
  BY <1>1 DEF Requests, Prepare, ReadSession, Retrieve, Reserve, Busy
<1>2. CASE Llm(t)
  BY <1>2 DEF Llm, Answer, CallFails, Generate
<1>3. CASE Starts(t)
  BY <1>3 DEF Starts, Begin, BeginUnwatched, BeginLost, Leaves, Stopped
<1>4. CASE CheckPasses(t) \/ CheckRefuses(t)
  BY <1>4 DEF CheckPasses, CheckRefuses, Leaves, Stopped
<1>5. CASE NextChunk(t)
  BY <1>5 DEF NextChunk
<1>6. CASE Revoke(t) \/ TakeText(t) \/ TakeEnd(t)
  BY <1>6 DEF Revoke, TakeText, TakeEnd, Leaves, Stopped
<1>7. CASE CancelChunk(t) \/ CancelTasks(t) \/ Aclose(t)
  BY <1>7 DEF CancelChunk, CancelTasks, Cancelled, Aclose
<1>8. CASE Release(t)
  BY <1>8 DEF Release, Released
<1>9. CASE Abandon(t) \/ Finalise(t)
  BY <1>9 DEF Abandon, Finalise, BackgroundReleases, Released, Stopped
<1>10. CASE Persist(t) \/ Finish(t) \/ Background(t)
  BY <1>10 DEF Persist, Finish, Background, BackgroundReleases, Released
<1>11. CASE Fire(t)
  BY <1>11 DEF Fire
<1>12. CASE Leave(t)
  BY <1>12 DEF Leave, Stopped
<1> QED
  BY <1>1, <1>2, <1>3, <1>4, <1>5, <1>6, <1>7, <1>8, <1>9, <1>10, <1>11, <1>12
  DEF Step, Streams, Cleans

\* A step of a turn keeps what is said of its slot, its tasks and its outcome.
LEMMA KeptStep ==
    ASSUME Shapes, NEW t \in Turn, Step(t), Kept(t)
    PROVE  Kept(t)'
<1> USE DEF Shapes, Goes, Sends, shared, request, tasks, bounds, Kept, SlotsKept, NothingYet, BlockingIsPlain,
            CallIsBlocking, WatchIsOff, LetGo, EndedUnfired
<1>1. CASE Requests(t)
  BY <1>1 DEF Requests, Prepare, ReadSession, Retrieve, Reserve, Busy
<1>2. CASE Llm(t)
  BY <1>2 DEF Llm, Answer, CallFails, Generate
<1>3. CASE Starts(t)
  BY <1>3 DEF Starts, Begin, BeginUnwatched, BeginLost, Leaves, Stopped
<1>4. CASE CheckPasses(t) \/ CheckRefuses(t)
  BY <1>4 DEF CheckPasses, CheckRefuses, Leaves, Stopped
<1>5. CASE NextChunk(t)
  BY <1>5 DEF NextChunk
<1>6. CASE Revoke(t) \/ TakeText(t) \/ TakeEnd(t)
  BY <1>6 DEF Revoke, Revoked, Taking, TakeText, TakeEnd, Leaves, Stopped
<1>7. CASE CancelChunk(t) \/ CancelTasks(t) \/ Aclose(t)
  BY <1>7 DEF CancelChunk, CancelTasks, Cancelled, Aclose
<1>8. CASE Release(t)
  BY <1>8 DEF Release, Released
<1>9. CASE Abandon(t) \/ Finalise(t)
  BY <1>9 DEF Abandon, Finalise, BackgroundReleases, Released, Stopped
<1>10. CASE Persist(t) \/ Finish(t) \/ Background(t)
  BY <1>10 DEF Persist, Finish, Background, BackgroundReleases, Released
<1>11. CASE Fire(t)
  BY <1>11 DEF Fire
<1>12. CASE Leave(t)
  BY <1>12 DEF Leave, Stopped, After
<1> QED
  BY <1>1, <1>2, <1>3, <1>4, <1>5, <1>6, <1>7, <1>8, <1>9, <1>10, <1>11, <1>12
  DEF Step, Streams, Cleans

\* A turn is in a longer session exactly if it was in it or is what was added.
LEMMA OccursAppend ==
    ASSUME NEW s \in Seq(Turn), NEW t \in Turn, NEW u \in Turn
    PROVE  Occurs(t, Append(s, u)) <=> Occurs(t, s) \/ u = t
BY DEF Occurs

\* What becomes of the session in a step: a turn that commits is stored behind
\* what it had read.
LEMMA MessagesStep ==
    ASSUME Shapes, NEW t \in Turn, Step(t)
    PROVE  \/ stored' = stored /\ messages' = messages
           \/ pc[t] = "session" /\ stored' = [stored EXCEPT ![t] = messages] /\ messages' = messages
           \/ /\ stored' = stored /\ messages' = Append(stored[t], t)
              /\ pc[t] = "commit" /\ pc'[t] \in {"send_done", "background", "over"}
<1> USE DEF Shapes, Goes, Sends, shared, request, tasks, bounds
<1>1. CASE Requests(t)
  BY <1>1 DEF Requests, Prepare, ReadSession, Retrieve, Reserve, Busy
<1>2. CASE Persist(t)
  BY <1>2 DEF Persist
<1>3. CASE Leave(t)
  BY <1>3 DEF Leave, After
<1>4. CASE Llm(t) \/ Fire(t)
  BY <1>4 DEF Llm, Answer, CallFails, Generate, Fire
<1>5. CASE Starts(t) \/ CheckPasses(t) \/ CheckRefuses(t) \/ NextChunk(t)
  BY <1>5 DEF Starts, Begin, BeginUnwatched, BeginLost, CheckPasses, CheckRefuses, NextChunk
<1>6. CASE Revoke(t) \/ TakeText(t) \/ TakeEnd(t) \/ Finish(t) \/ Background(t)
  BY <1>6 DEF Revoke, TakeText, TakeEnd, Finish, Background
<1>7. CASE Cleans(t)
  BY <1>7 DEF Cleans, CancelChunk, CancelTasks, Aclose, Release, Abandon, Finalise
<1> QED
  BY <1>1, <1>2, <1>3, <1>4, <1>5, <1>6, <1>7 DEF Step, Streams

\* A turn lapses only as its stream begins, and one that has ended stays so.
LEMMA PastStaysPast ==
    ASSUME Shapes, NEW t \in Turn, Step(t)
    PROVE  /\ lapsed'[t] => lapsed[t] \/ pc[t] = "response"
           /\ pc[t] \in {"send_done", "background", "over"} => pc'[t] \in {"send_done", "background", "over"}
<1> USE DEF Shapes, Goes, Sends, shared, request, tasks, bounds
<1>1. CASE Requests(t) \/ Llm(t) \/ Fire(t)
  BY <1>1 DEF Requests, Prepare, ReadSession, Retrieve, Reserve, Busy, Llm, Answer, CallFails, Generate, Fire
<1>2. CASE Starts(t) \/ CheckPasses(t) \/ CheckRefuses(t) \/ NextChunk(t)
  BY <1>2 DEF Starts, Begin, BeginUnwatched, BeginLost, CheckPasses, CheckRefuses, NextChunk, Leaves
<1>3. CASE Revoke(t) \/ TakeText(t) \/ TakeEnd(t) \/ Persist(t) \/ Finish(t) \/ Background(t)
  BY <1>3 DEF Revoke, TakeText, TakeEnd, Leaves, Persist, Finish, Background
<1>4. CASE Cleans(t)
  BY <1>4 DEF Cleans, CancelChunk, CancelTasks, Aclose, Release, Abandon, Finalise
<1>5. CASE Leave(t)
  BY <1>5 DEF Leave, After
<1> QED BY <1>1, <1>2, <1>3, <1>4, <1>5 DEF Step, Streams

\* Only its own commit puts a turn into the session, after which it is past.
LEMMA StoredIsPastKeeps ==
    ASSUME Shapes, NEW t \in Turn, Step(t), NEW u \in Turn, StoredIsPast(u), LapsedIsRefused(u),
           u = t => LapsedIsRefused(u)' /\ (lapsed'[u] => lapsed[u] \/ pc[u] = "response")
                    /\ (pc[u] \in {"send_done", "background", "over"} => pc'[u] \in {"send_done", "background", "over"})
    PROVE  StoredIsPast(u)'
<1>1. ASSUME Occurs(u, messages') \/ \E v \in Turn : Occurs(u, stored'[v])
      PROVE  \/ Occurs(u, messages) \/ \E v \in Turn : Occurs(u, stored[v])
             \/ u = t /\ pc[t] = "commit" /\ pc'[t] \in {"send_done", "background", "over"}
  <2>1. stored[t] \in Seq(Turn) /\ stored \in [Turn -> Seq(Turn)]
    BY DEF Shapes
  <2>2. CASE stored' = stored /\ messages' = messages
    BY <1>1, <2>2
  <2>3. CASE stored' = [stored EXCEPT ![t] = messages] /\ messages' = messages
    BY <1>1, <2>1, <2>3
  <2>4. CASE /\ stored' = stored /\ messages' = Append(stored[t], t)
             /\ pc[t] = "commit" /\ pc'[t] \in {"send_done", "background", "over"}
    BY <1>1, <2>1, <2>4, OccursAppend
  <2> QED BY <2>2, <2>3, <2>4, MessagesStep
<1>2. CASE u = t
  <2>1. ~(lapsed[u] /\ pc[u] = "commit")
    BY DEF LapsedIsRefused
  <2> QED BY <1>1, <1>2, <2>1 DEF StoredIsPast, Occurs
<1>3. CASE u # t
  BY <1>1, <1>3, OthersStay DEF StoredIsPast, Occurs
<1> QED BY <1>2, <1>3

\* A step of a turn keeps what is said of the grants it read and of its lapse.
LEMMA BuiltStep ==
    ASSUME Shapes, NEW t \in Turn, Step(t), Kept(t), Built(t)
    PROVE  (GrantsDated(t) /\ StandsOnBasis(t) /\ LapsedIsRefused(t))'
<1> USE DEF Shapes, Goes, Sends, shared, request, tasks, bounds, Built, GrantsDated, StandsOnBasis, LapsedIsRefused,
            Dated, Changed
<1>1. CASE Requests(t)
  <2>1. CASE Prepare(t)
    BY <2>1 DEF Prepare, Kept, NothingYet, Grant
  <2>1a. CASE ReadSession(t)
    BY <2>1a DEF ReadSession, Kept, NothingYet
  <2>2. CASE Retrieve(t)
    <3>1. /\ scoped => Watched(t) = basis[t]
          /\ ~scoped /\ basis[t].role # "gm" => Watched(t) = Nothing
          /\ ~scoped /\ basis[t].role = "gm" => Watched(t) = Lost \/ (Watched(t) = grant /\ grant.role = "gm")
      <4>1. CASE scoped
        BY <4>1 DEF Watched
      <4>2. CASE ~scoped /\ basis[t].role # "gm"
        BY <4>2 DEF Watched
      <4>3. CASE ~scoped /\ basis[t].role = "gm"
        BY <4>3 DEF Watched
      <4> QED BY <4>1, <4>2, <4>3
    <3> QED BY <2>2, <3>1 DEF Retrieve, Kept, NothingYet, Grant, Nothing, Lost
  <2>3. CASE Reserve(t)
    BY <2>3 DEF Reserve, Kept, NothingYet
  <2>4. CASE Busy(t)
    BY <2>4 DEF Busy, Kept, NothingYet
  <2> QED BY <1>1, <2>1, <2>1a, <2>2, <2>3, <2>4 DEF Requests
<1>2. CASE Llm(t)
  BY <1>2 DEF Llm, Answer, CallFails, Generate
<1>3. CASE Starts(t)
  <2>1. pc[t] = "response" /\ t \in Streamed
    BY <1>3 DEF Starts, Begin, BeginUnwatched, BeginLost, Leaves, Kept, BlockingIsPlain
  <2>2. chunk[t] = "none" /\ ~upstream[t] /\ outcome[t] = "none" /\ sent[t] = <<>>
    BY <2>1 DEF Kept, NothingYet
  <2>3. CASE Begin(t)
    <3>1. LostBasis(t) => Changed(t)
      BY <2>1, <2>3 DEF Begin, LostBasis
    <3> QED BY <2>2, <2>3, <3>1 DEF Begin
  <2>4. CASE BeginUnwatched(t)
    <3>1. basis[t].role \in Role /\ Nothing.role \notin Role /\ Lost.role # Nothing.role
      BY DEF Grant, Role, Nothing, Lost
    <3>2. ~LostBasis(t)
      BY <2>1, <2>4, <3>1 DEF BeginUnwatched, LostBasis, Nothing
    <3> QED BY <2>4, <3>2 DEF BeginUnwatched
  <2>5. CASE BeginLost(t)
    BY <2>1, <2>2, <2>5 DEF BeginLost, Leaves
  <2> QED BY <1>3, <2>3, <2>4, <2>5 DEF Starts
<1>4. CASE CheckPasses(t) \/ CheckRefuses(t)
  BY <1>4 DEF CheckPasses, CheckRefuses, StillGranted, Leaves, Stopped
<1>5. CASE NextChunk(t)
  BY <1>5 DEF NextChunk
<1>6. CASE Revoke(t) \/ TakeText(t) \/ TakeEnd(t)
  BY <1>6 DEF Revoke, Revoked, Taking, TakeText, TakeEnd, Leaves, Stopped
<1>7. CASE CancelChunk(t) \/ CancelTasks(t) \/ Aclose(t)
  BY <1>7 DEF CancelChunk, CancelTasks, Cancelled, Aclose
<1>8. CASE Release(t)
  <2>1. pc[t] = "release" /\ pc'[t] \in {"background", "send_error", "commit", "send_done", "over"}
    BY <1>8 DEF Release
  <2>2. lapsed[t] => pc'[t] \in {"background", "send_error", "over"}
    BY <1>8 DEF Release
  <2>3. sent'[t] = sent[t] \/ sent'[t] = Append(sent[t], "error")
    BY <1>8 DEF Release
  <2>4. (\A i \in 1..Len(sent[t]) : sent[t][i] = "error") => \A i \in 1..Len(sent'[t]) : sent'[t][i] = "error"
    <3>1. sent[t] \in Seq({"meta", "delta", "error", "done"})
      OBVIOUS
    <3>2. /\ Len(Append(sent[t], "error")) = Len(sent[t]) + 1 /\ Len(sent[t]) \in Nat
          /\ \A i \in 1..Len(sent[t]) : Append(sent[t], "error")[i] = sent[t][i]
          /\ Append(sent[t], "error")[Len(sent[t]) + 1] = "error"
      BY <3>1, AppendProperties, LenProperties
    <3>3. ASSUME sent'[t] = Append(sent[t], "error"), \A i \in 1..Len(sent[t]) : sent[t][i] = "error",
                 NEW i \in 1..Len(sent'[t])
          PROVE  sent'[t][i] = "error"
      <4>1. i \in 1..Len(sent[t]) \/ i = Len(sent[t]) + 1
        BY <3>2, <3>3
      <4> QED BY <3>2, <3>3, <4>1
    <3> QED BY <2>3, <3>3
  <2> QED BY <1>8, <2>1, <2>2, <2>4 DEF Release
<1>9. CASE Abandon(t) \/ Finalise(t)
  BY <1>9 DEF Abandon, Finalise, BackgroundReleases, Released, Stopped
<1>10. CASE Persist(t) \/ Finish(t) \/ Background(t)
  BY <1>10 DEF Persist, Finish, Background, BackgroundReleases, Released
<1>11. CASE Fire(t)
  BY <1>11 DEF Fire
<1>12. CASE Leave(t)
  BY <1>12 DEF Leave, Stopped, After
<1> QED
  BY <1>1, <1>2, <1>3, <1>4, <1>5, <1>6, <1>7, <1>8, <1>9, <1>10, <1>11, <1>12
  DEF Step, Streams, Cleans

\* Another turn's step, or a change of the grant.
LEMMA BuiltOtherwise ==
    ASSUME IInv, NEW u \in Turn, ChangeGrant \/ \E t \in Turn \ {u} : Step(t)
    PROVE  Kept(u)' /\ (GrantsDated(u) /\ StandsOnBasis(u) /\ LapsedIsRefused(u))'
<1> Shapes /\ EpochCounts /\ Kept(u) /\ Built(u)
  BY DEF IInv, TypeOK, Shapes
<1> USE DEF Kept, SlotsKept, NothingYet, BlockingIsPlain, CallIsBlocking, WatchIsOff, LetGo, EndedUnfired,
            Built, GrantsDated, StandsOnBasis, LapsedIsRefused, Dated, Changed
<1>1. CASE \E t \in Turn \ {u} : Step(t)
  BY <1>1, OthersStay
<1>2. CASE ChangeGrant
  <2>1. grant'.epoch = grant.epoch + 1 /\ grant' \in Grant /\ grant.epoch \in Nat
    BY <1>2 DEF ChangeGrant, Grant, Shapes
  <2>2. UNCHANGED <<scoped, messages, pc, basis, watched, stored, slots, watch, chunk, upstream, sent, outcome, lapsed>>
    BY <1>2 DEF ChangeGrant, request, tasks
  <2>3. Kept(u)'
    BY <2>2
  <2>4. GrantsDated(u)'
    BY <2>1, <2>2 DEF Shapes, Grant
  <2>5. pc[u] = "check" /\ lapsed[u] => Changed(u)'
    <3>1. Lost \notin Grant
      BY DEF Lost, Grant, Role
    <3>2. CASE watched[u] = Lost
      BY <2>1, <2>2, <3>1, <3>2
    <3>3. CASE watched[u] # Lost
      BY <2>1, <2>2, <3>3 DEF Shapes, Grant
    <3> QED BY <3>2, <3>3
  <2> QED BY <2>2, <2>3, <2>4, <2>5
<1> QED BY <1>1, <1>2

-----------------------------------------------------------------------------
(* The invariant.                                                          *)

\* The invariant holds at first, ...
LEMMA IInvInit == Init => IInv
<1> SUFFICES ASSUME Init PROVE IInv
  OBVIOUS
<1>1. \A t \in Turn : Kept(t)
  BY DEF Init, Kept, SlotsKept, NothingYet, BlockingIsPlain, CallIsBlocking, WatchIsOff, LetGo, EndedUnfired
<1>2. \A t \in Turn : Built(t)
  BY ShapesInit DEF Init, Built, GrantsDated, Dated, StandsOnBasis, LapsedIsRefused, StoredIsPast, Occurs, TypeOK, Grant
<1> QED BY <1>1, <1>2, ShapesInit DEF IInv

\* The gate is never overfull: the only step that takes a slot finds room, and
\* the turn that takes it holds none.
LEMMA TakenStep ==
    ASSUME IInv, NEW t \in Turn, Step(t)
    PROVE  Taken' <= Slots
<1> Shapes /\ Kept(t) /\ Taken <= Slots
  BY DEF IInv, TypeOK, Shapes
<1>1. slots \in [Turn -> 0..1] /\ slots' \in [Turn -> 0..1]
  BY ShapesStep DEF Shapes, IInv
<1>2. CASE Reserve(t)
  BY <1>1, <1>2, TakingOneFits DEF Reserve, Room, Goes, Kept, SlotsKept
<1>3. CASE ~Reserve(t)
  <2>1. slots' = slots \/ slots' = [slots EXCEPT ![t] = 0]
    <3> USE DEF Goes, shared, request, tasks, bounds
    <3>1. CASE Requests(t)
      BY <1>3, <3>1 DEF Requests, Prepare, ReadSession, Retrieve, Busy
    <3>2. CASE Llm(t) \/ Fire(t) \/ Leave(t)
      BY <3>2 DEF Llm, Answer, CallFails, Generate, Fire, Leave
    <3>3. CASE Starts(t) \/ CheckPasses(t) \/ CheckRefuses(t) \/ Revoke(t) \/ TakeText(t) \/ TakeEnd(t)
      BY <3>3 DEF Starts, Begin, BeginUnwatched, BeginLost, CheckPasses, CheckRefuses, Revoke, TakeText, TakeEnd
    <3>4. CASE NextChunk(t)
      BY <1>1, <3>4 DEF NextChunk, Nested
    <3>5. CASE Cleans(t)
      BY <3>5 DEF Cleans, CancelChunk, CancelTasks, Aclose, Release, Abandon, Finalise, BackgroundReleases, Released
    <3>6. CASE Persist(t) \/ Finish(t) \/ Background(t)
      BY <3>6 DEF Persist, Finish, Background, BackgroundReleases, Released
    <3> QED BY <3>1, <3>2, <3>3, <3>4, <3>5, <3>6 DEF Step, Streams
  <2>2. \A u \in Turn : slots'[u] = 1 => slots[u] = 1
    BY <1>1, <2>1
  <2> QED BY <1>1, <2>2, GivingBackFits
<1> QED BY <1>2, <1>3

\* ... and is kept by a step of any turn, a change of the grant and a failure.
LEMMA IInvStep == IInv /\ [Next]_vars => IInv'
<1> SUFFICES ASSUME IInv, [Next]_vars PROVE IInv'
  OBVIOUS
<1> Shapes /\ EpochCounts /\ Taken <= Slots /\ \A t \in Turn : Kept(t) /\ Built(t)
  BY DEF IInv, TypeOK, Shapes
<1>1. CASE ChangeGrant
  <2>1. Shapes' /\ EpochCounts' /\ Taken' = Taken
    BY <1>1, ChatAssumption DEF ChangeGrant, Shapes, EpochCounts, Grant, request, tasks, Taken, Held
  <2>2. \A u \in Turn : Kept(u)' /\ (GrantsDated(u) /\ StandsOnBasis(u) /\ LapsedIsRefused(u))'
    BY <1>1, BuiltOtherwise
  <2>3. \A u \in Turn : StoredIsPast(u)'
    BY <1>1 DEF ChangeGrant, request, StoredIsPast, Occurs, Built
  <2> QED BY <2>1, <2>2, <2>3 DEF IInv, TypeOK, Shapes, Built
<1>2. ASSUME NEW t \in Turn, Step(t)
      PROVE  IInv'
  <2>1. Shapes' /\ EpochCounts'
    BY <1>2, ShapesStep
  <2>2. Taken' <= Slots
    BY <1>2, TakenStep
  <2>3. Kept(t)' /\ (GrantsDated(t) /\ StandsOnBasis(t) /\ LapsedIsRefused(t))'
    BY <1>2, KeptStep, BuiltStep
  <2>4. \A u \in Turn \ {t} : Kept(u)' /\ (GrantsDated(u) /\ StandsOnBasis(u) /\ LapsedIsRefused(u))'
    BY <1>2, BuiltOtherwise
  <2>5. /\ lapsed'[t] => lapsed[t] \/ pc[t] = "response"
        /\ pc[t] \in {"send_done", "background", "over"} => pc'[t] \in {"send_done", "background", "over"}
    BY <1>2, PastStaysPast
  <2>6. \A u \in Turn : StoredIsPast(u)'
    BY <1>2, <2>3, <2>5, StoredIsPastKeeps DEF Built
  <2>7. TypeOK'
    BY <2>1, <2>2 DEF TypeOK, Shapes
  <2>8. \A u \in Turn : Kept(u)' /\ Built(u)'
    BY <2>3, <2>4, <2>6 DEF Built
  <2> QED BY <2>1, <2>7, <2>8 DEF IInv
<1>3. CASE UNCHANGED vars
  BY <1>3 DEF vars, shared, request, tasks, bounds, IInv, TypeOK, Taken, Held, EpochCounts,
     Kept, SlotsKept, NothingYet, BlockingIsPlain, CallIsBlocking, WatchIsOff, LetGo, EndedUnfired,
     Built, GrantsDated, StandsOnBasis, LapsedIsRefused, StoredIsPast, Occurs, Dated, Changed
<1> QED BY <1>1, <1>2, <1>3 DEF Next, Step, Over

\* Every reachable state has the types, and at each await a turn holds what that
\* await of event_stream and _persist_chat_turn may hold (routes/chat.py).
THEOREM IInvHolds == Spec => []IInv
BY IInvInit, IInvStep, PTL DEF Spec

\* Every field of a turn has its type, and the gate never holds more turns than
\* it has slots, for any gate and any number of turns (reserve_slot, gated).
THEOREM TypesHold == Spec => []TypeOK
<1>1. IInv => TypeOK
  BY DEF IInv
<1> QED BY <1>1, IInvHolds, PTL

\* A turn that is over holds no slot, no request, no watch and no chunk, however
\* it ended (the finally of the generator, the background task, finalisation).
THEOREM AllIsGivenBack == Spec => []AllGivenBack
<1>1. IInv => AllGivenBack
  BY DEF IInv, Kept, SlotsKept, LetGo, AllGivenBack
<1> QED BY <1>1, IInvHolds, PTL

\* A streamed turn whose grant was lost while it was prepared sends errors only,
\* calls no LLM and is not stored (grant_changed, before the first event).
THEOREM NothingIsBuiltOnOldGrant == Spec => []NothingOnOldGrant
<1>1. IInv => NothingOnOldGrant
  BY DEF IInv, Built, LapsedIsRefused, StoredIsPast, Occurs, NothingOnOldGrant
<1> QED BY <1>1, IInvHolds, PTL

-----------------------------------------------------------------------------
(* The watch.                                                              *)

\* An event that is no delta leaves their number alone.
LEMMA NoDelta ==
    ASSUME NEW t, NEW e \in {"meta", "error", "done"}, sent[t] \in Seq({"meta", "delta", "error", "done"}),
           sent'[t] = Append(sent[t], e)
    PROVE  Deltas(t)' = Deltas(t)
<1>1. /\ Len(sent'[t]) = Len(sent[t]) + 1 /\ Len(sent[t]) \in Nat
      /\ \A i \in 1..Len(sent[t]) : sent'[t][i] = sent[t][i]
      /\ sent'[t][Len(sent[t]) + 1] # "delta"
  BY AppendProperties, LenProperties
<1>2. ASSUME NEW i
      PROVE  i \in 1..Len(sent'[t]) /\ sent'[t][i] = "delta" <=> i \in 1..Len(sent[t]) /\ sent[t][i] = "delta"
  BY <1>1
<1>3. {i \in 1..Len(sent'[t]) : sent'[t][i] = "delta"} = {i \in 1..Len(sent[t]) : sent[t][i] = "delta"}
  BY <1>2
<1> QED BY <1>3 DEF Deltas

\* Only a turn whose watch has not fired is sent text, and only its own.
LEMMA TextUnfired ==
    ASSUME Shapes, NEW t \in Turn, Step(t), NEW u \in Turn, watch[u] = "fired"
    PROVE  Deltas(u)' = Deltas(u)
<1> USE DEF Shapes, Goes, shared, request, tasks, bounds
<1>1. CASE u # t
  <2>1. sent'[u] = sent[u]
    BY <1>1, OthersStay
  <2> QED BY <2>1 DEF Deltas
<1>2. CASE sent'[u] = sent[u]
  BY <1>2 DEF Deltas
<1>3. CASE u = t /\ \E e \in {"meta", "error", "done"} : sent'[t] = Append(sent[t], e)
  BY <1>3, NoDelta
<1>4. u = t => sent'[t] = sent[t] \/ \E e \in {"meta", "error", "done"} : sent'[t] = Append(sent[t], e)
  <2> SUFFICES ASSUME u = t
               PROVE  sent'[t] = sent[t] \/ \E e \in {"meta", "error", "done"} : sent'[t] = Append(sent[t], e)
    OBVIOUS
  <2>1. CASE Requests(t) \/ Llm(t) \/ Fire(t) \/ Leave(t)
    BY <2>1 DEF Requests, Prepare, ReadSession, Retrieve, Reserve, Busy, Llm, Answer, CallFails, Generate, Fire, Leave
  <2>2. CASE Starts(t) \/ CheckPasses(t) \/ CheckRefuses(t) \/ NextChunk(t)
    BY <2>2 DEF Starts, Begin, BeginUnwatched, BeginLost, CheckPasses, CheckRefuses, NextChunk, Sends
  <2>3. CASE TakeText(t)
    BY <2>3 DEF TakeText, Taking, Arrived, Revoked
  <2>4. CASE Revoke(t) \/ TakeEnd(t) \/ Persist(t) \/ Finish(t) \/ Background(t)
    BY <2>4 DEF Revoke, TakeEnd, Persist, Finish, Background
  <2>5. CASE Cleans(t)
    BY <2>5 DEF Cleans, CancelChunk, CancelTasks, Aclose, Release, Sends, Abandon, Finalise
  <2> QED BY <2>1, <2>2, <2>3, <2>4, <2>5 DEF Step, Streams
<1> QED BY <1>1, <1>2, <1>3, <1>4

\* From the moment the watch has fired no more text goes out and the turn is
\* not stored, in every step of every turn (asyncio.wait, the finally).
THEOREM WatchIsObeyed == Spec => WatchObeyed
<1>1. ASSUME IInv, [Next]_vars, NEW u \in Turn, watch[u] = "fired"
      PROVE  Deltas(u)' = Deltas(u) /\ (messages' = messages \/ messages'[Len(messages')] # u)
  <2> Shapes /\ Kept(u)
    BY <1>1 DEF IInv, TypeOK, Shapes
  <2>1. CASE ChangeGrant \/ UNCHANGED vars
    BY <2>1 DEF ChangeGrant, vars, shared, request, Deltas
  <2>2. ASSUME NEW t \in Turn, Step(t)
        PROVE  Deltas(u)' = Deltas(u) /\ (messages' = messages \/ messages'[Len(messages')] # u)
    <3>1. Deltas(u)' = Deltas(u)
      BY <1>1, <2>2, TextUnfired
    <3>2. pc[u] # "commit"
      BY <1>1 DEF Kept, BlockingIsPlain, EndedUnfired
    <3>3. messages' = messages \/ (t # u /\ messages' = Append(stored[t], t))
      BY <2>2, <3>2, MessagesStep
    <3>4. stored[t] \in Seq(Turn)
      BY DEF Shapes
    <3>5. messages' = Append(stored[t], t) => messages'[Len(messages')] = t
      BY <3>4, AppendProperties
    <3> QED BY <3>1, <3>3, <3>5
  <2> QED BY <1>1, <2>1, <2>2 DEF Next, Step, Over
<1>2. IInv /\ [Next]_vars => [\A t \in Turn : watch[t] = "fired" =>
          Deltas(t)' = Deltas(t) /\ (messages' = messages \/ messages'[Len(messages')] # t)]_vars
  BY <1>1
<1> QED BY <1>2, IInvHolds, PTL DEF Spec, WatchObeyed
=============================================================================
