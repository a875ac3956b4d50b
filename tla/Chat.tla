------------------------------- MODULE Chat -------------------------------
(***************************************************************************)
(* The turns of one chat session (api/routes/chat.py): the blocking one    *)
(* and the streamed one, which holds a slot of the local LLM, races every  *)
(* chunk against the watch on the caller's grant, and whose client may     *)
(* leave at any await.  The gate is its capacity (LLMGate has its queue),  *)
(* the watch is when it fires (Stream has its subscription), a prompt and  *)
(* its reply are the turn they belong to.                                  *)
(***************************************************************************)
EXTENDS Naturals, Sequences, FiniteSets

CONSTANTS
    Turn,       \* the requests, all of one user and one session
    Streamed,   \* those that POST to /stream
    Slots,      \* the capacity of the gate
    MaxDeltas,  \* bound on the chunks of a reply
    MaxChanges, \* bound on the changes of the user's grant
    MaxFaults   \* bound on clients that leave and on failing polls

ASSUME ChatAssumption ==
    /\ IsFiniteSet(Turn) /\ Streamed \subseteq Turn
    /\ Slots \in Nat \ {0}
    /\ MaxDeltas \in Nat /\ MaxChanges \in Nat /\ MaxFaults \in Nat

VARIABLES
    scoped,    \* the session belongs to a Campaign; without one the turns
               \* read what the user GMs
    grant,     \* the user's grant: its role and its epoch
    messages,  \* ChatSession.messages: the turns stored in it, in order
    pc,        \* where each request is
    basis,     \* the grant its context was resolved from
    watched,   \* what its stream stands on
    stored,    \* prep.stored
    slots,     \* the slots it holds
    watch,     \* its grant_watch task
    chunk,     \* its pending anext(stream)
    upstream,  \* its request to the LLM is open
    sent,      \* the events its client was sent
    outcome,   \* how its generator's loop ended
    gone,      \* its client has left, its task is cancelled
    lapsed,    \* history: what it was built on was lost before the stream began
    changes, faults

shared  == <<scoped, grant, messages>>
request == <<basis, watched, stored>>
tasks   == <<watch, chunk, upstream>>
bounds  == <<changes, faults>>
vars == <<shared, pc, request, slots, tasks, sent, outcome, gone, lapsed, bounds>>

Role    == {"gm", "player", "none"}
Grant   == [role : Role, epoch : Nat]
Nothing == [role |-> "unwatched", epoch |-> 0]
Lost    == [role |-> "lost", epoch |-> 0]

\* The points at which a request awaits something.
Awaits == {"session", "retrieval", "slot", "response", "check", "send_meta", "race", "send_delta",
           "cancel_chunk", "cancel_tasks", "aclose", "release", "abandoned", "finalise",
           "call", "commit", "send_error", "send_done", "background"}

\* The slots that are held, each by its turn.
Held  == UNION {{t} \X (1..slots[t]) : t \in Turn}
Taken == Cardinality(Held)

(* TypeOK: every field has its type; no turn holds more than one slot of   *)
(* the gate and together they hold no more than it has, although the       *)
(* stream under a reserved slot asks for one of its own.                   *)
TypeOK ==
    /\ scoped \in BOOLEAN
    /\ grant \in Grant /\ grant.epoch <= MaxChanges
    /\ messages \in Seq(Turn)
    /\ pc \in [Turn -> Awaits \cup {"start", "over"}]
    /\ basis \in [Turn -> Grant]
    /\ watched \in [Turn -> Grant \cup {Nothing, Lost}]
    /\ stored \in [Turn -> Seq(Turn)]
    /\ slots \in [Turn -> 0..1]
    /\ Taken <= Slots
    /\ watch \in [Turn -> {"none", "running", "fired", "cancelled"}]
    /\ chunk \in [Turn -> {"none", "awaited", "text", "end", "failed", "broken"}]
    /\ upstream \in [Turn -> BOOLEAN]
    /\ sent \in [Turn -> Seq({"meta", "delta", "error", "done"})]
    /\ outcome \in [Turn -> {"none", "revoked", "error", "ended", "raised"}]
    /\ gone \in [Turn -> BOOLEAN] /\ lapsed \in [Turn -> BOOLEAN]
    /\ changes \in 0..MaxChanges /\ faults \in 0..MaxFaults

Init ==
    /\ scoped \in BOOLEAN
    /\ grant \in [role : {"gm", "player"}, epoch : {0}]
    /\ messages = <<>>
    /\ pc = [t \in Turn |-> "start"]
    /\ basis = [t \in Turn |-> grant]
    /\ watched = [t \in Turn |-> Nothing]
    /\ stored = [t \in Turn |-> <<>>]
    /\ slots = [t \in Turn |-> 0]
    /\ watch = [t \in Turn |-> "none"]
    /\ chunk = [t \in Turn |-> "none"]
    /\ upstream = [t \in Turn |-> FALSE]
    /\ sent = [t \in Turn |-> <<>>]
    /\ outcome = [t \in Turn |-> "none"]
    /\ gone = [t \in Turn |-> FALSE]
    /\ lapsed = [t \in Turn |-> FALSE]
    /\ changes = 0 /\ faults = 0

Goes(t, from, to) == pc[t] = from /\ pc' = [pc EXCEPT ![t] = to]

Sends(t, event, from, to) ==
    /\ Goes(t, from, to)
    /\ sent' = [sent EXCEPT ![t] = Append(@, event)]

-----------------------------------------------------------------------------
(* The grant: another member's request changes, removes or restores it.    *)

ChangeGrant ==
    /\ changes < MaxChanges /\ changes' = changes + 1
    /\ \E r \in Role \ {grant.role} : grant' = [role |-> r, epoch |-> grant.epoch + 1]
    /\ UNCHANGED <<scoped, messages, pc, request, slots, tasks, sent, outcome, gone, lapsed, faults>>

\* What grant_changed and a poll of grant_watch ask of the watched contexts.
Changed(t) == watched[t] # Nothing /\ watched[t] # grant

\* What a turn was built on is no more: its context, or the GM's reading of
\* a Campaign that a Campaign-less turn had in its role map.
LostBasis(t) ==
    IF scoped THEN basis[t] # grant ELSE basis[t].role = "gm" /\ grant.role # "gm"

-----------------------------------------------------------------------------
(* Both endpoints                                                          *)

\* _prepare_chat resolves the context first; no grant is a 404.
Prepare(t) ==
    /\ Goes(t, "start", IF scoped /\ grant.role = "none" THEN "over" ELSE "session")
    /\ basis' = [basis EXCEPT ![t] = grant]
    /\ UNCHANGED <<shared, watched, stored, slots, tasks, sent, outcome, gone, lapsed, bounds>>

\* Then it reads the session, which is the user's own and not archived.
ReadSession(t) ==
    /\ Goes(t, "session", "retrieval")
    /\ stored' = [stored EXCEPT ![t] = messages]
    /\ UNCHANGED <<shared, basis, watched, slots, tasks, sent, outcome, gone, lapsed, bounds>>

\* _watched_grants: the context itself; without a Campaign, the grant the
\* role map read as GM, resolved again.
Watched(t) ==
    CASE scoped -> basis[t]
      [] ~scoped /\ basis[t].role # "gm" -> Nothing
      [] ~scoped /\ basis[t].role = "gm" ->
            IF grant.role = "gm" THEN grant ELSE Lost

\* The rest of _prepare_chat (the rewrite, the search, the projection).
Retrieve(t) ==
    /\ Goes(t, "retrieval", "slot")
    /\ watched' = [watched EXCEPT ![t] = IF t \in Streamed THEN Watched(t) ELSE @]
    /\ UNCHANGED <<shared, basis, stored, slots, tasks, sent, outcome, gone, lapsed, bounds>>

\* mutant: off by one
RoomForOneMore == Taken <= Slots

Room == Taken < Slots

\* reserve_slot before the response, or gated() around the blocking call.
Reserve(t) ==
    /\ Room
    /\ Goes(t, "slot", IF t \in Streamed THEN "response" ELSE "call")
    /\ slots' = [slots EXCEPT ![t] = 1]
    /\ upstream' = [upstream EXCEPT ![t] = t \notin Streamed]
    /\ UNCHANGED <<shared, request, watch, chunk, sent, outcome, gone, lapsed, bounds>>

\* LLMBusy: 503 before anything is sent.
Busy(t) ==
    /\ ~Room
    /\ Goes(t, "slot", "over")
    /\ UNCHANGED <<shared, request, slots, tasks, sent, outcome, gone, lapsed, bounds>>

\* complete_messages answers; the slot is released with it.
Answer(t) ==
    /\ Goes(t, "call", "commit")
    /\ upstream' = [upstream EXCEPT ![t] = FALSE]
    /\ slots' = [slots EXCEPT ![t] = 0]
    /\ UNCHANGED <<shared, request, watch, chunk, sent, outcome, gone, lapsed, bounds>>

CallFails(t) ==
    /\ Goes(t, "call", "over")
    /\ upstream' = [upstream EXCEPT ![t] = FALSE]
    /\ slots' = [slots EXCEPT ![t] = 0]
    /\ UNCHANGED <<shared, request, watch, chunk, sent, outcome, gone, lapsed, bounds>>

\* _persist_chat_turn: what was stored when the turn began, and the turn.
Persist(t) ==
    /\ Goes(t, "commit", IF t \in Streamed THEN "send_done" ELSE "over")
    /\ messages' = Append(stored[t], t)
    /\ UNCHANGED <<scoped, grant, request, slots, tasks, sent, outcome, gone, lapsed, bounds>>

-----------------------------------------------------------------------------
(* The generator of a streamed turn                                        *)

\* Leaving the try: the finally cancels the watch before it awaits anything.
Stopped(t) == [watch EXCEPT ![t] = IF @ = "running" THEN "cancelled" ELSE @]

Leaves(t, from, how) ==
    /\ Goes(t, from, "cancel_tasks")
    /\ outcome' = [outcome EXCEPT ![t] = how]
    /\ watch' = Stopped(t)

\* The response starts the generator: the watch is a task from here on.
Begin(t) ==
    /\ pc[t] = "response" /\ watched[t] \notin {Nothing, Lost}
    /\ Goes(t, "response", "check")
    /\ watch' = [watch EXCEPT ![t] = "running"]
    /\ lapsed' = [lapsed EXCEPT ![t] = LostBasis(t)]
    /\ UNCHANGED <<shared, request, slots, chunk, upstream, sent, outcome, gone, bounds>>

BeginUnwatched(t) ==
    /\ watched[t] = Nothing
    /\ Sends(t, "meta", "response", "send_meta")
    /\ lapsed' = [lapsed EXCEPT ![t] = LostBasis(t)]
    /\ UNCHANGED <<shared, request, slots, tasks, outcome, gone, bounds>>

BeginLost(t) ==
    /\ watched[t] = Lost
    /\ Leaves(t, "response", "revoked")
    /\ lapsed' = [lapsed EXCEPT ![t] = LostBasis(t)]
    /\ UNCHANGED <<shared, request, slots, chunk, upstream, sent, gone, bounds>>

\* mutant: the watch alone is relied on
WatchSuffices(t) == watch[t] # "fired"

\* grant_changed, once the watch runs.
StillGranted(t) == ~Changed(t)

CheckPasses(t) ==
    /\ StillGranted(t)
    /\ Sends(t, "meta", "check", "send_meta")
    /\ UNCHANGED <<shared, request, slots, tasks, outcome, gone, lapsed, bounds>>

\* The grant has changed, or the check could not run.
CheckRefuses(t) ==
    /\ Leaves(t, "check", "revoked")
    /\ \/ Changed(t) /\ UNCHANGED faults
       \/ faults < MaxFaults /\ faults' = faults + 1
    /\ UNCHANGED <<shared, request, slots, chunk, upstream, sent, gone, lapsed, changes>>

\* stream_messages asks for a slot as well: held() makes that a no-op.
Nested(t) == 0

\* The event has gone out; the next chunk is awaited beside the watch.
NextChunk(t) ==
    /\ pc[t] \in {"send_meta", "send_delta"}
    /\ pc' = [pc EXCEPT ![t] = "race"]
    /\ chunk' = [chunk EXCEPT ![t] = "awaited"]
    /\ upstream' = [upstream EXCEPT ![t] = TRUE]
    /\ slots' = [slots EXCEPT ![t] = IF upstream[t] THEN @ ELSE @ + Nested(t)]
    /\ UNCHANGED <<shared, request, watch, sent, outcome, gone, lapsed, bounds>>

Deltas(t) == Cardinality({i \in 1..Len(sent[t]) : sent[t][i] = "delta"})

\* The LLM: some text, the end, or a failure.  A timeout or a bad status is an
\* HTTPException before the first text and the end of the reply afterwards;
\* a connection that is refused or breaks is left as the exception it is.
Generate(t) ==
    /\ chunk[t] = "awaited"
    /\ \E c \in {"text", "end", "failed", "broken"} :
         /\ c = "text" => Deltas(t) < MaxDeltas
         /\ c = "failed" => Deltas(t) = 0
         /\ chunk' = [chunk EXCEPT ![t] = c]
         /\ upstream' = [upstream EXCEPT ![t] = c = "text"]
    /\ UNCHANGED <<shared, pc, request, slots, watch, sent, outcome, gone, lapsed, bounds>>

\* A poll or a message of the watch; a failing poll, or a message of an
\* earlier change that arrives late, fires it as well.
Fire(t) ==
    /\ watch[t] = "running"
    /\ watch' = [watch EXCEPT ![t] = "fired"]
    /\ \/ Changed(t) /\ UNCHANGED faults
       \/ faults < MaxFaults /\ faults' = faults + 1
    /\ UNCHANGED <<shared, pc, request, slots, chunk, upstream, sent, outcome, gone, lapsed, changes>>

Arrived(t) == pc[t] = "race" /\ chunk[t] # "awaited"

\* mutant: a chunk that arrived with the change is sent
ChunkFirst(t) == pc[t] = "race" /\ watch[t] = "fired" /\ chunk[t] = "awaited"

\* mutant: only the chunk is waited for
ChunkAwaited(t) == Arrived(t) /\ watch[t] = "fired"

\* asyncio.wait has returned; a chunk that arrived with the change is dropped.
Revoked(t) == pc[t] = "race" /\ watch[t] = "fired"

Taking(t) == Arrived(t) /\ ~Revoked(t)

Revoke(t) ==
    /\ Revoked(t)
    /\ Goes(t, "race", "cancel_chunk")
    /\ outcome' = [outcome EXCEPT ![t] = "revoked"]
    /\ UNCHANGED <<shared, request, slots, tasks, sent, gone, lapsed, bounds>>

TakeText(t) ==
    /\ Taking(t) /\ chunk[t] = "text"
    /\ Sends(t, "delta", "race", "send_delta")
    /\ UNCHANGED <<shared, request, slots, tasks, outcome, gone, lapsed, bounds>>

\* Only an HTTPException is caught: any other leaves through the finally.
TakeEnd(t) ==
    /\ Taking(t)
    /\ \/ chunk[t] = "end" /\ Leaves(t, "race", "ended")
       \/ chunk[t] = "failed" /\ Leaves(t, "race", "error")
       \/ chunk[t] = "broken" /\ Leaves(t, "race", "raised")
    /\ UNCHANGED <<shared, request, slots, chunk, upstream, sent, gone, lapsed, bounds>>

\* A chunk that is cancelled while it waits closes the upstream request.
Cancelled(t) ==
    /\ chunk' = [chunk EXCEPT ![t] = "none"]
    /\ upstream' = [upstream EXCEPT ![t] = @ /\ chunk[t] # "awaited"]

CancelChunk(t) ==
    /\ Goes(t, "cancel_chunk", "cancel_tasks")
    /\ Cancelled(t)
    /\ UNCHANGED <<shared, request, slots, watch, sent, outcome, gone, lapsed, bounds>>

CancelTasks(t) ==
    /\ Goes(t, "cancel_tasks", "aclose")
    /\ Cancelled(t)
    /\ UNCHANGED <<shared, request, slots, watch, sent, outcome, gone, lapsed, bounds>>

\* A cancellation of the task is delivered at this await as well: it is not
\* an Exception, and the release below it is skipped.
Aclose(t) ==
    /\ \/ Goes(t, "aclose", "release")
       \/ gone[t] /\ Goes(t, "aclose", "background")
    /\ upstream' = [upstream EXCEPT ![t] = FALSE]
    /\ UNCHANGED <<shared, request, slots, watch, chunk, sent, outcome, gone, lapsed, bounds>>

Released(t) == slots' = [slots EXCEPT ![t] = 0]

\* slot.release() in the finally, and what follows it.  An exception that
\* leaves the generator ends the response: no event, no background task.
Release(t) ==
    /\ Released(t)
    /\ \/ gone[t] /\ Goes(t, "release", "background") /\ UNCHANGED sent
       \/ ~gone[t] /\ outcome[t] \in {"revoked", "error"} /\ Sends(t, "error", "release", "send_error")
       \/ ~gone[t] /\ outcome[t] = "ended" /\ Deltas(t) > 0
            /\ Goes(t, "release", "commit") /\ UNCHANGED sent
       \/ ~gone[t] /\ outcome[t] = "ended" /\ Deltas(t) = 0
            /\ Goes(t, "release", "send_done") /\ UNCHANGED sent
       \/ ~gone[t] /\ outcome[t] = "raised" /\ Goes(t, "release", "over") /\ UNCHANGED sent
    /\ UNCHANGED <<shared, request, tasks, outcome, gone, lapsed, bounds>>

\* The last event has gone out.
Finish(t) ==
    /\ pc[t] \in {"send_error", "send_done"}
    /\ Goes(t, pc[t], "background")
    /\ UNCHANGED <<shared, request, slots, tasks, sent, outcome, gone, lapsed, bounds>>

\* mutant: no background task
NoBackground(t) == UNCHANGED slots

\* BackgroundTask(slot.release), after the response however it ended.
BackgroundReleases(t) == Released(t)

Background(t) ==
    /\ Goes(t, "background", "over")
    /\ BackgroundReleases(t)
    /\ UNCHANGED <<shared, request, tasks, sent, outcome, gone, lapsed, bounds>>

-----------------------------------------------------------------------------
(* The client leaves: the task is cancelled at what it awaits.             *)

\* Where the cancellation takes the task: past a generator that has not
\* started or is suspended at a yield, otherwise into its finally.
After(t) ==
    CASE pc[t] \in {"response", "commit", "send_error", "send_done"} -> "background"
      [] pc[t] \in {"send_meta", "send_delta"} -> "abandoned"
      [] pc[t] \in {"check", "race", "cancel_chunk"} -> "cancel_tasks"
      [] pc[t] \in {"cancel_tasks", "aclose", "release"} -> pc[t]

\* A commit under way may have reached the database.
Leave(t) ==
    /\ t \in Streamed /\ ~gone[t] /\ faults < MaxFaults
    /\ pc[t] \in {"response", "check", "send_meta", "race", "send_delta", "cancel_chunk",
                  "cancel_tasks", "aclose", "release", "commit", "send_error", "send_done"}
    /\ faults' = faults + 1
    /\ gone' = [gone EXCEPT ![t] = TRUE]
    /\ pc' = [pc EXCEPT ![t] = After(t)]
    /\ watch' = IF After(t) = "cancel_tasks" THEN Stopped(t) ELSE watch
    /\ messages' \in {messages} \cup (IF pc[t] = "commit" THEN {Append(stored[t], t)} ELSE {})
    /\ UNCHANGED <<scoped, grant, request, slots, chunk, upstream, sent, outcome, lapsed, changes>>

\* A suspended generator is finalised only when the response is dropped,
\* after the background task.
Abandon(t) ==
    /\ Goes(t, "abandoned", "finalise")
    /\ BackgroundReleases(t)
    /\ UNCHANGED <<shared, request, tasks, sent, outcome, gone, lapsed, bounds>>

Finalise(t) ==
    /\ Goes(t, "finalise", "over")
    /\ watch' = Stopped(t)
    /\ chunk' = [chunk EXCEPT ![t] = "none"]
    /\ upstream' = [upstream EXCEPT ![t] = FALSE]
    /\ Released(t)
    /\ UNCHANGED <<shared, request, sent, outcome, gone, lapsed, bounds>>

-----------------------------------------------------------------------------

Starts(t)   == Begin(t) \/ BeginUnwatched(t) \/ BeginLost(t)
Cleans(t)   == CancelChunk(t) \/ CancelTasks(t) \/ Aclose(t) \/ Release(t) \/ Abandon(t) \/ Finalise(t)
Streams(t)  == Starts(t) \/ CheckPasses(t) \/ CheckRefuses(t) \/ NextChunk(t) \/ Revoke(t)
                 \/ TakeText(t) \/ TakeEnd(t) \/ Cleans(t) \/ Persist(t) \/ Finish(t) \/ Background(t)
Requests(t) == Prepare(t) \/ ReadSession(t) \/ Retrieve(t) \/ Reserve(t) \/ Busy(t)
Llm(t)      == Answer(t) \/ CallFails(t) \/ Generate(t)

Over == (\A t \in Turn : pc[t] = "over") /\ UNCHANGED vars

Next ==
    \/ ChangeGrant
    \/ \E t \in Turn : Requests(t) \/ Llm(t) \/ Streams(t) \/ Fire(t) \/ Leave(t)
    \/ Over

\* The event loop runs what can run, a client takes what it is sent or
\* leaves, and the watch polls.  Nothing is assumed of the LLM or the gate.
Fairness == \A t \in Turn : WF_vars(Streams(t)) /\ WF_vars(Fire(t))

Spec == Init /\ [][Next]_vars /\ Fairness

-----------------------------------------------------------------------------
(* Properties                                                              *)

(* NothingOnOldGrant: a streamed turn whose grant was lost while it was    *)
(* prepared sends nothing built on it, calls no LLM and stores nothing,    *)
(* although its watch may not have polled yet (the check before the first  *)
(* event).  A blocking turn has no watch and no second check, and is never *)
(* marked lapsed.                                                          *)
NothingOnOldGrant ==
    \A t \in Turn : lapsed[t] =>
        /\ \A i \in 1..Len(sent[t]) : sent[t][i] = "error"
        /\ ~upstream[t]
        /\ \A i \in 1..Len(messages) : messages[i] # t

(* WatchObeyed: from the moment the watch has fired no further text goes   *)
(* out and the turn is not stored, wherever the chunk, the client and the  *)
(* cleanup are.                                                            *)
WatchObeyed ==
    [][\A t \in Turn : watch[t] = "fired" =>
          Deltas(t)' = Deltas(t) /\ (messages' = messages \/ messages'[Len(messages')] # t)]_vars

(* AllGivenBack: a turn that is over holds no slot, no request to the LLM  *)
(* and no task, whether it answered, failed, was revoked, or its client    *)
(* left before the generator started, at a yield or within the cleanup.    *)
AllGivenBack ==
    \A t \in Turn : pc[t] = "over" =>
        slots[t] = 0 /\ ~upstream[t] /\ watch[t] # "running" /\ chunk[t] # "awaited"

Standing(t) == pc[t] \in {"check", "send_meta", "race", "send_delta"}

(* EndsOnChange: a stream whose grant changes ends and gives its slot      *)
(* back, even when the LLM never says another word.                        *)
EndsOnChange ==
    \A t \in Turn : Standing(t) /\ watched[t] # Nothing /\ Changed(t) ~> pc[t] = "over"
=============================================================================
