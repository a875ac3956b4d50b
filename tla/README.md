# Lorekeeper in TLA+

Lorekeeper is a self-hosted AI companion for tabletop campaigns: a FastAPI backend with
Postgres, an RQ worker with Valkey, a small model server (the ml sidecar) and a React
frontend. These modules model the parts of it where several processes, threads or
connections meet, TLC checks them on small instances, and TLAPS proves the most important
results for every instance.

Paths below start at `src/src/`: `backend/app/...`, `services/ml/...`, `frontend/src/...`.

    tlc -workers 2 -config MCJobsAttempts.cfg MCJobs      # model-check a run
    tlapm Jobs_proofs.tla                                 # check the proofs of a module

## 1. The system

| part | state it keeps | operations | interacts with |
|---|---|---|---|
| Jobs (`backend/app/jobs`) | `jobs` rows in Postgres (the authority); RQ messages, the delayed set, leases and the worker registry in Valkey | enqueue, dispatch after the commit, claim, run a step, defer, continue, retry, finish, release, reap, drain | LLM gate (through handlers), progress events, files collection, backfills |
| LLM gate (`core/llm_gate.py`) | three sorted sets in Valkey: holders, waiters, last seen | acquire (poll), renew, release, fail open | every call of the platform's LLM, from routes and from Jobs |
| Publishes (`core/pubsub.py`) | a throttle key in Valkey, a trailing publish per process | leading publish, trailing publish, flush at the loop's end, listen | hooks, grants, visibility, Jobs; the event stream |
| Event stream (`access/events.py`, `core/sse.py`, `access/grants.py`, `useCampaignEvents.ts`) | the grant row, a bounded queue, the watch's and the listener's subscriptions, the client's query cache | connect, subscribe, filter, send, close when the grant changes, refetch, reconnect | publishes, the access registry |
| Model memory budget (`services/ml/ml_service/budget.py`) | reservations, users and last use of each lazy model; a lock for the budget and one per model | acquire with eviction, load, serve, release | the sidecar's request threads |
| Canon (`services/world_service.py`) | entities, aliases, relationships, mentions, steps and their history | apply, repeat, revert, merge, delete, set Visibility | hooks, access rules, event stream |
| Files (`services/file_service.py`, `jobs/files_gc.py`) | rows and bytes | put, supersede, delete, collect | after-commit lists, Jobs |
| After-commit lists, hooks, `enqueue` (`core/after_commit.py`, `core/hooks.py`, `jobs/enqueue.py`) | what a session keeps for its commit, per savepoint; the tasks of handlers | defer, drop on rollback, run after the commit, call handlers, drain | outbox, grants, files, Canon |
| Access rules (`access/*`) | static registry, rows' visibility | filter, project, narrow | every route |
| Chat (`api/routes/chat.py`) | the messages of a session; per request a slot, a watch, a pending chunk | prepare, reserve, stream, revoke, persist, clean up | LLM gate, grants, retrieval |
| Billing (`services/billing_service.py`) | the user's access, the Subscription, the redemption | webhooks, redeem, override, checkout, meter | payment provider |
| Projection and chats' lists (`access/context.py`, `projection.py`, `sources.py`) | none: pure functions of rows and a context | narrow, reduce, project, cite, replay, list | every route, chat |
| Campaign content (`api/routes/*`) | Campaigns, grants, links, rows, tags, feedback | create, update, delete, list, share, join, tag, hide, draft | access rules, retrieval, meter |
| Accounts (`routes/auth.py`, `admin.py`, `deps.py`) | users, promo codes, reset links, the platform's settings | register, log in, reset, redeem, administer | billing, every route |
| Model calls (`services/llm_provider.py`, `llm_config_service.py`, `prompt_budget.py`, `ollama_service.py`) | saved settings; Ollama's files and names | resolve, fit, call, repair, stream, probe, evaluate, install | LLM gate, meter, chat, Jobs |
| Retrieval (`services/retrieval_service.py`, `source_service.py`, `chat_service.py`) | embeddings beside their rows | index, search, fuse, gate, build a prompt | sidecar, access rules, chat |
| ml sidecar and its client (`services/ml`, `clients/ml.py`) | loaded models | embed, entail, name, read an image; batch and retry | memory budget, retrieval |
| Upkeep: cache, serving, schedules (`access/cache.py`, `jobs/backfill.py`, `jobs/files_gc.py`) | generations, the volume, a day key, cursors, backfill rows | get, invalidate, serve, pass, sweep, fan out | Jobs, files |
| Screens, export, e-mail, speech, scripts | none of their own | requests and formatting | |

What is hard here, and what each part should guarantee:

* **Jobs.** A row and the message that carries its id are written by different systems, so
  each may exist without the other. Work horses are killed; the reaper decides who is dead
  from a registry and clocks it read earlier, so attempts of one Job overlap. Guarantees:
  each step's writes land once; attempts stay within `max_attempts`; a Job's end is final; a
  dependent waits; one Job per leased resource; every queued Job ends.
* **LLM gate.** Calls die, stall and are cancelled with a script on its way. Guarantees: the
  capacity, the order of service, no purge of a call that renews, no starvation of a call
  that keeps asking.
* **Publishes.** A window shared by processes and a trail per process. Guarantee: the last
  value is announced.
* **Event stream.** Commits, publishes, subscriptions and refetches interleave and a frame is
  filtered by what the row is at delivery. Guarantees: no screen stays stale; no stream
  outlives its grant.
* **Memory budget.** Two kinds of lock, loads that fail with other requests waiting.
  Guarantees: the budget, no leaked reservation, no eviction that waits, every request ends.
* **Files.** Rows roll back and bytes do not. Bytes follow the savepoints through lists on the
  session, threads outlive cancelled callers, and a collector removes what nobody owns.
  Guarantees: a committed row has its bytes; an undone put leaves none; a superseded file goes,
  the last of its key does not; what a crash leaves is collected.
* **Canon.** Concurrent transactions that lock some of what they read, reverts of old changes,
  merges that move rows. Guarantees: it is as if changes happened one after another and at once,
  each doing what its history row tells and nothing else; a proposal is applied once; a revert
  restores or refuses; a merge shows nobody more than before.
* **Access rules.** Each rule is written twice, in Python over loaded rows and in SQL.
  Guarantee: the two agree, for every viewer and every row.
* **After-commit lists.** Savepoints that roll back inside others that do not, tasks after the
  commit, handlers with commits of their own. Guarantees: nothing of a rollback is handed on;
  what commits is, once and in order, unless the process dies; a drain leaves nothing.
* **Chat.** Text from an LLM, a grant that changes and a client that leaves race one another.
  Guarantees: nothing built on a lost grant goes out; everything taken is given back.
* **Projection.** Fields, attributes, history rows, citations and old messages each carry a rule of
  their own. Guarantees: a hidden field cannot be told from an unset one; no reduction, preview or
  demotion shows more; what the database lists, Python opens.
* **Content, accounts.** Requests that read committed rows and overtake one another, over unique
  indexes and cascades. Guarantees: references and keys stay sound whatever overtakes; what a reader
  may not read changes no list; a code is redeemed as it counts; an administrator remains.
* **Model calls, retrieval, sidecar.** Answers may be cut, empty, malformed, of another build, or
  missing. Guarantees: the prompt fits the window or is refused; only answers are kept; a result is
  whole or absent; what is metered ran on the platform; an install leaves nothing behind.
* **Upkeep.** A pass may die after each of its commands and anything may come between two of
  them. Guarantees: no stale hit, no candidate twice, a day at most once, a Campaign one Job.
* **Billing.** Webhooks in any order beside redemptions, over rows read earlier. Guarantee: who
  redeemed a promo code keeps the access.

`PROJECT.json` lists the components one by one, the hazards at their lines with the
properties that cover them, and for each definition the lines it stands for.

## 2. The modules

| module | models | checked by | proofs |
|---|---|---|---|
| `Jobs` | `jobs/worker.py`, `outbox.py`, `admission.py`, `enqueue.py` | `MCJobs` with two configurations | `Jobs_proofs` |
| `JobLifecycle` | the abstract promise of a Job; `Jobs` refines it | property `LifecycleSpec` | `LifecycleHolds` |
| `LLMGate` | `core/llm_gate.py` | `MCLLMGate` | `LLMGate_proofs` |
| `Throttle` | the throttled publishes of `core/pubsub.py` | `MCThrottle` | in `Stream_proofs` |
| `Stream` | `access/grants.py`, `access/events.py`, the listener of `core/pubsub.py`, `core/sse.py`, `useCampaignEvents.ts` | `MCStream` | `Stream_proofs` |
| `Budget` | `ml_service/budget.py`, `models.py` | `MCBudget` | `Budget_proofs` |
| `Files` | `services/file_service.py` | `MCFiles` | `Files_proofs` |
| `Outbox` | `core/after_commit.py`, `core/hooks.py`, `jobs/enqueue.py`, `jobs/outbox.py` | `MCOutbox` | `Outbox_proofs` |
| `Access` | `access/audience.py`, `access/registry.py` (pure operators) | through `Canon` | `Canon_proofs` |
| `Canon` | `services/world_service.py`, extends `Access` | `MCCanon` with two configurations | `Canon_proofs` |
| `CanonHistory` | the abstract promise of the Canon, without sessions and locks; `Canon` refines it | property `HistorySpec` | `HistoryRefined` |
| `Chat` | `api/routes/chat.py` with the ends of `access/grants.py`, `core/llm_gate.py`, `services/llm_provider.py` it touches | `MCChat` | `Chat_proofs` |
| `Billing` | `services/billing_service.py`, `db/models/subscription.py` | `MCBilling` | – |
| `Projection` | `access/context.py`, `projection.py`, `sources.py`, `domain/entity_types.py`, the lists of `routes/chat.py`; extends `Access` | `MCContent` | `Canon_proofs` |
| `Prompts`, `Providers`, `Retrieval` | `services/prompt_budget.py`; `llm_provider.py`; `retrieval_service.py`, `source_service.py`, `chat_service.py` and the drafts | `MCPrompting`, in `MCChat` | – |
| `Settings` | `services/llm_config_service.py`, `eval_service.py`, `routes/settings.py`; extends `Providers` | `MCSettings`, in `MCLLMGate` | – |
| `Accounts` | `routes/auth.py`, `routes/admin.py`, `deps.py`, `access/identity.py`, `core/security.py` | `MCAccounts`, in `MCThrottle` | – |
| `ModelInstall` | `services/ollama_service.py` | `MCBudget` | – |
| `Content` | the routes of Campaigns, rows, tags, links, Members, Visibility, feedback, ingestion; `journal_service.py`, `dedup_service.py`; extends `Projection` | `MCContent`, in `MCFiles` | – |
| `Sidecar` | `ml_service/app.py`, `models.py`, `clients/ml.py` | `MCUpkeep`, in `MCFiles` | – |
| `Upkeep` | `access/cache.py`, `jobs/backfill.py`, `jobs/files_gc.py`, `db` backfills, serving of `file_service.py` | `MCUpkeep`, in `MCFiles` | – |

The modules from `Projection` on have no variables: each definition is one request, one call or one
command as a function of what it reads. What must hold of them is stated as an `ASSUME` over
small inputs, or over every history of a few requests, in the `MC` module named, and TLC
evaluates it before the run of the module that extends it. Where two requests may overlap, a
definition takes the rows the request has read (`seen`) and those that are there when it commits
(`db`), so that a race is an argument and not left out.

The other `MC` modules only give values to constants. In each module the definitions marked
`mutant:` are broken variants of the definition below them; a property that no such variant
violates would say nothing, so every property of a passing run has one.

Disturbances (a lost command, a kill, a stall) are actions guarded by `Disturb(kind)`: the
constant `Faults` says which kinds a run allows and `MaxFaults` how many happen.

### Jobs

One action is one transaction or one Valkey command. The row's columns are `status`,
`attempts`, `owner` (`worker_id`), `due` (`next_run_at`: unset, future, past) and `cursor`;
`young` and `silent` stand for what is compared with `created_at` and `heartbeat_at`. A
message is `<<job, form>>`: RQ deletes a finished message by id, so it matters whether a
message has the Job's id or a distinct one. A work horse goes through `pc`: taken (message
received), claimed, run (handler called), release, push (continuation), return.

* `Claim` is `_claim`: one UPDATE that rechecks status and `next_run_at`. The dependency is
  read just before it, which is the same as with it because an ended Job stays ended.
* Every outcome (`Succeed`, `Continue`, `Defer`, `FailRow`, `RetryRow`) goes through `Owns`,
  the `_owned` row lock, and does nothing but leave when the attempt was taken back.
* `Recover` and `PushDue` are a reaper pass over what `Snapshot` read. Between the two reads
  the clock does not move (`NoPassReading`): a pass compares rows with the time it read first.
* `EndRows` includes the after-commit release of the dependents.
* `Flush` loses all of Valkey, registry included; workers come back when they start anew.

Not modelled: several leased resources of one Job (one lease here), `SKIP LOCKED`,
`REAPER_BATCH`, queue priorities, `JOBS_EAGER`, and a work horse that survives its worker.
Each Job is enqueued once; the keys of `enqueue` are in `Outbox`. Messages of one Job and one form
collapse into one. `FOR SHARE` in `enqueue` is why the enqueue and its commit are one action.

### LLMGate

A script is one action, and so is the reply. `Tick` is one renewal period; `left` counts the
periods of a holder's TTL, `stale` holds the waiters that did not poll during a period, which
is longer than `waiter_stale_s`. `Cancel` may leave a script on its way (`late`) that runs
after the release. `Ungated` and `PollFails` are the paths on which the gate fails open.
Not modelled: `snapshot()`, the no-op slots of calls with the user's own key or inside
another slot, and clock skew between processes.

### Throttle

One throttle key. `Acquire` is the SET at the server and `Lead`/`Follow` what the task does
with the answer; `Wake` and `Trail` are the same two halves of the trailing publish. Values
are numbered in the order the publishes begin. The retries while the key settles are part of
the sleep. A send that is under way when the loop ends arrives or is one of the losses (`Send`):
section 4 says which one the code leaves open.

### Stream

One Member, one stream at a time, one row that the GM edits, hides, deletes, and a grant the
GM changes. The commit, its publish, the poll, the SUBSCRIBE being sent and being processed,
the filter's own read, the frame being read, the refetch being answered and being shown are
separate steps. `copy` is what the screen shows: a version of the row, or nothing. Pings, the
idle watchdog and backoff delays appear as `Drop` and `Connect`. Not modelled: share links
and the Owner's grant, preview narrowing, throttling of unkeyed publishes (that is
`Throttle`), the first fetch of a screen, refetches that fail. A client that was told 404 has
stopped for good and is exempt, as is a screen whose invalidation was not published at all
(`lost`).

### Budget

All a thread does under the budget lock is one action; taking a model's lock, loading and
serving are others. `in_use` is the set of requests it counts, `last_used` the order `older`.
Not modelled: garbage collection after an eviction, the labels of the status report and its
reads without the lock.

### Files

One Campaign. A put makes a new id and a new storage key each time, so a file and its place on
the volume are one model value that is used once; `Key` gives the `cache_key` (with kind and
owner) it is put under.

* The database is READ COMMITTED: `row` holds the committed rows, `work` the uncommitted
  changes of each session, `Seen` what a statement reads. A statement that would change a row
  another session has changed waits (`Locked`, `PutWaits`). The UPDATE and the INSERT of
  `_insert` are one action; the unique index that refuses the INSERT, a deadlock and an error
  are `InsertFails`.
* The transactions of a session are numbered as they open; an entry of the pending lists, and
  a change, carries in `path` the numbers of those open around it. The walk of `_within` up
  the parents is membership in `path`.
* `StartPut`, `Rename` and `Insert` are the three phases of `_store`. The thread is not bound
  to its caller: after `Cancel` it still renames. A failed `unlink` is logged and leaves what
  a crash before it leaves.
* `Commit` is COMMIT at the database, `AfterCommit` the handlers of the session after it.
  `CommitInDoubt` is a connection lost in between: the session rolls back and removes the
  bytes of a row that is committed. That row is in `doubt`, and `open` answers 404 for it.
* `GcCheck` and `GcUnlink` are the two halves of `gc_one` for an orphan. `gc_candidates` sorts
  orphans before superseded files, so a step unlinks before it deletes rows. `GcDelete` rechecks
  as `gc_one` does; the list made before it only decides what is looked at.
* `Age` lets 24 hours pass for the bytes of one file. A transaction or a write is never open
  that long: requests and Jobs are ended far earlier than `GC_GRACE`.

Not modelled: directories of deleted Campaigns, serving (`resolve`, `open`, ETags, manifests),
the checks of types, names and contents, symbolic links, and the daily schedule.

### Outbox

What a session keeps until its commit, for the two users of the lists that do something after
it: the Jobs outbox (its own copy of the list) and the hooks (through `core/after_commit.py`).
An entry carries the numbers of the transactions open around it, as in `Files`, and so does
each uncommitted row: the code drops entries by walking up SQLAlchemy's parents, the database
drops rows by its savepoints, and the two must agree.

* `Emit` is a change with its `emit`; `SelectJob`, `InsertLost`, `InsertJob` are one pass of the
  loop of `enqueue`, whose insert waits (`Blocked`) for another session's row of the key.
* `Commit`, `Push` and `Dispatched` are the commit and the callbacks inside it: the Jobs are
  pushed first, then one task is scheduled for the Events that have handlers.
* A handler's session is a session: it may emit, enqueue, fail (`RollBack`) and schedule the
  next task. `CallHandler` is `_call` opening it; `DrainAgain` is the loop of `drain`.

Not modelled: a commit without an event loop or a bind (the hooks are dropped with a log line),
the registration of handlers, `JOBS_EAGER`, the grants' and the files' lists (`Stream`, `Files`).

### Access

The four Audiences and their order, the Audience of each kind of row (stored, with a floor,
derived from a parent, an edge between two, a field of the history, a file with its sources),
and the SQL clause built for each from the same registration. A clause is the truth of its
expression in a WHERE, where NULL hides the row. Not modelled: the registrations themselves (a
static table); the payloads are in `Projection`.

### Projection

A context is a Campaign, a Role and an Audience; `NarrowForPreview` and `Reduced` are what the
preview header and `audience_ctx` make of it. `PartyView`, `RowSeen` and `Served` are what a
reader is served of an Entity, of a row of its history, of a link; `RefSeen` and `Replayed` what of a
message's sources stands and what goes back into a prompt. `ChatReached`, `ChatListed` and
`ChatFound` are the three ways the chat routes look for a session: one in Python, two in SQL. The
registry of Entity Types is a table of `AttrDef`s, and `CheckValue` what a write makes of an
attribute. Not modelled: response schemas field by field, the bodies of previews.

### Canon

One Campaign of Quests with edges, steps, Mentions and aliases. A transaction makes one change:
it takes its locks one by one (`Lock`: the proposal's advisory lock, then each row `_entity` or
`_row` selects FOR UPDATE), reads (`Apply`), waits for the rows its flush writes (`FlushRow`)
and commits. What it reads without a lock another session may change until its flush. `plan`
holds the writes: a column that is not written keeps what others committed, and a merge writes
a floor only where it changes it. An INSERT over a row that is there and an UPDATE of one that is
gone end the transaction (`Conflicts`). An id is of no row there is or ever was (`Unused`), as a
uuid4 is. `HistoryReplays` is stated without recursion: `Says` is a row of the history that sets
a field, and `Told` the value in force before a row.

`CanonHistory` is what all that is for: the tables and the history alone, one change at a time.
A change appends one row to the history and the tables change by what it tells: `Edit` (columns
that held `old` hold `new`; never a column that says where a row hangs or who reads it), `Add`,
`Remove` (what is gone was `old`), a note that touches nothing, and `Merge`, where everything of
the absorbed Entity goes to the survivor and nothing else moves. `HistorySpec` says that `Canon`
implements it with the same two variables (`Serial == INSTANCE CanonHistory`): locks, plans,
flushes and rollbacks are stutters, a commit is a change. `Remove` makes one exception, for an
edge: that an edge taken back may have been re-pointed since it was read is the finding of the run
`canon_race`.

Not modelled: names' and descriptions' text, attributes, tags, spans, the types of
relationships, `gm_notes`, several changes in one transaction, the refs and staleness marks a
change reports (their event is in `Stream` and `Outbox`).

### Chat

The requests of one user and one session. The stages of `pc` are the awaits of `_prepare_chat`
(the context, then the session, then retrieval) and `event_stream`, for a cancellation is delivered at an await and nowhere else: `Leave` takes
a request to where the exception leads (`After`). A generator suspended at a yield is not run
by a cancellation: the response ends, its background task releases the slot (`Abandon`), and
the generator's own cleanup runs when it is collected (`Finalise`). `watch`, `chunk` and
`upstream` are the two tasks of a turn and its HTTP request. `Changed` is the comparison of the
watched context with the grant, by role and epoch; a turn without a Campaign watches the grant
it read as GM. `Generate` is a text, the end or a failure: an HTTPException (`failed`) is caught
and sent as `error`, any other exception (`broken`) leaves the generator after its `finally`, and the
response ends with no more events and no background task. `lapsed` marks streamed turns only:
a blocking turn has neither watch nor second check. Not modelled: the search, the prompt, projections, the user's own key (no slot),
the gate's waiting (a full gate refuses at once or later, `Busy`), several Campaigns in the role
map, and the end of the request's database session, which the framework may close before a
streamed turn is persisted.

### Billing

One user, one Stripe customer, one subscription. A session reads the committed rows, and its
flush writes the columns it changed (`Updated`), which is what the ORM does: assigning the value
that was read writes nothing. `FlushEvent` and `FlushUser` are the autoflush before the last
SELECT of `_recompute_access` and of `_get_or_create_subscription_row`. Not modelled: the
signature, tokens' arithmetic, the portal and e-mail; the code's own count and expiry are in
`Accounts`.

### Prompts, Providers, Retrieval (`MCPrompting`)

A text is its length, except where it is split. `Prompts` estimates, drops, truncates, splits and
reduces in rounds. `Providers` names the model a call goes to, whether it needs a slot, and
follows the attempts of a structured call with their repairs, a stream with its end, and a
connection test; an answer is one of the forms a provider can give. `Retrieval` ranks by
distance and by words over the rows the reader may see, fuses and gates, and builds a turn's prompt
and each draft's. Checked: the fewest messages are dropped and a prompt is refused only when it
must be; splits and rounds lose nothing; attempts, repairs and slots are bounded and given back; rows
the reader may not read change nothing of what is found; the model is told that there is no record
exactly when the reply is marked so; failures cost nothing, and are not served as text.
Not modelled: wire formats, the wording of prompts, the quality of rankings.

### Settings, ModelInstall

`ResolveLLMConfig` takes what is saved, whether the platform is open and the Subscription to a
configuration or a refusal; `Meter` and `EvaluateModel` charge. `ModelInstall` is the generator of
`install` step by step, ended by an error of any call or by the administrator's leaving at any
event (the `finally` included). Checked: the platform's model is for who may have it, what is metered
ran there, refusals fit; and whatever ends an install leaves no temporary file and loses no model,
a name means a new file only when it is whole, and a repeated install ends well.

### Accounts

Users, codes, reset links and the platform's switch, with `seen` and `db`. Checked over short
histories: an administrator remains, sessions end with a reset (but for tokens of the same
second), codes are redeemed as counted in sequence, the lockout holds. `RacesCountOnce` states
what a race does: a last redemption given twice and counted once, two first administrators.

### Content (`MCContent`)

One Campaign with its Owner, a co-GM, a Player and strangers; nine kinds of rows with bodies
abstracted to what rules look at. Checked for each user, over every pair of requests of which one
overtakes the other: references, grants, unique keys (`SoundWhateverOvertakes`); a refusal
changes nothing; what a reader may not read changes no list, order, page, total or count; no draft is
made of it; dead links look alike; a preview changes nothing; a narrative that is written and saved
is metered once. Races that lose are stated as such (`HidingRacesDeletion`, `FiledTwiceIsStuck`,
the exception of `GrantsAreTold`).

### Sidecar (`MCUpkeep`)

Both ends of each endpoint with the same limits. A reply is a form on the wire (timeout, exchange
cut, no JSON), a status and a body of some build. Checked: batches come back whole and in order,
never vectors of two builds, only what may pass is retried, offsets are of the text sent, and an
uploader is told why.

### Upkeep (`MCUpkeep`)

The cache (a GET, a fill and an invalidation are several commands each), the open of a file
(check, resolve, read), the walk by cursor, the pass of the collection's schedule and the pass of a
backfill. `ReachedIn` enumerates every course of a given number of steps with what others do
between the commands. Checked: no hit is older than the last invalidation before the reader
looked; the bytes answered are the row's or none; 304 only under the grant of the first answer;
each candidate once; a day's collection enqueued once and sweeping no live directory; one Job for
each Campaign of a backfill's time.

## 3. The runs

| run | bounds | shows | size |
|---|---|---|---|
| `jobs_attempts` | one two-step Job, 2 workers (symmetric), 1 reaper, 2 attempts, 2 of 7 kinds of disturbance | steps once, calls bounded; undisturbed, a runnable row always has a carrier | 1.9 million states |
| `jobs_live` | a Job and its dependent, both of a kind that takes the lease, 1 worker, 1 attempt, 1 disturbance | every queued Job ends, the one that waits for a lease nobody holds any more included; the Jobs keep to `JobLifecycle` | 152,900 |
| `llm_gate` | 3 calls of 2 classes, 1 slot, TTL 3, 1 disturbance | capacity, order, healthy holders, patience | 448,000 |
| `throttle` | 4 publishes of one process, the last a status change, 1 loss | the newest value is sent | 329,000 |
| `stream` | 2 changes of any kind, queue of 1, 1 disturbance of 6 kinds | screens are fresh in the end, streams end with their grant | 223,000 |
| `budget` | 5 requests for 3 models (cost 1, 1, 2; budget 2), 2 failing loads | budget, no leak, no waiting eviction, every request ends | 28,000 |
| `files` | 2 versions of one artefact, 1 session with one savepoint per transaction, the collector, 1 disturbance of 4 kinds | rows have their bytes, undone puts leave none, keys are kept, litter is collected | 159,000 |
| `canon` | 4 Quests (2 party, private, gm) with an edge, a step, a Mention, an alias, and ids for 3 more; 25 changes and the reverts; 2 sessions (symmetric); 2 history rows, each reverted with and without force, one also for a proposal | types and foreign keys, history replays, proposals once, merges do not widen, reverts of edits, removals, added steps and Mentions restore; each commit is one change of `CanonHistory` | 383,500 |
| `canon_race` | the same world; one new edge, one merge, its revert | **violated**: `RevertSeesItsEdge` | |
| `outbox` | 2 requests and the handlers of 3 Events (one of them nested, one with two handlers), savepoints 2 deep, 1 key, 2 Jobs, 2 passes of the loop, 1 fault | nothing of a rollback is handed on, what commits is, once and in order; a drain leaves nothing | 608,000 |
| `chat` | 1 streamed and 1 blocking turn, 1 slot, 2 chunks, 2 changes of the grant, 2 faults | no text on a lost grant, a fired watch is obeyed, all is given back, the stream ends | 315,600 |
| `billing` | 2 sessions (symmetric), 4 transactions of any kind | **violated**: `PromoKeepsAccess` | |

`jobs_live` has one worker and one attempt, the most that liveness leaves room for. A release that
is lost leaves the lease to a Job that has ended, and the dependent is deferred until it expires.
Overlapping attempts are in `jobs_attempts`, and `LifecycleHolds` proves `LifecycleSpec` for any
number of workers and attempts. That a Job whose attempts fail ends after its retries is not in a
liveness run: `HandlerCallsBounded` bounds the attempts.

Why the bounds are enough. Two workers give an attempt and the one that replaces it; with
two disturbances one can be silenced and another killed, and two attempts give a retry and a
last one. Two steps make a continuation. Two requests of one model make one wait for the
other's load and inherit its failure; a third model forces evictions. A queue of one frame
overflows at the second event, the earliest possible. One slot makes every grant a decision
about order. A TTL of 3 periods allows one missed renewal. Two versions of one artefact let
the second supersede the first and the collector take it; with one savepoint a put may lie
within it or around it. A second user session makes the instance ten times larger and was
checked apart, without disturbances; the safety properties of `Files` are proved for any
number of sessions and any depth. Savepoints two deep are the least that tell "inside" from "the same"; a key with two Jobs and
two passes is a lost insert whose winner ends before the next look. In `canon` two history rows
let one change be reverted after another, or a revert be reverted, while a second session is at
any point of a third; a second Quest of the same name makes aliases collide at a merge. Two
changes of a grant take it away and give it back between two looks of the watch. The proofs
below remove the bounds where they exist.

The rules of the stateless modules are evaluated with the runs `chat`, `llm_gate`, `throttle`,
`budget` and `files`. Their inputs are every value of the small types above, lists up to the
length at which a second batch, chunk or page begins, and, for `Accounts`, `Content` and `Upkeep`,
every history of a few requests, every pair of requests after one, or every course of 6 to
11 commands: the least in which a race of two has a beginning, a middle and a look afterwards.

`CHECK_DEADLOCK FALSE` is set where the workload of the instance is finite and the system then
rests (`Chat` says so itself, with `Over`, and is checked for deadlock).

### Fairness

Weak fairness is given to what the code's own schedulers drive: RQ's worker loop and the work
horse, the reaper and drain threads, awaited tasks, threads of a pool, the client's loop, and
the passing of time. The time steps of `Jobs` are strongly fair, because a reaper pass that
is reading disables them for its few seconds, again and again. No fairness is given to
requests, to changes by the GM or to disturbances. A Live Session is taken to end, an LLM
call has a timeout, and a stuck event loop gets unstuck.
In `Files` the sessions of users owe nothing, not even an end; the threads end, the daily Job
runs, and its walk (a cursor over sorted candidates) comes to every entry that stays a
candidate, which is the strong fairness of `GcCheck`: between two looks the entry is not
enabled because the Job is in another step.
In `Chat` the event loop runs a turn on and the watch polls; nothing is owed by the LLM or by
the gate, so a chunk may never come. `Canon`, `Outbox` and `Billing` have no liveness.

## 4. What was found

Two places where the code and its own words part, each the violated property of a run with a
short trace:

1. **A revert deletes what a merge re-pointed** (`canon_race`). `world_service.py:60` says that a
   row change whose row changed is superseded unless forced. Reverting `add_relationship` reads
   the edge without a lock and holds only its source; a merge of the target holds the two
   Entities it merges. It re-points the edge and commits in between, and the DELETE of the
   revert's flush, which goes by the id, takes the edge that now leads to the survivor.
   (Reverting an edge's update is safe: `_edge` locks it. So are steps and Mentions, whose
   Entity the revert and every change of them lock.)
2. **A redemption without access** (`billing`). `billing_service.py:249` says a lapsed subscription
   does not strip the access of someone who holds a redemption. A webhook that ends the
   subscription sees no redemption and commits `access_granted` False; the redemption under way
   loaded the user with True, so its assignment of True writes nothing, and it commits the code
   as used and the user without access. With one session at a time the property holds.

Observed while modelling and described here only; the passing runs leave these cases out:

* **The lease is released by Job id** (`admission.py:187`). `admission.py:56` promises one Job per
  resource. A reaper pass that read the registry earlier pushes a continued Job again, another
  worker takes the same lease over, and the first worker's release deletes it under the running
  step: a second Job runs alongside. No failure is needed.
* **A value given to a dying trail** (`pubsub.py:224`). With two processes on one key, a refused
  publish may write into a trail that has already been refused the next window by the other
  process; the trail ends unsent with the newer value in it (`pubsub.py:25` says it never is).
  `throttle` runs one process.
* **A trail's send at the end of its loop** (`pubsub.py:205`). A trail leaves `_TRAILING` before it
  sends. If the loop ends within that send, `flush_pending` (`pubsub.py:248`) does not see it, and
  the send may be cancelled with its task. `LoopEnds` does not cancel it: to `NothingUnannounced`
  and `NewestIsSent` it is a message that arrives unless the disturbance of the run takes it.
* **A connection that is refused or breaks** (`llm_provider.py:862`). `chat_stream` says it sends
  `error` "if the model was unreachable before any token arrived". Only a timeout, a bad status and an
  empty reply become the HTTPException that `chat.py:559` catches. `httpx.ConnectError` leaves the
  generator: after `meta`, or in the middle of a text, the stream ends without another event and
  without its background task. In `Chat` this is the outcome `raised`; the slot is released in the
  `finally`, so `AllGivenBack` holds.
* **The unconfirmed subscription** (`grants.py:335`). SUBSCRIBE is only sent before the first poll,
  so a change and its publish in between are noticed at the next poll, against `grants.py:397`
  ("no change slips between"). `EndsWithGrant` holds all the same.
* **Deletions are published keyed** (`hooks/world.py:36`), against `events.py:17`: the filter
  drops them for a Player, whose screen keeps the row. No route deletes through `apply_change`
  at this commit. `FreshOrRefetched` exempts a deleted row.
* **Steps move to a private survivor** (`world_service.py:898`). The comment says steps move only
  when that cannot widen them; the test is that the survivor is not `party`, and steps of a `gm`
  Quest merged into a `private` one become its owner's to read. `MergeNeverWidens` is stated of
  the other rows.
* **Lost counts** (`routes/auth.py`, `billing_service.py`). `failed_login_attempts`, a code's
  `redemption_count` and the count of users are read and written back: two at once count as one, and
  an empty deployment may get two administrators. Two reset requests leave two links. The count of
  failed logins is not reset when a lockout ends, so one more wrong password locks again.
* **Which model runs, and who pays** (`llm_config_service.py`). Settings of provider `kobold` with a
  model or key but no URL count as personal and run unmetered on the platform's model; a `custom`
  provider with the platform's URL passes by the gate; an evaluation by variant runs on the platform
  and is metered only if a Subscription row exists.
* **Prompts that are not fitted.** A transcript cut at 12,000 characters is estimated above the local
  model's default window (`TranscriptsOutgrowTheWindow`). Autocomplete and quest suggestions that
  fail are metered, though empty.
* **Tags without a type** (`routes/tags.py`). NULL types escape the unique index: two first
  attachments at once leave two tags of one name in a category, and every later one of that name is
  a 500 (`FiledTwiceIsStuck`).
* **Duplicate notes.** The 409 comes from a key that lives 24 hours: after it a duplicate is a 500, and
  a deleted entry's notes are refused for a day.
* **Deletions that race.** A template's check for hidden sheets races with hiding one; a Member who
  joins while the Campaign is deleted is not told (the poll of the watch finds it); two joins at once
  are a 500, as is feedback on a Campaign that does not exist.
* **Chat search.** The SQL filter is called a superset but matches JSON-escaped text, so a needle
  with quotes misses; in preview a GM's Campaign chats are listed and answer 404. Someone removed
  from every Campaign is shown his old messages without one again, as the code says.
* **Sidecar and install.** Every 500 counts as retryable; an undecodable image still loads the OCR
  model. A download of unknown size that is cut off looks whole unless a digest is known.
* **Backfill.** A failed Job that is deleted before the next pass counts as finished.
* **Two turns of one session** (`chat.py:384`): the later one to be stored writes back the messages
  it read, and the other turn is gone. No line promises otherwise.

## 5. What is proved

| theorem | property | argument |
|---|---|---|
| `Jobs_proofs!TypeCorrect` | `TypeOK` | inductive; one step per action |
| `Jobs_proofs!EachStepOnceHolds` | `EachStepOnce` | `StepInv` |
| `Jobs_proofs!HandlerCallsBoundedHolds` | `HandlerCallsBounded` | `AttemptInv`, with `StepInv` |
| `Jobs_proofs!RunnableIsCarriedHolds` | `RunnableIsCarried` | `CarryInv`, with `StepInv` |
| `Jobs_proofs!LifecycleHolds` | `LifecycleSpec` | step simulation, with `StepInv` |
| `LLMGate_proofs!TypeCorrect`, `SlotsBoundedHolds` | types, `SlotsBounded` | inductive |
| `LLMGate_proofs!HealthyKeepSlotHolds` | `HealthyKeepSlot` | `KeepInv` |
| `LLMGate_proofs!ServedInOrderHolds` | `ServedInOrder` (of steps) | `KeepInv`, `Queued` |
| `Stream_proofs!TypeCorrect` | `TypeOK` | inductive |
| `Stream_proofs!FreshOrRefetchedHolds` | `FreshOrRefetched` | `FreshInv` |
| `Stream_proofs!NothingUnannouncedHolds` | `NothingUnannounced` of `Throttle`, one process | `AnnounceInv` |
| `Budget_proofs!TypeCorrect` | types | inductive |
| `Budget_proofs!NothingLeaksHolds`, `EvictionNeverWaitsHolds` | `NothingLeaks`, `EvictionNeverWaits` | `UseInv` |
| `Budget_proofs!WithinBudgetHolds` | `WithinBudget` | `ReservedFits`, `OlderChains`, with `UseInv` |
| `Files_proofs!TypeCorrect` | types | inductive |
| `Files_proofs!BytesForRowsHolds` | `BytesForRows` | `FilesInv` |
| `Files_proofs!NoLitterHolds` | `NoLitter` | `LitterInv` |
| `Files_proofs!KeysKeptHolds` | `KeysKept` | `KeysInv` |
| `Outbox_proofs!TypesHold` | `TypeOK` (checked by no run) | `IInv`, `Ordered` |
| `Outbox_proofs!HandedOnSafe` | `HandedOnIsCommitted` | `IInv` (`InvariantHolds`) |
| `Outbox_proofs!DrainSafe` | `DrainLeavesNothing` | `IInv` |
| `Outbox_proofs!OrderSafe`, `ForgetsNothing` | `HandledInOrder`, `NothingForgotten` | `Ordered`, with `IInv` |
| `Outbox_proofs!LossesSafe` | `EachLossIsAnotherJob` | `LossesCounted`, with `IInv` |
| `Chat_proofs!TypesHold` | `TypeOK` | `IInv` of the turns |
| `Chat_proofs!AllIsGivenBack` | `AllGivenBack` | `IInv` (`Kept`) |
| `Chat_proofs!NothingIsBuiltOnOldGrant` | `NothingOnOldGrant` | `IInv` (`Built`) |
| `Chat_proofs!WatchIsObeyed` | `WatchObeyed` (of steps) | `IInv` |
| `Canon_proofs!MeetIsConjunction`, `CoversIsOrder` | – | cases of the levels |
| `Canon_proofs!VisClauseAgrees`, `StoredClauseAgrees`, `DerivedClauseAgrees`, `EdgeClauseAgrees`, `FieldClauseAgrees`, `FileClauseAgrees` | – | the clause is true exactly where the Python rule covers the viewer |
| `Canon_proofs!OwnedClauseAgrees`, `LinkClauseAgrees`, `MentionClauseAgrees`, `SelectedAreReadable`, `EntryTagsAreListed`, `FileChecksAgree`, `ListedChatsOpen` | – | the SQL and the Python of the remaining rows, lists, tags, files and chats |
| `Canon_proofs!ReducedReadsLess`, `PreviewOnlyNarrows`, `PublicIsForAll`, `NarrowerRepliesLess`, `ReducedIsServedNoMore`, `DemotedChatsShowNoMore` | – | the order of Audiences, carried through each thing served |
| `Canon_proofs!HiddenLooksUnset`, `HistoryShowsNoMore` | – | cases of the fields; the history is read by present Visibility |
| `Canon_proofs!TypeCorrect` | `TypeOK` of `Canon` | inductive; with the foreign keys |
| `Canon_proofs!AppliedOnceHolds` | `AppliedOnce` | `AppliedInv` |
| `Canon_proofs!HistoryReplaysHolds` | `HistoryReplays` | `ReplayInv` |
| `Canon_proofs!RevertRestoresHolds` | `RevertRestores` (of steps) | `RevertInv`, with `HomesInv` |
| `Canon_proofs!MovedRowNotWider` | – | the data half of the next |
| `Canon_proofs!MergeNeverWidensHolds` | `MergeNeverWidens` (of steps) | `MergeInv`, with `HomesInv` |
| `Canon_proofs!HistoryRefined` | `HistorySpec` | step simulation, with `TellsInv` |

They hold for all values of the constants under the assumptions of the modules
(`ConstantsAssumption`, `GateAssumption`, `StreamAssumption`, `BudgetAssumption`, `FilesAssumption`,
`OutboxAssumption`, `ChatAssumption`, `AccessAssumption`, `CanonAssumption`), which only
type the constants; the gate's TTL is at least two renewal periods, the ids of `Canon`'s tables are
apart, and its first rows have their types and the rows they refer to. `NothingUnannouncedHolds`
has two hypotheses of its own, `ThrottleAssumption` and that one process publishes the key:
section 4 says why it is false of two. Because the proofs are of `Spec`, they need no fairness.

Why the strengthenings are needed:

* `StepInv`. `EachStepOnce` alone does not survive `Succeed`: an attempt could commit an old
  cursor. It adds that an open attempt which still owns its row read the row's present cursor.
  The worker id is enough to tell attempts apart because a worker runs one Job at a time and
  a row it lost is not `running` under its id.
* `AttemptInv`. A claimed attempt will call the handler later; each such call is charged in
  advance, so that the number of calls made and pending stays below `attempts`. A queued row
  always has an attempt left, which is what makes the claim's increment safe, and is why the
  deferral must give its attempt back and the recovery must compare before it requeues.
* `LifecycleStep`. Each action maps to a step of `JobLifecycle` or a stutter: `Enqueue` to
  `Submit`, `Claim` to `Begin`, `Succeed` and `Continue` to `Make`, every other change of a
  status to `Undo`. `StepInv` is needed for `Make`, whose step count is history and not the
  row's cursor.
* `CarryInv`. Before the first step no worker returns from a runnable Job, so the outbox, a
  message or a worker that has not looked yet carries it; after it only the continuation does,
  under a `distinct` id that no worker's deletion takes with it. Nothing has a trace that has no
  row and no dependency that is over (`Traced`, `Rooted`).
* `KeepInv`. The TTL is an account: periods left, renewals missed and a renewal due add up to
  the TTL for a healthy call; the tick cannot pass while a renewal is due.
* `Queued`. A call that was refused and never stalled stands in the queue and is not stale, so
  the script that grants a later one has counted it.
* `FreshInv`. `FreshOrRefetched` counts an answer on its way that shows the present view, or
  a screen that does; only one of them may be trusted when an older answer is still to be
  shown over it. `FreshInv` says which.
* `AnnounceInv` (`Throttle`). A trail that finds the window taken is dropped. The one who took it
  then is a publish of the same process that has not been sent yet (`GivesWay`): had it been, its
  `Lead` would have dropped the trail.
* `UseInv`. Ties `users` to the control state, locks to their holders, and users to
  reservations.
* `ReservedFits`. What is loaded or loading is reserved, and the reserved models fit. The size of
  a set of models is the number of its megabytes (`Megabytes`), a cardinality, so that no sum over a
  set is needed. That an eviction frees enough: of the idle slots that were not evicted the least
  recently used exists (`OlderChains`: the order is one of times), and it was left because those
  before it sufficed.
* `FilesInv`. A commit must find the bytes of each row it makes (`InsertsAreOwn`) and an unlink
  must find no row that needs them: an entry of the put list has an uncommitted row or one in
  doubt (`PutsAreUndone`), an entry of the delete list has its deletion, undone with it
  (`DeletesAreDone`), and what the collector is about to unlink has no row and gets none
  (`OrphansStayOrphans`), because it is older than any open transaction and names are used
  once (`PutsAreNew`, `NamesAreUsed`). That an entry and its change carry the same `path` is
  what makes a rollback take both or neither.
* `LitterInv`. The converse, without kills: bytes without a row have a put that runs or an
  entry that will remove them (`BytesAreHeld`), every entry of a put has its row and every
  deletion its entry. A deadlock in between (`failed`) leaves entries without rows, all of
  which the rollback that must follow takes.
* `KeysInv`. For each deletion the collector has not yet committed another file of its key is
  committed and not being collected (`OthersStay`); it may go stale, but only the collector or
  a user deletes it.
* `Outbox`'s `IInv`. What a session keeps is among its uncommitted rows under the same tag
  (`KeptIsWritten`), so a rollback of any depth takes both; after the commit it is among the
  committed ones, and so are the Events of every task (`WorkIsCommitted`). A session of the
  dispatcher is open only while its task has calls (`RunningHasWork`): that is why `drain` may
  look at tasks alone.
* `Ordered`. The order of calls is that of the Events only because an Event that waits for its
  commit is in no task yet (`KeptIsOwn`), a transaction's Events are committed together
  (`CommittedTogether`), all calls of a commit are in one task until they begin (`TaskHasAll`), and of
  a task's calls only the one being made has begun (`OneCallBegun`). `NothingForgotten` needs the
  converse of `KeptIsWritten`: no row enters a transaction without the entry that hands it on
  (`WrittenIsKept`).
* `LossesCounted`. A pass that loses its insert is charged to a Job of its key; a loss that is
  certain but has not happened is charged to the active Job that will cause it.
* `Chat`'s `IInv`. `Kept` says at each await what a turn may hold: a slot from its reservation to its
  release, tasks and the request to the LLM only while the stream runs, and in the cleanup what its
  steps so far have let go. `Built` dates grants: what a turn read is the present grant or of an
  earlier epoch, what a stream watches follows from what its context was read as, and a turn whose
  grant lapsed is nowhere from where it could store or send. The slots are a sum over turns, kept as
  the cardinality of those that hold one, which is why `Turn` is finite.
* `Access`. `MeetIsConjunction` carries the rest: narrowing an Audience by parents and floors is a
  meet, the SQL is a conjunction of EXISTS clauses, and a viewer reads the meet exactly when the
  viewer reads both. The clauses of the parents are hypotheses, as they are in the code, where
  each is built by the same function. NULL columns are where the two could part.
* `Canon`. Each step is quiet (no row and no plan changes), plans one session's change or commits
  one (`Quiet`, `Plans`, `Commits`). A change that is planned rests on rows it holds; a commit of
  another session leaves rows that are locked alone; and a commit of its own finds what was
  planned. Each invariant says what of that its property needs:
  * `AppliedInv`: who plans a change for a proposal holds the proposal's advisory lock, and no row of
    the history is of the same change; only a commit under the lock could add one.
  * `ReplayInv`: a field's change holds its Entity, whose column still is the change's old value;
    nothing else writes a tracked column, but for a creation, which writes all of them.
  * `HomesInv`: steps and Mentions are written by whoever holds their Entity, and leave it only by a
    merge of that Entity. This is what an unforced revert of `add_step` stands on: it locks the
    Entity the history names, and if the step is elsewhere that Entity was merged and the revert is
    refused. That a new row's id is no other's is part of it (`NewIsNew`).
  * `RevertInv`: an unforced revert holds the row it found as its change left it. An edge that was
    added is the exception the run `canon_race` shows, and the property leaves it out.
  * `MergeInv`: a merge holds both Entities, every row it moves still is on the absorbed one, and
    the row gets that one's floor unless it is party or the row has one; nobody lifts a floor
    (`FloorCoversAbsorbed` for the order of Audiences).
  * `TellsInv`: from its look at the rows to its commit, a plan writes what its history row tells.
    None of the others implies it: they speak of the rows a plan writes, and a merge must also write
    *every* row of the absorbed Entity at the commit, the ones hung there since it looked included.
    `TellsBy` says what the plan of each kind of change is, and that the columns it changes still
    are the row's `old`, for it holds the row. `AbsorbsBy` is its case of a merge: the plan writes
    what hangs on the absorbed Entity and no more. `ReachesBy` keeps that true: to hang an edge, a
    step or a Mention somewhere, or to give an alias, takes the lock of that Entity, which the merge
    holds. `KeepsHome` serves the revert of `remove_mention`, which is an `Add` at the Entity the
    history names only if the row kept is of that Entity.
    The proof has a lemma for each shape of plan (a change, an addition, a removal, a merge), one for a commit beside another
    session's plan, and one for a commit seen as a change of `CanonHistory` (`PlainCommit`,
    `MergeCommit`, `HistoryStep`).

  The five and `HomesInv` were model-checked as invariants of the run `canon` before they were
  proved, and `AnnounceInv` as one of `throttle`.

The types of `LLMGate`, `Budget`, `Files` and `Outbox` are proved, for every instance, and no run repeats it.

Model-checked only: all liveness (`EveryJobEnds`, `PatientServed`, `NewestIsSent`, `EndsFresh`,
`EndsWithGrant`, `EveryRequestEnds`, `LitterCollected`, `EndsOnChange`), which is beyond the prover
with ENABLED and fairness; `Throttle` with a second process, where the property is false; the two
properties that are violated; and what the `MC` modules of the stateless rules state over small
inputs. Every safety property and every action property of a passing run is proved.

## 6. The plan

Done, in this order: Jobs, on which all background work rests, with the gate and the publishes
they share; the stream every screen depends on; the sidecar's memory; the files; what a session
keeps for its commit; Canon and the rules of access; the chat and billing; what a reader is served;
and the rules of the requests and calls around them. What would follow:

1. **Proofs** of the rules that `Content` and `Upkeep` state over small inputs (a race of two
   requests is a function of two reads there, which needs no induction), and of `Billing` with
   one session at a time.
2. **An abstract specification of `Files`**: a map from ids to contents that a committed transaction
   changes; `Upkeep`'s daily pass composed with `Jobs` as a state machine.
3. **Admission** with several resources and back-off.
4. **Share links in the stream**: the expiry of a token, which `Content` has as a rule, bumps its
   epoch once and is seen by the watch of `Stream`.
5. **Structured answers in the turn**: `Providers`' repair, its budget and its slot, within
   `Chat` and `LLMGate`.

## 7. Not modelled

* The wire formats of providers, the wording of prompts, exports, e-mail, speech, vision and
  shorthand parsing: input, output and text, with one request and one transaction each.
* The table of registrations of the access registry and the response schemas: static.
* Configuration, logging, security headers, the limiter, health: static settings and library calls.
* Tables and migrations: they are the state of the modules above.
* Screens of the frontend other than the event stream; model training, scripts, deployment, the
  site: rendering, offline tools and assets. They are nearly half of the repository's code,
  which is where the share of lines the modules stand for ends.
