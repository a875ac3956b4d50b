------------------------------- MODULE Upkeep -------------------------------
(***************************************************************************)
(* What is kept beside the rows of a Campaign: its cache                   *)
(* (access/cache.py), the files as they are served                         *)
(* (services/file_service.py), and the Jobs that sweep and renew them:     *)
(* Jobs that walk by a cursor (jobs/backfill.py), the daily collection     *)
(* (jobs/files_gc.py), the rows of data_backfills.  Each definition is one *)
(* command of Valkey, one look at the volume or one transaction, so that   *)
(* whatever comes between two of them may.                                 *)
(***************************************************************************)
EXTENDS Integers, FiniteSets, Sequences, SequencesExt

CONSTANTS GcBatch   \* candidates of the collection per step

-----------------------------------------------------------------------------
(* The cache of one Campaign.  gen: its generation, 0 for none; kept: what is *)
(* stored, each under a generation and the rest of its key.  now: time_ns(),  *)
(* more than any generation so far.                                           *)

Seeded(cache, now) == IF cache.gen = 0 THEN [cache EXCEPT !.gen = now] ELSE cache

CacheHits(cache, gen, key) == {e.value : e \in {x \in cache.kept : x.gen = gen /\ x.key = key}}

\* Stored after a second look at the generation, which may move in between.
Unmoved(cache, now, gen) == Seeded(cache, now).gen = gen
Stored(cache, gen, key, value) ==
    [cache EXCEPT !.kept = {x \in @ : x.gen # gen \/ x.key # key}
                             \cup {[gen |-> gen, key |-> key, value |-> value]}]

\* An invalidation: the generation, then the keys the SCAN came across.
Incremented(cache, now) == [Seeded(cache, now) EXCEPT !.gen = @ + 1]
Unlinked(cache, seen)   == [cache EXCEPT !.kept = @ \ seen]

\* A key, as one string: its parts joined by colons, each escaped.
Escape(part) ==
    FlattenSeq([i \in DOMAIN part |-> CASE part[i] = "%" -> <<"%", "2", "5">>
                                        [] part[i] = ":" -> <<"%", "3", "A">>
                                        [] OTHER         -> <<part[i]>>])
CacheKey(parts) == FlattenSeq([i \in DOMAIN parts |-> <<":">> \o Escape(parts[i])])

-----------------------------------------------------------------------------
(* Files.  A row holds the key of its bytes, which may be unsafe to follow,   *)
(* their hash and a content type; a tree's hash is its manifest's.  disk: the *)
(* key's path ("nothing", "file", "dir", "link") and the hash of the file;    *)
(* the manifest, its hash and what it lists, and the same of each entry.      *)

ContentType == {"plain", "audio", "image", "document", "active", "tree", "malformed", "octet"}

\* check_content_type: what a put accepts.
PutAccepts(type) == type \notin {"active", "tree", "malformed"}
ServedType(type) == IF type \in {"active", "tree", "malformed"} THEN "octet" ELSE type
Inline(type)     == type \in {"plain", "audio", "image"}

IsTree(file) == file.type = "tree"

\* read_manifest.  cached: the hashes of the manifests read before, which are
\* believed without a look at the volume; 0 for none to be had.
ManifestRead(file, disk, cached) ==
    \/ file.sha \in cached
    \/ file.safe /\ disk.manifest = file.sha /\ disk.wellFormed

\* resolve: what to send, or "none" for the one not_found().
Nowhere == [type |-> "none", sha |-> 0]
Resolve(file, sub, disk, cached) ==
    CASE ~file.safe -> Nowhere
      [] ~IsTree(file) /\ sub = "none" /\ disk.at = "file" ->
            [type |-> ServedType(file.type), sha |-> file.sha]
      [] IsTree(file) /\ sub \in DOMAIN disk.entries /\ ManifestRead(file, disk, cached) ->
            IF disk.entries[sub].at = "file"
            THEN [type |-> ServedType(disk.entries[sub].type), sha |-> disk.entries[sub].sha]
            ELSE Nowhere
      [] OTHER -> Nowhere

Present(file, disk, cached) ==
    IF IsTree(file) THEN file.safe /\ disk.at = "dir" /\ ManifestRead(file, disk, cached)
    ELSE Resolve(file, "none", disk, cached) # Nowhere

OpenFile(visible, file, disk, cached) == visible /\ Present(file, disk, cached)

\* read_bytes: found is the hash of what the path held when it was read.
ReadBytes(target, found) == IF target = Nowhere \/ found # target.sha THEN 0 ELSE found

\* A tag names the bytes and the grant's epoch; asked: the tags of the
\* request's If-None-Match.
Etag(sha, epoch) == <<sha, epoch>>
NotModified(asked, tag) == {"any", tag} \cap asked # {}

FileReply(target, epoch, asked) ==
    CASE target = Nowhere -> [status |-> 404]
      [] target # Nowhere /\ NotModified(asked, Etag(target.sha, epoch)) ->
            [status |-> 304, etag |-> Etag(target.sha, epoch)]
      [] OTHER -> [status |-> 200, etag |-> Etag(target.sha, epoch), type |-> target.type,
                   inline |-> Inline(target.type)]

-----------------------------------------------------------------------------
(* Cursor Jobs.  job: where it is (0: at the start), the steps done, those    *)
(* there were to do when it last looked, and whether it goes on.  next: the   *)
(* cursor after the item chosen and the total, or NoItem.                     *)

NoItem == [cursor |-> -1, total |-> 0]
CursorStart == [cursor |-> 0, done |-> 0, total |-> 0, state |-> "queued"]

RunCursor(job, next) ==
    CASE next = NoItem                    -> [job EXCEPT !.state = "done"]
      [] next.cursor \in {0, job.cursor}  -> [job EXCEPT !.state = "raised"]
      [] OTHER -> LET done == job.done + 1
                  IN  [cursor |-> next.cursor, done |-> done, state |-> "queued",
                       total |-> IF next.total > done THEN next.total ELSE done]

\* The collection's next batch: of the candidates there are now, those after
\* the cursor.
Remaining(candidates, job) == {c \in candidates : c > job.cursor}
Batch(candidates, job) ==
    {c \in Remaining(candidates, job) : Cardinality({d \in Remaining(candidates, job) : d <= c}) <= GcBatch}
NextBatch(candidates, job) ==
    LET left == Cardinality(Remaining(candidates, job))
    IN  IF left = 0 THEN NoItem
        ELSE [cursor |-> CHOOSE c \in Batch(candidates, job) : \A d \in Batch(candidates, job) : d <= c,
              total  |-> job.done + (left + GcBatch - 1) \div GcBatch]

-----------------------------------------------------------------------------
(* The daily collection.  world: the Campaigns there are, those with a        *)
(* directory on the volume, the old ones of these, and the Campaigns with an  *)
(* active files.gc Job; days: the day keys in Valkey.                         *)

DeadDirs(world) == (world.dirs \cap world.old) \ world.live

\* A Campaign's directory goes only while no Campaign of that id is there.
SweepDir(world, c) == IF c \in world.live THEN world ELSE [world EXCEPT !.dirs = @ \ {c}]

\* The sets of Campaigns whose Jobs a pass may enqueue: when only deleted
\* Campaigns have directories, one there is sweeps them.
Targets(world) ==
    IF world.dirs \cap world.live # {} THEN {world.dirs \cap world.live}
    ELSE IF world.dirs # {} /\ world.live # {} THEN {{c} : c \in world.live}
    ELSE {{}}

\* schedule_daily by a pass that ends as outcome says: "whole", "raises", or
\* "dies" between the day key and the commit.
SchedulePass(world, day, outcome) ==
    IF day \in world.days \/ outcome = "raises" THEN {world}
    ELSE IF outcome = "dies" THEN {[world EXCEPT !.days = @ \cup {day}]}
    ELSE {[world EXCEPT !.days = @ \cup {day}, !.active = @ \cup targets] : targets \in Targets(world)}

-----------------------------------------------------------------------------
(* A row of data_backfills and the Campaigns it is for.  live: the Campaigns  *)
(* there are; before: those created by the row's updated_at.  job[c]: c's Job *)
(* by the row's idempotency key ("none", "active" or how it ended); made[c]:  *)
(* how many there have been.  In the row: its status, the snapshot it takes   *)
(* at first sight, and of these the Campaigns with a Job, those finished and  *)
(* those failed.                                                              *)

Snapshot(w) == IF w.taken THEN w.campaigns ELSE w.live \cap w.before

\* enqueue: an active Job under the key is that Job.
Enqueued(w, cs) ==
    [w EXCEPT !.job  = [c \in DOMAIN @ |-> IF c \in cs THEN "active" ELSE @[c]],
              !.made = [c \in DOMAIN @ |-> IF c \in cs /\ w.job[c] # "active" THEN @[c] + 1 ELSE @[c]]]

\* A pass that commits.  gone: the Campaigns deleted since it read the Owners.
Advance(w, gone) ==
    LET campaigns == Snapshot(w)
        open      == campaigns \ w.finished
        over      == {c \in open \cap w.live \cap w.jobs : w.job[c] # "active"}
        start     == ((open \cap w.live) \ w.jobs) \ gone
        finished  == w.finished \cup over \cup (open \ w.live) \cup ((open \ w.jobs) \cap gone)
    IN  [Enqueued(w, start) EXCEPT
            !.taken = TRUE, !.campaigns = campaigns, !.jobs = @ \cup start, !.finished = finished,
            !.failed = @ \cup {c \in over : w.job[c] = "failed"},
            !.status = IF campaigns \subseteq finished THEN "done" ELSE "running"]

\* run_backfills: a row that is done or has no kind is left alone, as is one
\* whose pass raises.  (One held by another pass is skipped.)
BackfillPass(w, registered, gone, raises) ==
    IF w.status = "done" \/ ~registered \/ raises THEN w ELSE Advance(w, gone)

\* A step of a backfill's Job writes its progress into the row, under its lock.
RecordEntry(w, c, done) == [w EXCEPT !.entries = [@ EXCEPT ![c] = done]]
=============================================================================
