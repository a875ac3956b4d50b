------------------------------ MODULE MCUpkeep ------------------------------
(* Upkeep over every short course of what goes on around it, and the client *)
(* and the sidecar over every fault of an exchange.                         *)
EXTENDS Upkeep, Sidecar, MCContent

\* All that n steps reach from init, Step(x) being what one step makes of x.
ReachedIn(init, Step(_), n) ==
    LET Reach[i \in 0..n] ==
            IF i = 0 THEN [all |-> init, last |-> init]
            ELSE LET before == Reach[i - 1]
                     new    == UNION {Step(x) : x \in before.last} \ before.all
                 IN  [all |-> before.all \cup new, last |-> new]
    IN  Reach[n].all

-----------------------------------------------------------------------------
(* The cache: two readers of one key while the data changes.  data: how often *)
(* it was changed; settled: the last change some invalidation came after.     *)

Idle == [at |-> "idle", gen |-> 0, value |-> 0, floor |-> 0]
CacheWorlds ==
    {[cache |-> [gen |-> 0, kept |-> {}], data |-> 0, due |-> 0, settled |-> 0, evicted |-> FALSE,
      clock |-> 10, got |-> {}, reader |-> [r \in {1, 2} |-> Idle]]}

Reads(w, r) ==
    LET x    == w.reader[r]
        now(c) == [w EXCEPT !.cache = c, !.clock = @ + 10]
        goes(v, y) == [v EXCEPT !.reader[r] = y]
        seeded == Seeded(w.cache, w.clock)
        hits == CacheHits(w.cache, x.gen, "key")
    IN  CASE x.at = "idle" ->
               {goes(now(seeded), [Idle EXCEPT !.at = "look", !.gen = seeded.gen, !.floor = w.settled])}
          [] x.at = "look" ->
               IF hits # {} THEN {goes([w EXCEPT !.got = @ \cup {<<x.floor, h>> : h \in hits}], Idle)}
               ELSE {goes(w, [x EXCEPT !.at = "computed", !.value = w.data])}
          [] x.at = "computed" ->
               {goes(now(seeded), IF Unmoved(w.cache, w.clock, x.gen) THEN [x EXCEPT !.at = "store"] ELSE Idle)}
          [] x.at = "store" -> {goes(now(Stored(w.cache, x.gen, "key", x.value)), Idle)}

CacheStep(w) ==
    UNION {Reads(w, r) : r \in {1, 2}}
    \cup (IF w.data < 2 THEN {[w EXCEPT !.data = @ + 1, !.due = @ + 1]} ELSE {})
    \cup (IF w.due > 0 THEN {[w EXCEPT !.due = @ - 1, !.settled = w.data, !.clock = @ + 10,
                                       !.cache = Unlinked(Incremented(@, w.clock), seen)] :
                             seen \in {{}, w.cache.kept}}
                       ELSE {})
    \cup (IF w.evicted THEN {} ELSE {[w EXCEPT !.evicted = TRUE, !.cache.gen = 0]})

\* A hit is never older than the last change invalidated before the reader
\* looked: not when a value is computed, looked at again and stored around an
\* invalidation, nor when the SCAN misses it or the generation is evicted.
ASSUME NoStaleHits ==
    \A w \in ReachedIn(CacheWorlds, CacheStep, 11) : \A g \in w.got : g[2] >= g[1]

\* Two lists of parts never share a key, whatever characters they hold.
ASSUME KeysDiffer ==
    LET part  == UNION {[1..n -> {"a", ":", "%", "3"}] : n \in 1..2} \cup {<<"%", "3", "A">>, <<"%", "2", "5">>}
        lists == UNION {[1..n -> part] : n \in 1..2} \cup {<<<<"a">>, <<":">>, <<"3">>>>}
    IN  Cardinality({CacheKey(l) : l \in lists}) = Cardinality(lists)

-----------------------------------------------------------------------------
(* Files: rows, what the volume holds, and the manifests read before. *)

FileRows == [safe : BOOLEAN, type : ContentType, sha : {1}]
Kept     == [at : {"nothing", "file", "link"}, sha : {2}, type : {"image", "octet", "active"}]
Volumes  == [at : {"nothing", "file", "dir", "link"}, manifest : {0, 1, 9}, wellFormed : BOOLEAN,
             entries : [{"page"} -> Kept]]
Subpaths == {"none", "page", "other"}
Caches   == {{}, {1}}

\* Between the check that a file is there and the answer its bytes may go, and
\* they may change before they are read: the answer is then the one for a file
\* that is not there, or the bytes the row stands for.
ASSUME BytesOfTheRow ==
    \A file \in FileRows, was \in Volumes, is \in Volumes, cached \in Caches, sub \in Subpaths :
        OpenFile(TRUE, file, was, cached) =>
            LET target == Resolve(file, sub, is, cached \cup (IF IsTree(file) THEN {file.sha} ELSE {}))
            IN  /\ IsTree(file) => file.sha \in cached \cup {was.manifest}
                /\ \A found \in {0, 1, 2, 9} :
                      ReadBytes(target, found) \in {0, IF IsTree(file) THEN 2 ELSE 1}
                /\ target # Nowhere => /\ IsTree(file) <=> sub = "page"
                                       /\ IF IsTree(file) THEN is.entries[sub].at = "file" ELSE is.at = "file"

\* Whoever asks again is told "unchanged" only of the very bytes he has, under
\* the grant he had them with; and nothing a browser would run is shown by it,
\* were it in a row or a tree.
ASSUME UnchangedIsUnchanged ==
    \A file \in FileRows, is \in Volumes, sub \in Subpaths, epoch \in {1, 2}, then \in {1, 2}, sha \in {1, 2} :
        LET target == Resolve(file, sub, is, {})
            reply  == FileReply(target, epoch, {Etag(sha, then)})
        IN  /\ reply.status = 304 => then = epoch /\ sha = target.sha
            /\ reply.status = 200 => reply.type \notin {"active", "tree", "malformed"}
            /\ reply.status = 200 /\ reply.inline =>
                 (IF IsTree(file) THEN is.entries["page"].type ELSE file.type) \in {"plain", "audio", "image"}
            /\ ~IsTree(file) /\ PutAccepts(file.type) /\ reply.status = 200 => reply.type = file.type

-----------------------------------------------------------------------------
(* The walk of a cursor Job over candidates that change between its steps. *)

Candidates == SUBSET (1..4)
RECURSIVE Walk(_, _, _)
Walk(job, seen, sets) ==
    IF job.state # "queued" \/ Len(sets) = 0 THEN [job |-> job, seen |-> seen, twice |-> FALSE]
    ELSE LET batch == Batch(Head(sets), job)
             rest  == Walk(RunCursor(job, NextBatch(Head(sets), job)), seen \cup batch, Tail(sets))
         IN  [rest EXCEPT !.twice = @ \/ seen \cap batch # {}]

\* The walk ends, handles no candidate twice and all that were there from
\* its start to its end, and reports no more steps done than there were.
ASSUME EachOnce ==
    \A a \in Candidates, b \in Candidates, c \in Candidates :
        LET sets == <<a, b, c, c, c>>
            walk == Walk(CursorStart, {}, sets)
        IN  /\ walk.job.state = "done" /\ ~walk.twice
            /\ a \cap b \cap c \subseteq walk.seen
            /\ walk.job.done <= walk.job.total
            /\ walk.job.done <= 4

-----------------------------------------------------------------------------
(* The daily collection.  Campaign 3 is being created, its first file with it; *)
(* swept: the Job that is at work and the directories it has yet to sweep.     *)

Days == {[live |-> live, dirs |-> dirs, old |-> {1, 2} \cap dirs, active |-> {}, days |-> {}, whole |-> 0,
          new |-> "open", owned |-> dirs \cap live, left |-> {}] :
         live \in SUBSET {1, 2}, dirs \in SUBSET {1, 2}}

DayStep(w) ==
    {[x EXCEPT !.whole = @ + 1] : x \in SchedulePass(w, 1, "whole") \ {w}}
    \cup SchedulePass(w, 1, "raises") \cup SchedulePass(w, 1, "dies")
    \cup {[w EXCEPT !.live = @ \ {c}, !.active = @ \ {c}, !.owned = @ \ {c}] : c \in w.live}
    \cup UNION {{[w EXCEPT !.left = DeadDirs(w)], [w EXCEPT !.active = @ \ {c}]} : c \in w.active}
    \cup {[SweepDir(w, c) EXCEPT !.left = @ \ {c}] : c \in w.left}
    \cup (CASE w.new = "open"  -> {[w EXCEPT !.new = "put", !.dirs = @ \cup {3}]}
            [] w.new = "put"   -> {[w EXCEPT !.new = "there", !.live = @ \cup {3}, !.owned = @ \cup {3}],
                                   [w EXCEPT !.new = "undone"]}
            [] OTHER           -> {[w EXCEPT !.old = w.dirs]})

\* The Jobs of a day, run to their end while nothing else happens.
RunJobs(w) == IF w.active = {} THEN w ELSE [w EXCEPT !.dirs = @ \ DeadDirs(w)]

\* However the passes of a day end and whatever comes between, one at most
\* enqueues; no Campaign loses its directory, one that is being created no
\* more than one that is there; and when a pass has enqueued, its Jobs leave
\* no directory of a Campaign deleted before, as long as one Campaign has been.
ASSUME DayIsSwept ==
    \A w \in ReachedIn(Days, DayStep, 6) :
        /\ w.whole <= 1
        /\ w.owned \subseteq w.dirs
        /\ w.new = "put" => 3 \in w.dirs
        /\ \A x \in SchedulePass([w EXCEPT !.days = {}, !.active = {}], 1, "whole") :
              w.live # {} => DeadDirs(RunJobs(x)) = {}

-----------------------------------------------------------------------------
(* A backfill of the Campaigns 1 and 2; 3 is created after its row. *)

BackfillStart ==
    {[status |-> "queued", live |-> {1, 2}, before |-> {1, 2}, taken |-> FALSE, campaigns |-> {}, jobs |-> {},
      finished |-> {}, failed |-> {}, job |-> [c \in 1..3 |-> "none"], made |-> [c \in 1..3 |-> 0],
      entries |-> [c \in 1..3 |-> 0]]}

Deletes(w, cs) == [w EXCEPT !.live = @ \ cs, !.job = [c \in 1..3 |-> IF c \in cs THEN "none" ELSE @[c]]]

BackfillStep(w) ==
    {BackfillPass(w, registered, {}, raises) : registered \in BOOLEAN, raises \in BOOLEAN}
    \cup {Deletes(BackfillPass(w, TRUE, {c}, FALSE), {c}) : c \in {d \in w.live : w.job[d] = "none"}}
    \cup {Deletes(w, {c}) : c \in w.live} \cup {[w EXCEPT !.live = @ \cup ({3} \ w.finished)]}
    \cup {[w EXCEPT !.job[c] = end] : c \in {d \in 1..3 : w.job[d] = "active"}, end \in {"done", "failed", "cancelled"}}
    \cup {RecordEntry(w, c, 1) : c \in {d \in 1..3 : w.job[d] = "active"}}
    \cup {[w EXCEPT !.job[c] = "none"] : c \in {d \in 1..3 : w.job[d] \in {"done", "failed", "cancelled"}}}

\* However often the row is passed over, and whatever its Jobs and Campaigns
\* do meanwhile: each Campaign of its time gets one Job, later ones none; it is
\* done only when the Jobs are over, and knows then which failed; and it is
\* done two passes after the last Job is over.
ASSUME OneJobEach ==
    \A w \in ReachedIn(BackfillStart, BackfillStep, 8) :
        LET ended == [w EXCEPT !.job = [c \in 1..3 |-> IF @[c] = "active" THEN "done" ELSE @[c]]]
            again == BackfillPass(ended, TRUE, {}, FALSE)
            after == [again EXCEPT !.job = [c \in 1..3 |-> IF @[c] = "active" THEN "done" ELSE @[c]]]
        IN  /\ \A c \in 1..3 : w.made[c] <= 1 /\ (c \notin w.before => w.made[c] = 0)
            /\ w.status = "done" => /\ \A c \in w.live : w.job[c] # "active"
                                    /\ {c \in w.live : w.job[c] = "failed"} \subseteq w.failed
            /\ BackfillPass(after, TRUE, {}, FALSE).status = "done"
            /\ \A c \in w.live \cap w.before : w.status = "done" => w.made[c] = 1

-----------------------------------------------------------------------------
(* The client and the sidecar. *)

Built   == [model |-> EmbeddingModel, dim |-> EmbeddingDim]
Builds  == [model : {EmbeddingModel, "other"}, dim : {EmbeddingDim, 768}]
Texts   == UNION {[1..n -> {"p", "q"}] : n \in 0..(2 * MaxBatch + 1)}
NoReply == {[wire |-> w, status |-> 200, body |-> "none"] : w \in {"timeout", "transport", "exchange", "not_json"}}

\* Without a fault a list of any length comes back whole and in order, and no
\* request is more than the sidecar takes.
ASSUME BatchedInOrder ==
    \A texts \in Texts :
        LET batches == Batches(texts, MaxBatch)
            got == EmbedAll(texts, [i \in DOMAIN batches |-> Embed(Built, batches[i], "ran")])
        IN  got.ok /\ [i \in DOMAIN got.body |-> got.body[i].of] = texts

\* One batch may time out, be cut, be answered by a sidecar of another build
\* (it was restarted between them) or lose a vector: then there is no result,
\* and never vectors of two models or fewer than the texts.
ASSUME WholeOrNothing ==
    \A texts \in Texts, build \in Builds, run \in Run, lost \in BOOLEAN :
        \A b \in DOMAIN Batches(texts, MaxBatch), fault \in NoReply \cup {Reply(0, "none")} :
            LET batches == Batches(texts, MaxBatch)
                reply == Embed(build, batches[b], run)
                cut   == IF lost /\ reply.status = 200 THEN [reply EXCEPT !.body.vectors = Tail(@)] ELSE reply
                got == EmbedAll(texts, [i \in DOMAIN batches |-> IF i # b THEN Embed(Built, batches[i], "ran")
                                                                 ELSE IF fault \in NoReply THEN fault ELSE cut])
            IN  got.ok = (fault \notin NoReply /\ build = Built /\ run = "ran" /\ ~lost)

\* What may pass by itself is retried: no connection, the budget, a model that
\* did not load, anything raised; what is wrong with the request or the
\* sidecar's build is not.
ASSUME OnlyTransientRetried ==
    LET first(reply) == EmbedAll(<<"p">>, <<reply>>)
    IN  /\ \A r \in NoReply : Retryable(first(r)) = (r.wire \in {"timeout", "transport"})
        /\ \A build \in Builds, run \in Run :
              Retryable(first(Embed(build, <<"p">>, run))) = (run # "ran")
        /\ ~Retryable(first(Embed(Built, <<"p", "p", "p">>, "ran")))

\* Chunks change no score, and a chunk that comes back short is no answer.
ASSUME ChunksAgree ==
    \A pairs \in UNION {[1..n -> {<<1, 1>>, <<1, MaxChars>>, <<MaxChars + 1, 1>>}] : n \in 0..MaxBatch}, chunk \in 1..3 :
        LET scored(batch) == [i \in DOMAIN batch |-> NliLabels]
            cut(batch)    == IF Len(batch) = chunk THEN Tail(scored(batch)) ELSE scored(batch)
            whole         == [i \in DOMAIN Batches(pairs, chunk) |-> scored(Batches(pairs, chunk)[i])]
            short(items)  == [i \in DOMAIN Batches(items, chunk) |-> cut(Batches(items, chunk)[i])]
            batches       == Batches(pairs, MaxBatch)
            fits == \A i \in DOMAIN pairs : pairs[i][1] <= MaxChars
        IN  /\ Nli(pairs, chunk, whole, "ran") = IF fits THEN Reply(200, scored(pairs)) ELSE Reply(422, "none")
            /\ NliAll(pairs, [i \in DOMAIN batches |-> Nli(batches[i], chunk, short(batches[i]), "ran")]).ok = (fits /\ Len(pairs) < chunk)
            /\ fits /\ Len(pairs) >= chunk => Nli(pairs, chunk, short(pairs), "ran") = Failed("raised")
            /\ ~NliAll(<<<<1, 1>>>>, <<Reply(200, <<NliLabels \ {"neutral"}>>)>>).ok

\* Offsets are of the text that was sent.
ASSUME SpansAreOfTheText ==
    \A text \in Texts : \A s, m \in {p \in (0..Len(text)) \X (0..Len(text)) : p[1] < p[2]} :
        Len(text) <= MaxChars =>
            LET ents == Ner(text, <<s>>, <<m>>, "ran").body
            IN  ents[1].text = SubSeq(text, s[1] + 1, s[2]) /\ ents[2].start = m[1] /\ Len(ents[2].text) = ents[2].end - ents[2].start

\* An uploader is told to try again when the sidecar is short of memory or
\* away, that his image is too large by either end, and never a 500.
Files == [bytes : 0..(MaxBytes + 1), image : BOOLEAN, lines : {<<>>, <<"blank">>, <<"line", "blank", "line">>}]
ASSUME UploadersAreTold ==
    \A file \in Files, run \in Run, large \in BOOLEAN :
        LET answer == IngestImage(TRUE, large, Recognised(OcrText(Ocr(file, run))))
        IN  /\ answer \in {200, 413, 422, 503}
            /\ answer = 503 <=> ~large /\ OcrRunsModel(file) /\ run # "ran"
            /\ answer = 413 <=> large \/ file.bytes > MaxBytes
            /\ answer = 200 => file.image /\ "line" \in {file.lines[i] : i \in DOMAIN file.lines}
            /\ \A r \in NoReply : IngestImage(TRUE, FALSE, Recognised(OcrText(r))) \in {422, 503}

\* The sidecar is up when the resident models are; one that fails stops it,
\* and a lazy model that failed is tried again by the next call.
ASSUME UpWithItsModels ==
    \A loads \in [1..2 -> BOOLEAN], again \in BOOLEAN :
        LET failed == EnsureLoaded(NewSlot, FALSE)
        IN  /\ Healthz(Lifespan(loads)) = IF loads[1] /\ loads[2] THEN 200 ELSE 503
            /\ ~loads[1] => Lifespan(loads)[2] = NewSlot
            /\ EnsureLoaded(failed, TRUE) = EnsureLoaded(NewSlot, TRUE)
            /\ EnsureLoaded(EnsureLoaded(failed, TRUE), again).model
            /\ Unload(EnsureLoaded(NewSlot, TRUE)) = NewSlot
=============================================================================
