---------------------------- MODULE MCPrompting ----------------------------
(* The rules of Prompts, Providers and Retrieval over all small prompts,    *)
(* texts, configurations, courses of a call and journals.                  *)
EXTENDS Providers, Retrieval

Sizes   == {0, 5, 40}
Blocks  == UNION {[1..n -> {5, 40}] : n \in 0..2}
History == UNION {[1..n -> [role : {"user"}, size : Sizes]] : n \in 0..2}
Parts   == [system : {0, 40}, instructions : {0, 5}, required : {<<>>, <<40>>}, optional : Blocks, history : History]
Spare   == {0, 10, 20, 30, 40, 60, 90}

\* The search finds the fewest removals that fit, and a prompt is refused
\* only when what must stay does not fit or the task is to be split.
ASSUME FewestAreDropped ==
    \A task \in {"chat", "structured", "live_draft"} : \A parts \in Parts, spare \in Spare :
        LET context == TaskPolicies[task].reserved + spare
            report  == FitReport(task, parts, context)
            fits(k) == EstimateMessages(Trimmed(task, parts, k)) <= spare
            total   == Len(parts.history) + Len(parts.optional)
        IN  CASE report.outcome = "fits" -> fits(report.k) /\ \A k \in 0..(report.k - 1) : ~fits(k)
              [] report.outcome = "split first" -> task = "live_draft" /\ ~fits(0)
              [] report.outcome = "required too long" -> \A k \in 0..total : ~fits(k)

Texts == UNION {[1..n -> {Letter, Space, Newline}] : n \in 0..6}

\* A split loses nothing, adds nothing and keeps within the limit.
ASSUME SplitKeepsAll ==
    \A text \in Texts, max \in {2, 3} :
        LET chunks == SplitText(text, max)
        IN  /\ FlattenSeq(chunks) = text
            /\ \A i \in 1..Len(chunks) : chunks[i] # <<>> /\ FitsIn(chunks[i], max)

Results == UNION {[1..n -> {0, 3, 9, 20}] : n \in 1..4}
Halves == [batch \in Seq(Nat) |-> JoinedSize(batch) \div 2]
Grows  == [batch \in Seq(Nat) |-> JoinedSize(batch) + 1]

\* Batches hold every result once, in order, within the capacity; and the
\* rounds end, with all results in one batch or with the reason they cannot.
ASSUME ReducesAll ==
    \A results \in Results, capacity \in {0, 2, 5, 8} :
        /\ (\A i \in 1..Len(results) : EstimateTokens(results[i]) <= capacity) =>
              LET batches == Batches(results, capacity)
              IN  /\ FlattenSeq(batches) = results
                  /\ \A b \in 1..Len(batches) : BatchTokens(batches[b]) <= capacity
        /\ MapReduce(results, capacity, Halves).outcome = "reduced" =>
              BatchTokens(MapReduce(results, capacity, Halves).results) <= capacity
        /\ MapReduce(results, capacity, Grows).rounds = 0

-----------------------------------------------------------------------------
\* What is metered as hosted runs on the platform's own LLM, which always
\* names a model it keeps loaded, except a narrative on the base variant.
ASSUME PlatformKeepsItsModel ==
    \A cfg \in LLMConfig, task \in {"narrative", "chat"} :
        /\ IsHostedDefault(cfg) => UsesPlatform(cfg)
        /\ UsesPlatform(cfg) => \/ CallModel(task, cfg) = "local"
                                \/ task = "narrative" /\ cfg.model = "base" /\ CallModel(task, cfg) = "base"
        /\ CallModel(task, cfg) # "none" \/ cfg.provider = "fake"

\* A configuration of the platform's kind passes the gate exactly when its
\* requests go to the platform's address, however that was written.
ASSUME GateSeesThePlatform ==
    \A cfg \in LLMConfig, task \in {"narrative", "chat"} :
        cfg.provider = "kobold" => (UsesPlatform(cfg) <=> Target(task, cfg).url = "platform")

\* A backend that is down when it is first asked for is recognised later,
\* and what was recognised stays, whatever it answers afterwards.
ASSUME OnlyAnswersAreKept ==
    \A early \in NoAnswer, answer \in Answered, late \in Answered \cup NoAnswer :
        LET unknown == [url \in {"a", "b"} |-> "unknown"]
            first   == DetectBackend(unknown, "a", early)
            second  == DetectBackend(first.known, "a", answer)
            third   == DetectBackend(second.known, "a", late)
        IN  first.known = unknown /\ third.backend = BackendOf(answer) /\ third.known["b"] = "unknown"

\* A narrative takes one slot of the gate at most, sends four requests at most
\* and none to an API that is not the platform's kind; only a native reply may
\* be an empty narrative.
ASSUME NarrativesBounded ==
    \A cfg \in LLMConfig, backend \in {"ollama", "openai_compat"}, wires \in [1..NativeAttempts -> Wire], wire \in Wire :
        LET call == GenerateNarrative(cfg, backend, wires, wire)
        IN  /\ call.slots <= 1 /\ call.natively <= NativeAttempts
            /\ call.natively > 0 => cfg.provider = "kobold" /\ backend # "ollama"
            /\ call.outcome = "empty" => call.natively > 0
            /\ call.natively \in 1..(NativeAttempts - 1) /\ wires[call.natively] \in {"broken", "shape", "null"} =>
                  call.outcome = Completed(cfg, wire)

\* A stream that took a slot gives it back, whoever ends it and however, after
\* its upstream is shut; and no delta passes outside of the two.
ASSUME SlotsComeBack ==
    \A cfg \in LLMConfig, held \in 0..1, full \in BOOLEAN, sent \in 0..3, wire \in Wire, asked \in 0..5 :
        LET steps == StreamMessages(cfg, held, full, sent, wire, asked)
            at(s) == {i \in 1..Len(steps) : steps[i] = s}
        IN  /\ Cardinality(at("reserve")) = Cardinality(at("release"))
            /\ at("reserve") # {} <=> UsesPlatform(cfg) /\ held = 0 /\ ~full /\ asked > 0
            /\ Cardinality(at("open")) = Cardinality(at("close"))
            /\ \A r \in at("release") : r = Len(steps) /\ at("close") = {r - 1}
            /\ \A d \in at("delta") : \A o \in at("open"), c \in at("close") : o < d /\ d < c
            /\ Cardinality(at("delta")) <= asked

\* What a capture notes is what was sent, in each capture that was open, and a
\* class exactly of what passed the gate; and a test of a connection asks what
\* narratives are written with, though chats may be answered by another model.
ASSUME CapturesTellWhatWasSent ==
    \A cfg \in LLMConfig, task \in {"narrative", "chat"}, given \in {"none", "live"} :
        LET call  == Recorded(task, cfg, given, "batch")
            after == Captured(<<[open |-> TRUE, calls |-> <<>>], [open |-> FALSE, calls |-> <<>>], [open |-> TRUE, calls |-> <<1>>]>>, call)
        IN  /\ cfg.provider \in {"kobold", "openai", "custom"} => call.model = Target(task, cfg).model
            /\ (call.class = "none") = (SlotsTaken(cfg, 0) = 0)
            /\ after[1].calls = <<call>> /\ after[2].calls = <<>> /\ after[3].calls = <<1, call>>
            /\ ProbeConnection(cfg, "text").model = Recorded("narrative", cfg, given, "batch").model
            /\ ProbeConnection(cfg, "text").model # CallModel("chat", cfg) => UsesPlatform(cfg) /\ cfg.model = "base"

\* The errors a caller of complete_structured may see are the ones it names.
ASSUME SendersRaiseNamedErrors ==
    \A cfg \in LLMConfig, wire \in Wire : Prompted(cfg, wire) \in {"text", "LLMConfigError", "LLMUnavailable"}

\* Of a prompt that is Assembled, which has one system message at most, no
\* provider loses a part: each is given the same sizes in the same order.
ASSUME NoPartLost ==
    \A parts \in Parts :
        LET messages == Assembled(parts, 0, 0)
            sent(payload) == [i \in 1..Len(payload.turns) |-> payload.turns[i].size]
            conversation  == SelectSeq(messages, LAMBDA m : m.role # "system")
        IN  /\ AnthropicPayload(messages).system = GeminiPayload(messages).system
            /\ sent(AnthropicPayload(messages)) = sent(GeminiPayload(messages))
            /\ AnthropicPayload(messages).system \o conversation = messages
            /\ conversation # <<>> => Len(AnthropicPayload(messages).turns) = Len(conversation)

\* An object comes out of a fence, and out of chatter around it.
ASSUME ObjectsAreFound ==
    LET object == <<"{", "body", "}">>
    IN  /\ JsonCandidate(object) = object
        /\ JsonCandidate(<<Fence>> \o object \o <<Fence>>) = object
        /\ JsonCandidate(<<"chatter">> \o object \o <<"chatter">>) = object
        /\ JsonCandidate(<<"}", "chatter", "{">>) = <<"}", "chatter", "{">>

Courses == [1..MaxAttempts -> Meeting]

\* At most three attempts and four requests, and none strict after one was refused; counted once when
\* replies were judged and not at all when the backend failed.
ASSUME AttemptsBounded ==
    \A mode \in {"ollama", "schema", "anthropic"} : \A course \in Courses :
        LET call == CompleteStructured(mode, course)
        IN  /\ call.outcome # "trying"
            /\ call.attempts <= MaxAttempts /\ Len(call.sends) <= MaxAttempts + 1
            /\ \A i \in 1..Len(call.sends) : call.sends[i] = "prompted" =>
                  \A j \in i..Len(call.sends) : call.sends[j] = "prompted"
            /\ (call.stat = "none") = (call.outcome \in {"LLMBusy", "LLMUnavailable", "LLMConfigError"})
            /\ call.outcome = "valid" => \E i \in 1..call.attempts : course[i].reply = "valid"

\* A repair prompt fits the window it was given whenever there is one, and
\* echoes the reply whole when that fits.
ASSUME RepairsFit ==
    \A base \in {<<>>, <<[role |-> "user", size |-> 50]>>}, reply \in {1, 20, 200}, errors \in {30, 1200},
       window \in {20, 60, 66, 80, 100, 400, 480} :
        LET repair == RepairMessages(base, reply, errors, window)
        IN  /\ repair.outcome = "asks" => EstimateMessages(repair.messages) <= window
            /\ EstimateMessages(base \o <<Echo(reply), RepairRequest("whole", errors)>>) <= window =>
                  repair.messages[Len(base) + 1] = Echo(reply)
            /\ repair.outcome # "asks" => EstimateMessages(Append(base, RepairRequest("dropped", errors))) > window

-----------------------------------------------------------------------------
Query == [ChatQuery(4) EXCEPT !.pool = 2, !.limit = 1]
Failing == SUBSET {"vector", "lexical"}

Evidence ==
    {c \in [embedded : BOOLEAN, dist : {20, 65, 66}, matched : {0, 2, 3}, named : BOOLEAN] :
        ~c.embedded => c.dist = 66}
NoEvidence == [embedded |-> FALSE, dist |-> 66, matched |-> 0, named |-> FALSE]
Near       == [embedded |-> TRUE, dist |-> 20, matched |-> 3, named |-> TRUE]

Entry(id, campaign, readable, gm, party) ==
    [id |-> id, campaign |-> campaign, readable |-> readable, kind |-> "gm", author |-> "gm", gm |-> gm, party |-> party]

\* The evidence of a row for a reader of its Party columns.
Party(id, c) == Entry(id, "here", TRUE, Near, c)
Journals == {{Party(1, a), Party(2, b), Party(3, c)} : a \in Evidence, b \in Evidence, c \in {Near, NoEvidence}}

\* Only what is near, or matches strongly by its words, is used; and no room
\* is left while something passed.
ASSUME GateHolds ==
    \A rows \in Journals, failing \in Failing : \A fused \in Fusions(rows, TRUE, Query, failing) :
        LET used == Used(fused, Query)
        IN  /\ \A r \in used : \/ "vector" \notin failing /\ r.party.embedded /\ r.party.dist <= 65
                               \/ "lexical" \notin failing /\ r.party.matched > 0 /\ Strong(r.party, 4)
            /\ Cardinality(used) <= Query.limit
            /\ Cardinality(used) = Query.limit \/ \A i \in 1..Len(fused) : fused[i].passed => fused[i].row \in used

\* Rows the reader may not see, however near, take no place of the pools and
\* change neither ranks nor gate; nor does the Shorthand of those they may.
ASSUME UnreadRowsDoNotCount ==
    \A rows \in Journals : \A ids \in {{1, 2, 3}, {2, 3}} :
        LET hidden   == {Entry(10, "here", FALSE, Near, Near), Entry(11, "elsewhere", TRUE, Near, Near)}
            silenced == {[r EXCEPT !.gm = NoEvidence] : r \in rows}
            seen(all) == {[i \in 1..Len(f) |-> <<f[i].row.id, f[i].score, f[i].passed>>] :
                            f \in Fusions(CtxRows(all, "here", ids, {"gm"}), TRUE, Query, {})}
        IN  seen(rows \cup hidden) = seen(rows) /\ seen(silenced) = seen(rows)

\* Equal scores may come in any order, but what is used has the same scores.
ASSUME TiesAreHarmless ==
    \A rows \in Journals : \A f, g \in Fusions(rows, TRUE, Query, {}) :
        \A i \in 1..Len(f) : f[i].score = g[i].score

\* After a reindex every entry of the Campaign is found by what it now says, and a
\* reindex that fails, or another Campaign's, changes nothing; a saved entry whose
\* text could not be embedded is found by no vector, old or new.
ASSUME ReindexRepairs ==
    \A a \in Evidence, b \in {Near, NoEvidence}, modelFails \in BOOLEAN :
        LET rows    == {Party(1, a), Entry(2, "elsewhere", TRUE, b, a)}
            now     == [i \in 1..2 |-> b]
            indexed == Reindex(rows, "here", now, now, modelFails)
        IN  /\ modelFails => indexed = rows
            /\ Entry(2, "elsewhere", TRUE, b, a) \in indexed /\ Cardinality(indexed) = 2
            /\ ~modelFails => \A r \in CtxRows(indexed, "here", {1, 2}, {"gm"}) :
                  {r.gm, r.party} = {[b EXCEPT !.embedded = TRUE]}
            /\ LET saved == IndexPartyFields(Party(1, a), b, TRUE)
               IN  VectorHits({saved}, TRUE, Query) = <<>> /\ saved.party.matched = b.matched

\* A kind keeps the provider it has, and a search in a kind that has none finds
\* nothing of the others either.
ASSUME ProvidersStay ==
    \A kind, again \in {"documents", "notes"}, one, other \in {"a", "b"} :
        LET provided == [p \in {"a", "b"} |-> p]
            first  == RegisterSource(<<>>, kind, one)
            second == RegisterSource(first.sources, again, other)
            found  == RetrieveSources(second.sources, {kind, "none"}, provided)
        IN  /\ second.sources[kind] = one
            /\ second.outcome = "ValueError" <=> kind = again /\ one # other
            /\ found.outcome = "KeyError" /\ found.results = <<>>
            /\ RetrieveSources(second.sources, {kind}, provided).results[kind] = one

\* Every word is in a chunk, and neighbours share the overlap.
ASSUME ChunksCover ==
    \A words \in 0..20 :
        LET windows == Chunks(words, 7, 2)
        IN  /\ UNION {windows[n][1]..windows[n][2] : n \in 1..Len(windows)} = 1..words
            /\ \A n \in 1..(Len(windows) - 1) : windows[n + 1][1] = windows[n][1] + 5

Founds(rows, gmRead) ==
    {[failed |-> failed, fused |-> fused, shown |-> shown] :
        failed \in BOOLEAN, fused \in Fusions(rows, ~gmRead, Query, {}), shown \in SUBSET {1, 2, 3}}

\* The model is told that there is no record exactly when the reply is marked
\* as not grounded; a Player's prompt holds nothing of the GM's.
ASSUME NoteMatchesMark ==
    \A rows \in {{Party(1, a), Party(2, b)} : a \in {Near, NoEvidence}, b \in Evidence}, scoped, gmRead \in BOOLEAN,
       chunks \in SUBSET {[title |-> "a", dist |-> 20], [title |-> "b", dist |-> 65], [title |-> "b", dist |-> 66]},
       glossary \in BOOLEAN :
        (scoped \/ gmRead) => \A found \in Founds(rows, gmRead) :
            LET canon   == DocumentsFor(IF gmRead THEN "gm" ELSE "player", chunks, 2, 65)
                journal == JournalContext(found, Query)
                prompt  == ChatPrompt(scoped, gmRead, journal, canon, glossary)
            IN  /\ prompt.noRecord = ~Grounded(scoped, journal, canon)
                /\ ~gmRead => ~prompt.canon /\ ~prompt.glossary /\ ~prompt.shorthand
                /\ Len(canon.titles) = Cardinality(ToSet(canon.titles)) /\ (canon.titles = <<>>) = (canon.blocks = <<>>)

\* A follow-up is searched as it is when its rewriting fails.
ASSUME RewriteNeverBlocks ==
    \A history \in {<<>>, <<"earlier">>}, words \in {3, 13}, pronoun \in BOOLEAN,
       reply \in [ok : BOOLEAN, size : {0, 10, 400}, text : {"message", "rewritten"}] :
        LET query == SearchQuery("message", history, words, pronoun, reply)
        IN  query # "message" => reply.ok /\ reply.size = 10 /\ history # <<>>

Lines == UNION {[1..n -> [header : {"none", "title", "premise"}, text : {"", "text"}]] : n \in 0..4}

\* Whatever the format of the reply, a draft has a title, and no line but a
\* title is lost unless it is empty.
ASSUME NoPremiseLost ==
    \A lines \in Lines :
        LET concept == ParseConcept(lines)
            written(s) == Len(SelectSeq(s, LAMBDA t : t # ""))
        IN  /\ concept.title # ""
            /\ written(concept.description) >=
                 Len(SelectSeq(lines, LAMBDA l : l.header # "title" /\ l.text # ""))
            /\ Len(Suggestions(lines)) <= 5

Notes == UNION {[1..n -> [shorthand : {"a", "b"}, narrative : {"n"}]] : n \in 0..2}

\* The model is never left to invent: all that a draft is of is told, and the
\* lack of it where the request is not refused for it.
ASSUME NothingIsLeftToInvent ==
    \A entries \in Notes, quests, npcs \in {<<>>, <<"x">>}, focus \in {<<>>, <<"heist">>} :
        LET plan == SessionPlan(<<"c">>, entries, quests, npcs, focus).told
            absent(told) == Cardinality({i \in 1..Len(told) : told[i] \in
                               {"no entries", "no quests", "no NPCs", "not mentioned", "not referenced"}})
        IN  /\ ToSet(NotesOf(entries)) \cup ToSet(quests) \cup ToSet(npcs) \cup ToSet(focus) \subseteq ToSet(plan)
            /\ absent(plan) = Cardinality({l \in {<<"e", entries>>, <<"q", quests>>, <<"n", npcs>>} : l[2] = <<>>})
            /\ \A request \in {NpcBio(<<>>, "npc", entries), QuestDescription(<<>>, "quest", entries)} :
                  /\ ToSet(NotesOf(entries)) \subseteq ToSet(request.told)
                  /\ (entries = <<>>) = (absent(request.told) = 1)
            /\ Len(SessionRecap(<<"c">>, entries).told) = Len(entries)
            /\ \A draft \in {"recap", "suggest", "bio", "quest", "plan"} :
                  DraftReply(draft, entries, FALSE, <<>>).asked => entries # <<>> \/ draft \notin NeedsEntries

\* Nothing that fails is served as text, and what is refused or fails openly costs
\* nothing.
ASSUME FailuresAreNotServed ==
    \A draft \in {"recap", "suggest", "complete", "bio"}, entries \in Notes, fails \in BOOLEAN, lines \in Lines :
        LET reply == DraftReply(draft, entries, fails, lines)
        IN  /\ fails => reply.lines = <<>>
            /\ reply.metered = (reply.status = 200)
            /\ fails /\ reply.metered => draft \in {"suggest", "complete"}
            /\ Len(reply.lines) <= Len(lines)

\* A transcript at its limit is estimated at more than the local model's default
\* window; these prompts are not fitted as those of chats and Jobs are.
ASSUME TranscriptsOutgrowTheWindow ==
    /\ EstimateTokens(SessionTranscript(<<>>, 20000).told[1]) > 4096
    /\ EstimateTokens(SessionTranscript(<<>>, 10000).told[1]) < 4096
=============================================================================
