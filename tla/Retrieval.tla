----------------------------- MODULE Retrieval -----------------------------
(***************************************************************************)
(* What a chat turn finds and is told (services/retrieval_service.py,      *)
(* source_service.py, chat_service.py): the search of the journal by       *)
(* vectors and by words, fused and gated, the chunks of uploaded           *)
(* documents, and the prompt that is built of them.  Distances are in      *)
(* hundredths; Access has the clause by which a row is readable.           *)
(***************************************************************************)
EXTENDS Integers, Sequences, SequencesExt, FiniteSetsExt

\* What the GM columns (Shorthand and Narrative) or the Party columns
\* (Narrative) of a row have for a query: a distance, if the row is embedded,
\* how many of the query's words match, and whether one of its names does.
Column == [embedded : BOOLEAN, dist : Nat, matched : Nat, named : BOOLEAN]
ColumnOf(row, party) == IF party THEN row.party ELSE row.gm

SearchesParty(role, narrativeOnly) == narrativeOnly \/ role # "gm"

\* The rows a search is over; ids and kinds restrict what the reader may see.
CtxRows(rows, campaign, ids, kinds) ==
    {r \in rows : r.campaign = campaign /\ r.readable /\ r.id \in ids /\ r.kind \in kinds}

\* Without a Campaign: the user's own entries where they are GM.
OwnRows(rows, user, roles) ==
    {r \in rows : r.author = user /\ r.campaign \in DOMAIN roles /\ roles[r.campaign] = "gm"}

-----------------------------------------------------------------------------
(* The search.  query: how many words it has that count, how many hits     *)
(* each retriever yields, how many are used, and how near is near enough.  *)

RrfK == 60
RelevanceMaxDistance == 65
ChatQuery(words) == [words |-> words, pool |-> 10, limit |-> 3, maxDistance |-> RelevanceMaxDistance]

FirstOf(n, s) == SubSeq(s, 1, IF n < Len(s) THEN n ELSE Len(s))

\* Ties go by id.
VectorHits(rows, party, query) ==
    LET nearer(a, b) == LET da == ColumnOf(a, party).dist
                            db == ColumnOf(b, party).dist
                        IN  da < db \/ (da = db /\ a.id < b.id)
    IN  FirstOf(query.pool, SetToSortSeq({r \in rows : ColumnOf(r, party).embedded}, nearer))

LexicalHits(rows, party, query) ==
    LET better(a, b) == LET ma == ColumnOf(a, party).matched
                            mb == ColumnOf(b, party).matched
                        IN  ma > mb \/ (ma = mb /\ a.id < b.id)
    IN  IF query.words = 0 THEN <<>>
        ELSE FirstOf(query.pool, SetToSortSeq({r \in rows : ColumnOf(r, party).matched > 0}, better))

\* Words alone open the gate: a name, or three matches and three quarters.
Strong(column, words) == column.named \/ (column.matched >= 3 /\ 4 * column.matched >= 3 * words)

RankIn(hits, row) == IF row \in ToSet(hits) THEN CHOOSE i \in 1..Len(hits) : hits[i] = row ELSE 0

\* The sum of 1 / (60 + rank), as a fraction.
Score(v, l) ==
    CASE v > 0 /\ l > 0 -> <<(RrfK + v) + (RrfK + l), (RrfK + v) * (RrfK + l)>>
      [] v > 0 /\ l = 0 -> <<1, RrfK + v>>
      [] v = 0 /\ l > 0 -> <<1, RrfK + l>>
Higher(s, t) == s[1] * t[2] > t[1] * s[2]

\* The fused results: equal scores come in any order.  failing: the
\* retrievers that raise, which serve nothing.
Fusions(rows, party, query, failing) ==
    LET vector  == IF "vector" \in failing THEN <<>> ELSE VectorHits(rows, party, query)
        lexical == IF "lexical" \in failing THEN <<>> ELSE LexicalHits(rows, party, query)
        hits    == ToSet(vector) \cup ToSet(lexical)
        result  == [r \in hits |->
            [row    |-> r,
             score  |-> Score(RankIn(vector, r), RankIn(lexical, r)),
             passed |-> \/ RankIn(vector, r) > 0 /\ ColumnOf(r, party).dist <= query.maxDistance
                        \/ RankIn(lexical, r) > 0 /\ Strong(ColumnOf(r, party), query.words)]]
        ranked  == {order \in SetToSeqs(hits) :
                      \A i, j \in 1..Len(order) : i < j => ~Higher(result[order[j]].score, result[order[i]].score)}
    IN  {[i \in 1..Len(order) |-> result[order[i]]] : order \in ranked}

\* The first `limit` that passed are used.
PassedUpTo(fused, i) == Cardinality({j \in 1..i : fused[j].passed})
Used(fused, query) ==
    {fused[i].row : i \in {j \in 1..Len(fused) : fused[j].passed /\ PassedUpTo(fused, j) <= query.limit}}

\* index_party_fields: the Party columns of a saved Narrative; a model that
\* fails leaves no vector, rather than an old one.
IndexPartyFields(row, evidence, modelFails) ==
    [row EXCEPT !.party = [evidence EXCEPT !.embedded = ~modelFails]]

\* All of a Campaign's entries again, of the texts they have; or none of them when
\* the model fails.
Reindex(rows, campaign, gm, party, modelFails) ==
    IF modelFails THEN rows
    ELSE {IF r.campaign = campaign
          THEN IndexPartyFields([r EXCEPT !.gm = [gm[r.id] EXCEPT !.embedded = TRUE]], party[r.id], FALSE)
          ELSE r : r \in rows}

\* The providers of sources: one for a kind, and every kind asked for has one.
RegisterSource(sources, kind, provider) ==
    IF kind \in DOMAIN sources /\ sources[kind] # provider THEN [outcome |-> "ValueError", sources |-> sources]
    ELSE [outcome |-> "registered", sources |-> (kind :> provider) @@ sources]

\* provided: what each provider finds.
RetrieveSources(sources, kinds, provided) ==
    IF kinds \subseteq DOMAIN sources
    THEN [outcome |-> "found", results |-> [k \in kinds |-> provided[sources[k]]]]
    ELSE [outcome |-> "KeyError", results |-> <<>>]

-----------------------------------------------------------------------------
(* Uploaded documents.                                                     *)

\* The windows [first, last] over a text of so many words.
Chunks(words, size, overlap) ==
    LET step == size - overlap
        at(n) == n * step
        count == (words + step - 1) \div step
    IN  [n \in 1..count |-> <<at(n - 1) + 1, IF at(n - 1) + size < words THEN at(n - 1) + size ELSE words>>]

ChunkText(words) == Chunks(words, 350, 50)

\* The nearest chunks, those that are near enough, and the titles to credit.
CanonContext(chunks, limit, maxDistance) ==
    LET nearest == FirstOf(limit, SetToSortSeq(chunks, LAMBDA a, b : a.dist < b.dist))
        blocks  == SelectSeq(nearest, LAMBDA c : c.dist <= maxDistance)
        credit(titles, c) == IF c.title \in ToSet(titles) THEN titles ELSE Append(titles, c.title)
    IN  [blocks |-> blocks, titles |-> FoldLeft(credit, <<>>, blocks)]

\* The provider of documents: nothing for a reader who is not a GM.
DocumentsFor(role, chunks, limit, maxDistance) ==
    CanonContext(IF role = "gm" THEN chunks ELSE {}, limit, maxDistance)

-----------------------------------------------------------------------------
(* A turn without and with retrieval (chat.py: _prepare_chat).             *)

\* What was found: fused results of which some are still shown to the
\* reader, or a failure, after which nothing of it is left.
JournalContext(found, query) ==
    IF found.failed THEN {} ELSE {r \in Used(found.fused, query) : r.id \in found.shown}

Grounded(scoped, journal, canon) == ~scoped \/ journal # {} \/ canon.titles # <<>>

\* build_chat_messages.  gmRead: without a Campaign, or as its GM.
ChatPrompt(scoped, gmRead, journal, canon, glossary) ==
    LET canonGiven == canon.blocks # <<>> /\ (~scoped \/ gmRead)
    IN  [campaign  |-> scoped,
         canon     |-> canonGiven,
         glossary  |-> glossary /\ scoped /\ gmRead,
         journal   |-> {r.id : r \in journal},
         shorthand |-> journal # {} /\ gmRead,
         noRecord  |-> scoped /\ journal = {} /\ ~canonGiven]

\* Whether a follow-up is rewritten for the search, and into what: a reply
\* that is empty, too long, the message again or a failure rewrites nothing.
NeedsRewrite(history, words, pronoun) == history # <<>> /\ (words <= 12 \/ pronoun)
SearchQuery(message, history, words, pronoun, reply) ==
    IF /\ NeedsRewrite(history, words, pronoun)
       /\ reply.ok /\ reply.size \in 2..300 /\ reply.text # message
    THEN reply.text ELSE message

-----------------------------------------------------------------------------
(* Replies in lines (chat_service.py).  A line has a header or none, and   *)
(* text or none.                                                           *)

\* TITLE and PREMISE of a drafted Campaign, from a reply that may ignore the
\* format.
ParseConcept(lines) ==
    LET read(acc, line) ==
          CASE line.header = "title" ->
                 [acc EXCEPT !.title = IF line.text = "" THEN @ ELSE line.text, !.inPremise = FALSE]
            [] line.header = "premise" -> [acc EXCEPT !.premise = Append(@, line.text), !.inPremise = TRUE]
            [] OTHER -> IF acc.inPremise \/ line.text # "" THEN [acc EXCEPT !.premise = Append(@, line.text)] ELSE acc
        all == FoldLeft(read, [title |-> "Untitled Campaign", premise |-> <<>>, inPremise |-> FALSE], lines)
    IN  [title       |-> all.title,
         description |-> IF \E i \in 1..Len(all.premise) : all.premise[i] # "" THEN all.premise
                         ELSE [i \in 1..Len(lines) |-> lines[i].text]]

\* At most five suggestions; the first continuation.
Suggestions(lines)  == FirstOf(5, SelectSeq(lines, LAMBDA l : l.text # ""))
Continuation(lines) ==
    FirstOf(1, SelectSeq(lines, LAMBDA l : l.text # "" /\ l.header # "complete"))

-----------------------------------------------------------------------------
(* What else the model is asked to write: what it is told after its         *)
(* instructions, in order, and how many tokens it may answer with.          *)
(* campaign: its name in a sequence, or an empty one.                       *)

Writing(campaign, told, reply) == [campaign |-> campaign, told |-> told, reply |-> reply]
NotesOf(entries)           == [i \in 1..Len(entries) |-> entries[i].shorthand]

\* It is told so when there are none.
OrElse(items, remark) == IF items # <<>> THEN items ELSE <<remark>>

ChatReply(messages) == Writing(<<>>, messages, 600)

\* Oldest first, with the Narratives.
SessionRecap(campaign, entries) ==
    Writing(campaign, [i \in 1..Len(entries) |-> [notes |-> entries[i].shorthand, chronicle |-> entries[i].narrative]], 800)

\* A transcript is cut to its beginning.
TranscriptMax == 12000
SessionTranscript(campaign, size) == Writing(campaign, <<IF size < TranscriptMax THEN size ELSE TranscriptMax>>, 500)

NpcBio(campaign, npc, entries)             == Writing(campaign, <<npc>> \o OrElse(NotesOf(entries), "not mentioned"), 400)
QuestDescription(campaign, quest, entries) == Writing(campaign, <<quest>> \o OrElse(NotesOf(entries), "not referenced"), 400)

\* focus: what the GM asks for, or empty.
SessionPlan(campaign, entries, quests, npcs, focus) ==
    Writing(campaign, focus \o OrElse(NotesOf(entries), "no entries") \o OrElse(quests, "no quests")
                        \o OrElse(npcs, "no NPCs"), 700)

CampaignConcept(genre, prompt) == Writing(<<>>, <<genre, IF prompt = "" THEN "surprise me" ELSE prompt>>, 500)

\* How a request is answered when the model gives these lines, or fails: what fails
\* as a continuation or as suggestions is an empty answer, and metered as one.
Swallows == {"complete", "suggest"}
NeedsEntries == {"recap", "suggest"}

DraftReply(draft, entries, fails, lines) ==
    CASE draft \in NeedsEntries /\ entries = <<>> -> [status |-> 422, lines |-> <<>>, asked |-> FALSE, metered |-> FALSE]
      [] OTHER ->
           IF fails /\ draft \notin Swallows
           THEN [status |-> 503, lines |-> <<>>, asked |-> TRUE, metered |-> FALSE]
           ELSE [status |-> 200, asked |-> TRUE, metered |-> TRUE,
                 lines  |-> CASE fails -> <<>>
                              [] ~fails /\ draft = "complete" -> Continuation(lines)
                              [] ~fails /\ draft = "suggest"  -> Suggestions(lines)
                              [] OTHER -> lines]
=============================================================================
