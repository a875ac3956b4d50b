------------------------------ MODULE Content ------------------------------
(***************************************************************************)
(* What a Campaign holds and the requests that write and list it (the      *)
(* routes campaigns, journals, npcs, quests, character_sheets,             *)
(* session_plans, shorthand, tags, sources, share, members, visibility,    *)
(* feedback, ingest).  As in Accounts a request reads the committed rows   *)
(* (seen) and is committed over those there are when it ends (db), where   *)
(* keys and unique indexes may still refuse it.                            *)
(***************************************************************************)
EXTENDS Projection, Sequences, SequencesExt

HashHours  == 24       \* DEDUP_TTL
GMWritten  == {"plan", "source", "term", "category"}
AlwaysGM   == {"npc", "quest"}
Model      == GMWritten \cup AlwaysGM \cup {"entry", "sheet", "template"}

\* campaigns, grants (of Members), links (to share), rows, tags and feedback by
\* id; tagged: whether an entry's tag is from an always-GM field; hashes: when
\* the cache forgets a saved entry; stale: rows whose files are to be remade.
Empty == [campaigns |-> <<>>, grants |-> <<>>, links |-> <<>>, rows |-> <<>>, tags |-> <<>>, feedback |-> <<>>,
          tagged |-> <<>>, hashes |-> <<>>, stale |-> {}]

\* told: the grants whose watchers the request tells, Nil for the Owner's.
Tells(db, status, told) == [db |-> db, status |-> status, told |-> told]
Answer(db, status)      == Tells(db, status, {})
NotFound(db)            == Answer(db, 404)
Refused(db)             == Answer(db, 500)

Only(set) == CHOOSE x \in set : TRUE
Dropping(f, keys) == Restrict(f, DOMAIN f \ keys)

-----------------------------------------------------------------------------
(* Who asks.  by: the user, and whether the request previews.              *)

GrantsOf(seen, campaign, user) ==
    {g \in DOMAIN seen.grants : seen.grants[g].campaign = campaign /\ seen.grants[g].user = user}

Ctxs(seen, by, campaign) ==
    CASE campaign \notin DOMAIN seen.campaigns -> {}
      [] campaign \in DOMAIN seen.campaigns ->
           IF seen.campaigns[campaign].owner = by.user THEN {CtxFor(campaign, by.user, "owner")}
           ELSE {CtxFor(campaign, by.user, seen.grants[g].role) : g \in GrantsOf(seen, campaign, by.user)}

\* The context that a request is let in with, if it is.
LetIn(seen, by, campaign, min, safe) ==
    {NarrowForPreview(ctx, by.preview) : ctx \in {c \in Ctxs(seen, by, campaign) : Admitted(c, by.preview, safe, min)}}

LetInFor(seen, by, id, model, min, safe) ==
    IF id \in DOMAIN seen.rows /\ seen.rows[id].model = model
    THEN LetIn(seen, by, seen.rows[id].campaign, min, safe) ELSE {}

Asked(ctxs, db, Do(_)) == IF ctxs = {} THEN NotFound(db) ELSE Do(Only(ctxs))

\* Preview does not change the role one is told.
MyRole(seen, by, campaign) ==
    {IF ctx.role # "gm" THEN "Player" ELSE IF ctx.isOwner THEN "Owner" ELSE "Co-GM" : ctx \in Ctxs(seen, by, campaign)}

-----------------------------------------------------------------------------
(* Rows.  of: a sheet's template; body: a column of its own each.          *)

RowAud(row) ==
    CASE row.model \in AlwaysGM -> OwnedAudience(Nil)
      [] row.model = "template" -> Public
      [] OTHER                  -> StoredAudience(row.vis, row.owner, row.kind)

Readable(row, ctx) == Served(row.campaign, RowAud(row), ctx)
Finds(seen, ctx, id, model) ==
    id \in DOMAIN seen.rows /\ seen.rows[id].model = model /\ Readable(seen.rows[id], ctx)

NewRow(model, campaign, owner, of, body) ==
    [model |-> model, campaign |-> campaign, owner |-> owner, of |-> of, body |-> body,
     vis |-> IF model \in {"plan", "source", "term"} THEN "gm" ELSE "party",
     kind |-> IF model = "entry" THEN "gm" ELSE Nil]

WriteRole(model) == IF model \in GMWritten THEN "gm" ELSE "player"

SheetsOf(db, template) == {s \in DOMAIN db.rows : db.rows[s].of = template}

\* A row one could not see is not created.
Create(seen, db, by, id, row) ==
    Asked(LetIn(seen, by, row.campaign, WriteRole(row.model), FALSE), db, LAMBDA ctx :
        IF (row.of # Nil /\ ~Finds(seen, ctx, row.of, "template")) \/ ~Readable(row, ctx) THEN NotFound(db)
        ELSE IF row.campaign \notin DOMAIN db.campaigns \/ (row.of # Nil /\ row.of \notin DOMAIN db.rows) THEN Refused(db)
        ELSE Answer([db EXCEPT !.rows = (id :> row) @@ @], 201))

\* fields: the columns given; those that differ from what was read are written.
Edited(body, read, fields) ==
    [f \in DOMAIN body |-> IF f \in DOMAIN fields /\ fields[f] # read[f] THEN fields[f] ELSE body[f]]

Update(seen, db, by, id, model, fields) ==
    Asked(LetInFor(seen, by, id, model, WriteRole(model), FALSE), db, LAMBDA ctx :
        IF ~Finds(seen, ctx, id, model) THEN NotFound(db)
        ELSE IF id \notin DOMAIN db.rows THEN Refused(db)
        ELSE Answer([db EXCEPT !.rows[id].body = Edited(@, seen.rows[id].body, fields)], 200))

\* A template's sheets, a category's tags and the links of either go with it.
Deleted(db, ids) ==
    LET gone == ids \cup UNION {SheetsOf(db, id) : id \in ids}
        tags == {t \in DOMAIN db.tags : db.tags[t].category \in ids}
    IN  [db EXCEPT !.rows = Dropping(@, gone), !.tags = Dropping(@, tags),
                   !.tagged = Dropping(@, {l \in DOMAIN @ : l[1] \in ids \/ l[2] \in tags})]

\* A template with a sheet one cannot see is as if it were missing.
DeleteRow(seen, db, by, id, model) ==
    Asked(LetInFor(seen, by, id, model, IF model = "entry" THEN "gm" ELSE WriteRole(model), FALSE), db, LAMBDA ctx :
        IF ~Finds(seen, ctx, id, model) \/ \E s \in SheetsOf(seen, id) : ~Readable(seen.rows[s], ctx)
        THEN NotFound(db)
        ELSE Answer(Deleted(db, {id}), 204))

\* op: which of its routes.
Written(op, seen, db, by, id, row) ==
    CASE op = "create" -> Create(seen, db, by, id, row)
      [] op = "update" -> Update(seen, db, by, id, row.model, row.body)
      [] op = "delete" -> DeleteRow(seen, db, by, id, row.model)

Npcs(op, seen, db, by, id, campaign, body)   == Written(op, seen, db, by, id, NewRow("npc", campaign, Nil, Nil, body))
Quests(op, seen, db, by, id, campaign, body) == Written(op, seen, db, by, id, NewRow("quest", campaign, Nil, Nil, body))
Plans(op, seen, db, by, id, campaign, body)  == Written(op, seen, db, by, id, NewRow("plan", campaign, by.user, Nil, body))
Terms(op, seen, db, by, id, campaign, body)  == Written(op, seen, db, by, id, NewRow("term", campaign, by.user, Nil, body))
Templates(op, seen, db, by, id, campaign, body) ==
    Written(op, seen, db, by, id, NewRow("template", campaign, by.user, Nil, body))
CharacterSheets(op, seen, db, by, id, campaign, template, body) ==
    Written(op, seen, db, by, id, NewRow("sheet", campaign, by.user, template, body))

\* file: what is uploaded as a source.
Upload(seen, db, by, id, campaign, owner, file) ==
    Asked(LetIn(seen, by, campaign, "gm", FALSE), db, LAMBDA ctx :
        CASE ~file.accepted -> Answer(db, 415)
          [] file.accepted /\ file.large -> Answer(db, 413)
          [] file.accepted /\ ~file.large ->
               CASE file.text = "undecodable" -> Answer(db, 415)
                 [] file.text = "none"        -> Answer(db, 422)
                 [] OTHER -> Create(seen, db, by, id, NewRow("source", campaign, owner, Nil, [title |-> file.text])))

-----------------------------------------------------------------------------
(* Tags and their categories.  A tag is of no Campaign; it has a type, or a *)
(* category, and then no index keeps its name unique.                      *)

Typed(name, type)     == [name |-> name, type |-> type, category |-> Nil]
Filed(name, category) == [name |-> name, type |-> Nil, category |-> category]
Tagged(seen, tag) == {t \in DOMAIN seen.tags : seen.tags[t] = tag}

\* A new tag that another made meanwhile is refused by the index.
Taken(db, tag) == tag.type # Nil /\ Tagged(db, tag) # {}

Lower(name) == [name EXCEPT !.upper = FALSE]

\* A category of that name, in whatever case, is the one that is served.
CreateCategory(seen, db, by, id, campaign, name) ==
    Asked(LetIn(seen, by, campaign, "gm", FALSE), db, LAMBDA ctx :
        LET named(rows) == {c \in DOMAIN rows : /\ rows[c].model = "category" /\ rows[c].campaign = campaign
                                                /\ Readable(rows[c], ctx)}
        IN  IF name.name = "" THEN Answer(db, 422)
            ELSE IF \E c \in named(seen.rows) : Lower(seen.rows[c].body) = Lower(name) THEN Answer(db, 201)
            ELSE IF \E c \in named(db.rows) : db.rows[c].body = name THEN Refused(db)
            ELSE Create(seen, db, by, id, NewRow("category", campaign, by.user, Nil, name)))

Link(db, entry, t) == [db EXCEPT !.tagged = (<<entry, t>> :> FALSE) @@ @]

AttachTag(seen, db, by, entry, tag, new) ==
    Asked(LetInFor(seen, by, entry, "entry", "gm", FALSE), db, LAMBDA ctx :
        LET found == Tagged(seen, tag)
        IN  IF tag.name = "" THEN Answer(db, 422)
            ELSE IF tag.category # Nil /\ ~Finds(seen, ctx, tag.category, "category") THEN NotFound(db)
            ELSE IF found = {} THEN
                IF Taken(db, tag) \/ ~({entry, tag.category} \subseteq DOMAIN db.rows \cup {Nil}) THEN Refused(db)
                ELSE Answer(Link([db EXCEPT !.tags = (new :> tag) @@ @], entry, new), 201)
            ELSE IF Cardinality(found) > 1 \/ ~(found \subseteq DOMAIN db.tags) THEN Refused(db)
            ELSE IF <<entry, Only(found)>> \in DOMAIN seen.tagged THEN Answer(db, 201)
            ELSE IF <<entry, Only(found)>> \in DOMAIN db.tagged \/ entry \notin DOMAIN db.rows THEN Refused(db)
            ELSE Answer(Link(db, entry, Only(found)), 201))

LinkSeen(seen, link, ctx) == Covers(FieldSourced(RowAud(seen.rows[link[1]]), seen.tagged[link]), ctx.audience)

DetachTag(seen, db, by, entry, tag) ==
    Asked(LetInFor(seen, by, entry, "entry", "gm", FALSE), db, LAMBDA ctx :
        IF <<entry, tag>> \in DOMAIN seen.tagged /\ LinkSeen(seen, <<entry, tag>>, ctx)
        THEN Answer([db EXCEPT !.tagged = Dropping(@, {<<entry, tag>>})], 204)
        ELSE NotFound(db))

-----------------------------------------------------------------------------
(* Journal entries.                                                        *)

SameEntry(db, campaign, user, hash) ==
    \E e \in DOMAIN db.rows : /\ db.rows[e].model = "entry" /\ db.rows[e].campaign = campaign
                              /\ db.rows[e].owner = user /\ db.rows[e].body.hash = hash

HashKnown(seen, campaign, user, hash, now) ==
    <<campaign, user, hash>> \in DOMAIN seen.hashes /\ seen.hashes[<<campaign, user, hash>>] > now

\* found: the tags of the narrative, each with the id a new one gets.  The hash is
\* looked up before the narrative is written, and kept after the commit.
SaveEntry(seen, db, by, id, campaign, body, found, now) ==
    Asked(LetIn(seen, by, campaign, "player", FALSE), db, LAMBDA ctx :
        LET key   == <<campaign, by.user, body.hash>>
            new   == {tag \in DOMAIN found : Tagged(seen, tag) = {}}
            ids   == [tag \in DOMAIN found |-> IF tag \in new THEN found[tag] ELSE Only(Tagged(seen, tag))]
            saved == [db EXCEPT !.rows   = (id :> NewRow("entry", campaign, by.user, Nil, body)) @@ @,
                                !.tags   = [t \in {ids[tag] : tag \in new} |-> Only({tag \in new : ids[tag] = t})] @@ @,
                                !.tagged = [l \in {<<id, ids[tag]>> : tag \in DOMAIN found} |-> FALSE] @@ @,
                                !.hashes = (key :> now + HashHours) @@ @]
        IN  IF HashKnown(seen, campaign, by.user, body.hash, now) THEN Answer(db, 409)
            ELSE IF \/ campaign \notin DOMAIN db.campaigns
                    \/ SameEntry(db, campaign, by.user, body.hash)
                    \/ \E tag \in new : Taken(db, tag)
                 THEN Refused(db)
            ELSE Answer(saved, 201))

\* An entry sent without a narrative has it written first.  llm: it was "given",
\* the user has no model ("none"), or the call "failed", or was "written".
GenerateEntry(seen, db, by, id, campaign, body, found, now, llm) ==
    LET saved == SaveEntry(seen, db, by, id, campaign, body, found, now)
        early == \/ LetIn(seen, by, campaign, "player", FALSE) = {}
                 \/ HashKnown(seen, campaign, by.user, body.hash, now)
        reply == CASE early \/ llm \in {"given", "written"} -> saved
                   [] ~early /\ llm = "none"   -> Answer(db, 402)
                   [] ~early /\ llm = "failed" -> Answer(db, 503)
    IN  [reply |-> reply, metered |-> llm = "written" /\ reply.status = 201]

\* A narrative to look at, which saves nothing.
DraftEntry(seen, db, by, campaign, llm) ==
    LET reply == IF llm = "none" THEN Answer(db, 402)
                 ELSE Asked(LetIn(seen, by, campaign, "player", FALSE), db, LAMBDA ctx :
                     IF campaign \notin DOMAIN db.campaigns THEN NotFound(db)
                     ELSE Answer(db, IF llm = "written" THEN 200 ELSE 503))
    IN  [reply |-> reply, metered |-> reply.status = 200]

\* The contexts of a list: of one Campaign, or (Nil) of each of the caller's.
ListCtxs(seen, by, campaign) ==
    UNION {LetIn(seen, by, c, "player", TRUE) : c \in IF campaign = Nil THEN DOMAIN seen.campaigns ELSE {campaign}}

Of(seen, model, ctx) == {r \in DOMAIN seen.rows : Finds(seen, ctx, r, model)}

\* How often a word is in what the context's search covers: a GM's has the
\* shorthand, everyone else's only the narrative.
Hits(row, ctx, word) ==
    IF word = Nil THEN 1
    ELSE row.body.narrative[word] + (IF ctx.role = "gm" THEN row.body.shorthand[word] ELSE 0)

LinksSeen(seen, ctx) == {l \in DOMAIN seen.tagged : l[1] \in Of(seen, "entry", ctx) /\ LinkSeen(seen, l, ctx)}

EntryShown(seen, e, ctx) ==
    LET row == seen.rows[e]
    IN  [id |-> e, narrative |-> row.body.narrative, shorthand |-> IF ctx.role = "gm" THEN row.body.shorthand ELSE Nil,
         tags |-> EntryTags(RowAud(row), [t \in DOMAIN seen.tags |->
                                            [linked |-> <<e, t>> \in DOMAIN seen.tagged,
                                             always |-> <<e, t>> \in DOMAIN seen.tagged /\ seen.tagged[<<e, t>>]]], ctx)]

\* Best match first, then newest, then by id (ids are in the order of creation).
ListEntries(seen, by, campaign, word, tag, page, limit) ==
    LET found == UNION {{<<e, ctx>> : e \in Of(seen, "entry", ctx)} : ctx \in ListCtxs(seen, by, campaign)}
        kept  == {p \in found : /\ Hits(seen.rows[p[1]], p[2], word) > 0
                                /\ tag = Nil \/ <<p[1], tag>> \in LinksSeen(seen, p[2])}
        rank(p) == IF word = Nil THEN 0 ELSE Hits(seen.rows[p[1]], p[2], word)
        items == SetToSortSeq(kept, LAMBDA p, q : rank(p) > rank(q) \/ (rank(p) = rank(q) /\ p[1] > q[1]))
        first == (page - 1) * limit + 1
        shown == SubSeq(items, first, Min({first + limit - 1, Len(items)}))
    IN  [total |-> Len(items), items |-> [i \in DOMAIN shown |-> EntryShown(seen, shown[i][1], shown[i][2])]]

\* The tags of a list, each with the links to it that are visible.
ListTags(seen, by, campaign) ==
    LET links == UNION {LinksSeen(seen, ctx) : ctx \in ListCtxs(seen, by, campaign)}
    IN  [t \in {l[2] : l \in links} |-> Cardinality({l \in links : l[2] = t})]

\* A row as it is served; a template has the number of its sheets one may see.
RowShown(seen, r, ctx) ==
    IF seen.rows[r].model = "entry" THEN EntryShown(seen, r, ctx)
    ELSE [id |-> r, body |-> seen.rows[r].body, sheets |-> Cardinality(SheetsOf(seen, r) \cap Of(seen, "sheet", ctx))]

ListRows(seen, by, campaign, model) ==
    UNION {{RowShown(seen, r, ctx) : r \in Of(seen, model, ctx)} : ctx \in LetIn(seen, by, campaign, "player", TRUE)}

Get(seen, by, id, model) ==
    {RowShown(seen, id, ctx) : ctx \in {c \in LetInFor(seen, by, id, model, "player", TRUE) : Finds(seen, c, id, model)}}

\* The entries of an export or of statistics, and those that name an NPC or a Quest.
OwnEntries(seen, by, campaign) ==
    UNION {{e \in Of(seen, "entry", ctx) : seen.rows[e].owner = ctx.user} : ctx \in LetIn(seen, by, campaign, "gm", TRUE)}

Naming(seen, by, id, model) ==
    UNION {{EntryShown(seen, e, ctx) : e \in {x \in Of(seen, "entry", ctx) : Hits(seen.rows[x], ctx, seen.rows[id].body.name) > 0}} :
             ctx \in {c \in LetInFor(seen, by, id, model, "player", TRUE) : Finds(seen, c, id, model)}}

-----------------------------------------------------------------------------
(* Drafts: what a request has the LLM read.                                *)

\* The least role, the models read and how many rows of each (ids stand for the
\* order they are read in), and the parts of an entry.
Drafts ==
    [complete  |-> [min |-> "gm", reads |-> <<>>, parts |-> {}],
     recap     |-> [min |-> "gm", reads |-> [entry |-> 10], parts |-> {"shorthand", "narrative"}],
     plan      |-> [min |-> "gm", reads |-> [entry |-> 8, quest |-> 10, npc |-> 15], parts |-> {"shorthand"}],
     suggest   |-> [min |-> "gm", reads |-> [entry |-> 8], parts |-> {"shorthand"}],
     extract   |-> [min |-> "gm", reads |-> [entry |-> 15], parts |-> {"shorthand", "narrative"}],
     summary   |-> [min |-> "player", reads |-> <<>>, parts |-> {}],
     narrative |-> [min |-> "player", reads |-> <<>>, parts |-> {}]]

Drafted(seen, m, ctx) == {r \in Of(seen, m, ctx) : m = "quest" => seen.rows[r].body.status = "active"}
Newest(ids, n) == {i \in ids : Cardinality({j \in ids : j > i}) < n}

\* The rows a draft may be made of.  Only a GM's narrative has the sources and the
\* terms of the Campaign; failing: the lookups that fail, which it goes without.
DraftRows(seen, by, campaign, draft, failing) ==
    UNION {UNION {Newest(Drafted(seen, m, ctx), Drafts[draft].reads[m]) : m \in DOMAIN Drafts[draft].reads}
             \cup (IF draft = "narrative" /\ ctx.role = "gm"
                   THEN UNION {{r \in DOMAIN seen.rows : seen.rows[r].model = m /\ seen.rows[r].campaign = campaign} :
                                 m \in {"source", "term"} \ failing}
                   ELSE {}) :
             ctx \in LetIn(seen, by, campaign, Drafts[draft].min, FALSE)}

\* A draft about an NPC or a Quest reads the entries that name it, in either part.
DraftAbout(seen, by, id, model) ==
    UNION {Newest({e \in Of(seen, "entry", ctx) :
                     LET body == seen.rows[e].body name == seen.rows[id].body.name
                     IN  body.narrative[name] + body.shorthand[name] > 0}, 10) :
             ctx \in {c \in LetInFor(seen, by, id, model, "player", FALSE) : Finds(seen, c, id, model)}}

\* The same of a Quest.
DraftQuest(seen, by, id) == DraftAbout(seen, by, id, "quest")

\* Tags found in a text, in order: each once.
ExtractTags(ents) ==
    LET add(tags, ent) == IF ent \in ToSet(tags) THEN tags ELSE Append(tags, ent)
    IN  FoldLeft(add, <<>>, ents)

\* The people of the newest entries who are no NPC yet.  found: the tags of an
\* entry's text, in order.
ExtractNpcs(seen, by, campaign, found) ==
    {LET rows   == DraftRows(seen, by, campaign, "extract", {})
         latest == SetToSortSeq(rows, >)
         people == SelectSeq(ExtractTags(FlattenSeq([i \in 1..Len(latest) |-> found[latest[i]]])),
                             LAMBDA tag : tag.type = "character")
         known  == {seen.rows[n].body.name : n \in Of(seen, "npc", ctx)}
         new    == SelectSeq(people, LAMBDA tag : tag.name \notin known)
     IN  SubSeq(new, 1, IF Len(new) < 20 THEN Len(new) ELSE 20) :
        ctx \in LetIn(seen, by, campaign, "gm", FALSE)}

-----------------------------------------------------------------------------
(* Campaigns, Members and Share Links.                                     *)

CreateCampaign(db, by, id) == Answer([db EXCEPT !.campaigns = (id :> [owner |-> by.user, name |-> Nil]) @@ @], 201)

UpdateCampaign(seen, db, by, id, name) ==
    Asked(LetIn(seen, by, id, "owner", FALSE), db, LAMBDA ctx :
        IF id \notin DOMAIN db.campaigns THEN Refused(db) ELSE Answer([db EXCEPT !.campaigns[id].name = name], 200))

InCampaign(f, id) == {x \in DOMAIN f : f[x].campaign = id}

\* The Campaigns of the caller's list; its Members or its links, for its Owner.
MyCampaigns(seen, by) == {c \in DOMAIN seen.campaigns : Ctxs(seen, by, c) # {}}
Managed(seen, by, id, f) == UNION {InCampaign(f, id) : ctx \in LetIn(seen, by, id, "owner", TRUE)}

\* All of it goes, and every grant it saw is told.
DeleteCampaign(seen, db, by, id) ==
    Asked(LetIn(seen, by, id, "owner", FALSE), db, LAMBDA ctx :
        Tells([Deleted(db, InCampaign(db.rows, id)) EXCEPT
                 !.campaigns = Dropping(@, {id}),
                 !.grants    = Dropping(@, InCampaign(@, id)),
                 !.links     = Dropping(@, InCampaign(@, id)),
                 !.feedback  = [f \in DOMAIN @ |-> IF @[f].campaign = id THEN [@[f] EXCEPT !.campaign = Nil] ELSE @[f]]],
              204, InCampaign(seen.grants, id) \cup InCampaign(seen.links, id) \cup {Nil}))

RemoveMember(seen, db, by, campaign, grant, withEntries) ==
    Asked(LetIn(seen, by, campaign, "owner", FALSE), db, LAMBDA ctx :
        IF grant \notin InCampaign(seen.grants, campaign) THEN NotFound(db)
        ELSE LET theirs == {e \in Of(seen, "entry", ctx) : withEntries /\ seen.rows[e].owner = seen.grants[grant].user}
             IN  Tells([Deleted(db, theirs) EXCEPT !.grants = Dropping(@, {grant})], 204, {grant}))

Leave(seen, db, by, campaign) ==
    Asked(LetIn(seen, by, campaign, "player", FALSE), db, LAMBDA ctx :
        IF ctx.isOwner THEN Answer(db, 400)
        ELSE LET own == GrantsOf(seen, campaign, by.user)
             IN  Tells([db EXCEPT !.grants = Dropping(@, own)], 204, own))

CreateLink(seen, db, by, campaign, id, kind) ==
    Asked(LetIn(seen, by, campaign, "owner", FALSE), db, LAMBDA ctx :
        IF campaign \notin DOMAIN db.campaigns THEN Refused(db)
        ELSE Answer([db EXCEPT !.links = (id :> [campaign |-> campaign, kind |-> kind, revoked |-> FALSE, expires |-> Nil,
                                                epoch |-> 0, bumped |-> FALSE]) @@ @], 201))

RevokeLink(seen, db, by, campaign, id) ==
    Asked(LetIn(seen, by, campaign, "owner", FALSE), db, LAMBDA ctx :
        CASE id \notin InCampaign(seen.links, campaign) -> NotFound(db)
          [] id \in InCampaign(seen.links, campaign) ->
               IF seen.links[id].revoked THEN Answer(db, 204)
               ELSE IF id \notin DOMAIN db.links THEN Refused(db)
               ELSE Tells([db EXCEPT !.links[id].revoked = TRUE, !.links[id].epoch = seen.links[id].epoch + 1], 204, {id}))

Expired(link, now) == link.expires # Nil /\ link.expires <= now
Live(seen, id, kinds, now) ==
    id \in DOMAIN seen.links /\ ~seen.links[id].revoked /\ ~Expired(seen.links[id], now) /\ seen.links[id].kind \in kinds

\* A link that does not answer is missing; the first to find that it has expired
\* tells those who read by it.
Missing(db, id, now) ==
    IF id \in DOMAIN db.links /\ ~db.links[id].revoked /\ Expired(db.links[id], now) /\ ~db.links[id].bumped
    THEN Tells([db EXCEPT !.links[id].epoch = @ + 1, !.links[id].bumped = TRUE], 404, {id})
    ELSE NotFound(db)

OpenLink(db, id, kinds, now) == IF Live(db, id, kinds, now) THEN Answer(db, 200) ELSE Missing(db, id, now)

\* What whoever has a read-only link is served.
SharedRows(seen, id, model, now) ==
    IF Live(seen, id, {"read_only"}, now) THEN Of(seen, model, ShareCtx(seen.links[id].campaign)) ELSE {}

Join(seen, db, by, id, grant, now) ==
    IF ~Live(seen, id, {"collaborate"}, now) THEN Missing(db, id, now)
    ELSE LET campaign == seen.links[id].campaign
         IN  IF Ctxs(seen, by, campaign) # {} THEN Answer(db, 200)
             ELSE IF campaign \notin DOMAIN db.campaigns \/ GrantsOf(db, campaign, by.user) # {} THEN Refused(db)
             ELSE Answer([db EXCEPT !.grants = (grant :> [campaign |-> campaign, user |-> by.user, role |-> "player"]) @@ @], 200)

-----------------------------------------------------------------------------
(* Visibility in bulk, feedback, and what is taken in.                     *)

\* An entry is a target by its own kind.
TargetKind(row) == IF row.model # "entry" THEN row.model ELSE IF row.kind = "player" THEN "player_journal" ELSE "journal"

\* Why an item can never be set; 0 when it can.  field: Nil for the row's own.
Unsettable(item) ==
    CASE item.kind \in AlwaysGM -> 422
      [] item.kind \notin AlwaysGM \cup GMWritten \cup {"journal", "player_journal", "sheet"} -> 404
      [] OTHER -> IF item.field \in {Nil, "visibility"} THEN 0 ELSE 422

\* All of the items or none, and the dependents of each are marked.
SetVisibilities(seen, db, by, campaign, items, value) ==
    Asked(LetIn(seen, by, campaign, "gm", FALSE), db, LAMBDA ctx :
        LET bad   == {i \in 1..Len(items) : Unsettable(items[i]) # 0}
            ids   == {items[i].id : i \in 1..Len(items)}
            found(item) == /\ item.id \in DOMAIN seen.rows /\ TargetKind(seen.rows[item.id]) = item.kind
                           /\ Readable(seen.rows[item.id], ctx)
            written == {r \in ids : seen.rows[r].vis # value}
        IN  IF bad # {} THEN Answer(db, Unsettable(items[CHOOSE i \in bad : \A j \in bad : i <= j]))
            ELSE IF \E i \in 1..Len(items) : ~found(items[i]) THEN NotFound(db)
            ELSE IF ~(written \subseteq DOMAIN db.rows) THEN Refused(db)
            ELSE Answer([db EXCEPT !.rows = [r \in DOMAIN @ |-> IF r \in written THEN [@[r] EXCEPT !.vis = value] ELSE @[r]],
                                   !.stale = @ \cup ids], 200))

\* Feedback may name any Campaign that there is, of whoever it is.
SubmitFeedback(db, id, campaign) ==
    IF campaign \notin DOMAIN db.campaigns \cup {Nil} THEN Refused(db)
    ELSE Answer([db EXCEPT !.feedback = (id :> [campaign |-> campaign]) @@ @], 201)

\* What an administrator reads with it, whatever its Visibility.
FeedbackContext(seen, id) ==
    IF id \in DOMAIN seen.feedback /\ seen.feedback[id].campaign # Nil
    THEN UNION {Newest({r \in DOMAIN seen.rows : seen.rows[r].model = m /\ seen.rows[r].campaign = seen.feedback[id].campaign},
                       IF m = "entry" THEN 10 ELSE 20) : m \in {"entry", "npc", "quest", "source"}}
    ELSE {}

\* outcome: the answer of the recognition, which may be a text or "".
IngestImage(accepted, large, outcome) ==
    CASE ~accepted                 -> 415
      [] accepted /\ large         -> 413
      [] accepted /\ ~large        -> CASE outcome = "unavailable" -> 503
                                        [] outcome = "too_large"   -> 413
                                        [] outcome \in {"refused", ""} -> 422
                                        [] OTHER -> 200
IngestVoice(accepted, large, text) ==
    IF ~accepted THEN 415 ELSE IF large THEN 413 ELSE IF text = "" THEN 422 ELSE 200

\* A pasted chat: its lines without headers, bots' lines and reactions.
CleanDiscord(lines) == SelectSeq(lines, LAMBDA l : l \notin {"blank", "header", "bot", "reaction"})
IngestDiscord(lines) == IF CleanDiscord(lines) = <<>> THEN 422 ELSE 200
=============================================================================
