----------------------------- MODULE MCContent -----------------------------
(* The requests of Content over a small Campaign and what may overtake them. *)
EXTENDS Content

Users == {"ann", "bob", "cat", "dan"}   \* the Owner, a Player, a Co-GM, and one who is none of them
As(user) == [user |-> user, preview |-> FALSE]
Asking   == {[user |-> u, preview |-> p] : u \in Users, p \in BOOLEAN}

Notes(hash, shorthand, narrative) == [hash |-> hash, shorthand |-> [gob |-> shorthand], narrative |-> [gob |-> narrative]]
Gob == Typed("Gob", "character")
OpenId == 5
JoinId == 6

World ==
    [Empty EXCEPT
       !.campaigns = ("c" :> [owner |-> "ann", name |-> Nil]) @@ ("d" :> [owner |-> "dan", name |-> Nil]),
       !.grants = (1 :> [campaign |-> "c", user |-> "bob", role |-> "player"])
               @@ (2 :> [campaign |-> "c", user |-> "cat", role |-> "co_gm"]),
       !.links = (OpenId :> [campaign |-> "c", kind |-> "read_only", revoked |-> FALSE, expires |-> 30, epoch |-> 0, bumped |-> FALSE])
              @@ (JoinId :> [campaign |-> "c", kind |-> "collaborate", revoked |-> FALSE, expires |-> Nil, epoch |-> 0, bumped |-> FALSE]),
       !.rows = (10 :> NewRow("template", "c", "ann", Nil, [name |-> "hero"]))
             @@ (11 :> NewRow("sheet", "c", "bob", 10, [name |-> "rogue"]))
             @@ (12 :> NewRow("npc", "c", "ann", Nil, [name |-> "gob"]))
             @@ (13 :> NewRow("quest", "c", "ann", Nil, [name |-> "gob", status |-> "active"]))
             @@ (14 :> NewRow("category", "c", "ann", Nil, [name |-> "deity", upper |-> FALSE]))
             @@ (15 :> NewRow("source", "c", "cat", Nil, [title |-> "canon"]))
             @@ (16 :> NewRow("term", "c", "ann", Nil, [term |-> "bbeg"]))
             @@ (20 :> NewRow("entry", "c", "ann", Nil, Notes("x", 1, 0)))
             @@ (21 :> NewRow("entry", "c", "bob", Nil, Notes("y", 0, 1)))
             @@ (22 :> NewRow("entry", "d", "dan", Nil, Notes("x", 1, 1))),
       !.tags = (1 :> Gob) @@ (2 :> Filed("Ilm", 14)),
       !.tagged = (<<20, 1>> :> FALSE) @@ (<<21, 2>> :> FALSE) @@ (<<22, 1>> :> FALSE),
       !.feedback = (1 :> [campaign |-> "c"])]

-----------------------------------------------------------------------------
(* The registry of types. *)

Defs   == {Registry[t] : t \in EntityTypes}
Given  == {Nil} \cup [form : {"text", "time", "naive", "id", "ID", "uuid"}, is : {"other", "elsewhere"}]
Inputs == UNION {[keys -> Given] : keys \in {K \in SUBSET {"region", "parent_location_entity_id", "kind", "completed_at"} : Cardinality(K) <= 2}}

\* Types are as the code wants them: references are to types there are, and a
\* hidden status, shown as the default one, never looks like an end.
ASSUME TypesAreWhole ==
    \A def \in Defs :
        /\ TypeDefOK(def) /\ def.default \notin def.closed /\ def.closed \subseteq def.statuses
        /\ \A k \in DOMAIN def.attributes : def.attributes[k].kind = "ref" => def.attributes[k].of \subseteq EntityTypes

\* What is stored is stored again as it is, a reference in whichever spelling is
\* stored in one, and no key of another type is let in.
ASSUME StoredAgainUnchanged ==
    \A def \in Defs, attrs \in Inputs : \A stored \in ValidAttributes(def, attrs) :
        /\ ValidAttributes(def, stored) = {stored} /\ DOMAIN stored = DOMAIN attrs
        /\ \A k \in DOMAIN stored : def.attributes[k].kind = "ref" /\ stored[k] # Nil =>
              \A f \in {"id", "ID", "uuid"} : CheckValue(def.attributes[k], [stored[k] EXCEPT !.form = f]) = {stored[k]}

\* From the view of a row nothing can be told of what it hides: it is the same
\* whatever that is, and the same as if it were not set.
ASSUME ViewsTellNothing ==
    \A def \in {Registry["quest"], Registry["location"]}, status \in {"active", "completed"}, text \in {Nil, "x"},
       attrs \in UNION {[keys -> {"x"}] : keys \in SUBSET {"region", "reward", "completed_at"}} :
      \A hidden \in SUBSET (Hideable(def) \cup {<<"name">>}) :
        LET fields == [status |-> status, description |-> text, name |-> "n"]
            unset  == [status |-> IF <<"status">> \in hidden THEN def.default ELSE status,
                       description |-> IF <<"description">> \in hidden THEN Nil ELSE text, name |-> "n"]
            kept   == Restrict(attrs, {k \in DOMAIN attrs : <<"attributes", k>> \notin hidden})
        IN  /\ PartyViewOf(def, fields, attrs, hidden) = PartyViewOf(def, unset, kept, hidden)
            /\ \A view \in PartyViewOf(def, fields, attrs, hidden) : view.fields.name = "n" /\ view.attributes = kept
            /\ <<"name">> \in hidden => PartyViewOf(def, fields, attrs, hidden) = {}

-----------------------------------------------------------------------------
(* Reading. *)

Varied(vis, owner, shorthand, narrative, sheet) ==
    [World EXCEPT !.rows[20].vis = vis, !.rows[20].owner = owner, !.rows[20].body = Notes("x", shorthand, narrative),
                  !.rows[11].vis = sheet]
Worlds ==
    {[w EXCEPT !.tagged = t @@ (<<21, 2>> :> FALSE) @@ (<<22, 1>> :> FALSE)] :
        w \in {Varied(v, o, s, n, sheet) : v \in Visibility, o \in {"ann", "bob"}, s \in {0, 2}, n \in {0, 1}, sheet \in {"party", "private", "gm"}},
        t \in {<<>>, <<20, 1>> :> FALSE, <<20, 1>> :> TRUE, <<20, 2>> :> TRUE}}

\* Everything a user, or whoever has the link, is listed.
Listed(db, by) ==
    [entries |-> [c \in {Nil, "c"}, word \in {Nil, "gob"}, tag \in {Nil, 1}, page \in 1..2 |->
                    ListEntries(db, by, c, word, tag, page, 1)],
     tags    |-> [c \in {Nil, "c"} |-> ListTags(db, by, c)],
     rows    |-> [m \in Model |-> ListRows(db, by, "c", m)],
     naming  |-> Naming(db, by, 12, "npc"),
     got     |-> [r \in DOMAIN World.rows |-> Get(db, by, r, World.rows[r].model)],
     own     |-> OwnEntries(db, by, "c")]

\* What is left of it for one context: no other rows or links, and no shorthand
\* unless it is a GM's.
Blinded(db, ctx) ==
    LET rows == {r \in DOMAIN db.rows : Readable(db.rows[r], ctx)}
        blank(row) == IF row.model = "entry" /\ ctx.role # "gm" THEN [row EXCEPT !.body.shorthand = [gob |-> 0]] ELSE row
    IN  [db EXCEPT !.rows = [r \in rows |-> blank(db.rows[r])],
                  !.tagged = Restrict(@, {l \in DOMAIN @ : l[1] \in rows /\ (@[l] => ctx.role = "gm")})]

\* Lists, their order, pages, totals and counts are those of a Campaign that
\* has nothing but what the reader may read.
ASSUME HiddenChangesNoList ==
    \A db \in Worlds, by \in Asking :
        \A ctx \in LetIn(db, by, "c", "player", TRUE) : Listed(db, by) = Listed(Blinded(db, ctx), by)

\* No draft of one who is no GM is made of the shorthand, nor of a row that he
\* may not read; nor is anything that he, or a link, is served.
ASSUME DraftsKeepSecrets ==
    \A db \in Worlds, by \in Asking : \A ctx \in LetIn(db, by, "c", "player", TRUE) :
        /\ \A draft \in DOMAIN Drafts : \A r \in DraftRows(db, by, "c", draft, {}) :
              ctx.role # "gm" => Readable(db.rows[r], ctx) /\ Drafts[draft].parts = {}
        /\ ctx.role # "gm" => DraftAbout(db, by, 12, "npc") \cup DraftQuest(db, by, 13) = {}
        /\ \A m \in Model : \A r \in SharedRows(db, OpenId, m, 1) : Readable(db.rows[r], ctx)

-----------------------------------------------------------------------------
(* Writing.  A request is <<what, by, ...>>; what it makes gets an id that  *)
(* no other's has, one that was overtaken (db # seen) another than else.   *)

UserNo(u) == CHOOSE n \in 1..4 : <<"ann", "bob", "cat", "dan">>[n] = u
NewId(seen, db, by) == (IF db = seen THEN 100 ELSE 105) + 10 * Cardinality(DOMAIN seen.rows \cup DOMAIN seen.grants \cup DOMAIN seen.links) + UserNo(by.user)

Routes(op, seen, db, by, id, model) ==
    LET body == [name |-> IF op = "create" THEN "new" ELSE "changed"]
    IN  CASE model = "npc"      -> Npcs(op, seen, db, by, id, "c", body)
          [] model = "quest"    -> Quests(op, seen, db, by, id, "c", body)
          [] model = "plan"     -> Plans(op, seen, db, by, id, "c", body)
          [] model = "term"     -> Terms(op, seen, db, by, id, "c", body)
          [] model = "template" -> Templates(op, seen, db, by, id, "c", body)
          [] model = "sheet"    -> CharacterSheets(op, seen, db, by, id, "c", 10, body)

Do(r, seen, db, now) ==
    LET by == r[2] new == NewId(seen, db, r[2])
    IN  CASE r[1] \in {"create", "update"} -> Routes(r[1], seen, db, by, IF r[1] = "create" THEN new ELSE r[4], r[3])
          [] r[1] = "delete"   -> IF r[3] \in {"entry", "category"} THEN DeleteRow(seen, db, by, r[4], r[3])
                                  ELSE Routes("delete", seen, db, by, r[4], r[3])
          [] r[1] = "save"     -> SaveEntry(seen, db, by, new, "c", Notes(r[3], 1, 1), r[4] :> new, now)
          [] r[1] = "attach"   -> AttachTag(seen, db, by, r[3], r[4], new)
          [] r[1] = "detach"   -> DetachTag(seen, db, by, 20, 1)
          [] r[1] = "category" -> CreateCategory(seen, db, by, new, "c", r[3])
          [] r[1] = "remove"   -> RemoveMember(seen, db, by, "c", 1, r[3])
          [] r[1] = "leave"    -> Leave(seen, db, by, "c")
          [] r[1] = "link"     -> CreateLink(seen, db, by, "c", new, "read_only")
          [] r[1] = "revoke"   -> RevokeLink(seen, db, by, "c", r[3])
          [] r[1] = "open"     -> OpenLink(db, OpenId, {"read_only"}, now)
          [] r[1] = "join"     -> Join(seen, db, by, JoinId, new, now)
          [] r[1] = "hide"     -> SetVisibilities(seen, db, by, "c", r[3], r[4])
          [] r[1] = "feedback" -> SubmitFeedback(db, new, "c")
          [] r[1] = "drop"     -> DeleteCampaign(seen, db, by, "c")

Item(kind, id) == [kind |-> kind, id |-> id, field |-> Nil]
Writers == {As(u) : u \in {"ann", "bob"}}
Requests ==
    {<<"create", by, m>> : by \in Writers, m \in {"sheet", "template", "plan", "npc"}}
    \cup {<<"update", As("bob"), "term", 16>>, <<"update", As("bob"), "quest", 13>>}
    \cup {<<"update", by, "sheet", 11>> : by \in Writers}
    \cup {<<"delete", by, p[1], p[2]>> : by \in Writers, p \in {<<"template", 10>>, <<"sheet", 11>>, <<"category", 14>>, <<"entry", 20>>}}
    \cup {<<"save", by, "z", Typed("Orc", "faction")>> : by \in Writers}
    \cup {<<"attach", As("ann"), 20, tag>> : tag \in {Gob, Filed("Ilm", 14), Filed("Bahamut", 14)}}
    \cup {<<"detach", As("cat")>>, <<"category", As("cat"), [name |-> "deity", upper |-> TRUE]>>,
          <<"category", As("cat"), [name |-> "sage", upper |-> FALSE]>>,
          <<"remove", As("ann"), TRUE>>, <<"leave", As("bob")>>, <<"link", As("ann")>>, <<"revoke", As("ann"), OpenId>>,
          <<"open", As("dan")>>, <<"join", As("dan")>>, <<"join", As("ann")>>, <<"join", As("bob")>>, <<"feedback", As("dan")>>, <<"drop", As("ann")>>,
          <<"hide", As("ann"), <<Item("sheet", 11)>>, "private">>, <<"hide", As("ann"), <<Item("sheet", 11)>>, "gm">>,
          <<"hide", As("cat"), <<Item("journal", 20), Item("player_journal", 21)>>, "gm">>,
          <<"hide", As("cat"), <<Item("journal", 20), Item("npc", 12)>>, "gm">>}

\* Every world that n requests make of one, one after another.
Histories(start, n) ==
    LET dbs[i \in 0..n] == IF i = 0 THEN {start} ELSE {Do(r, db, db, i).db : r \in Requests, db \in dbs[i - 1]}
    IN  UNION {dbs[i] : i \in 0..n}

Before == Histories(World, 1)

\* Two requests at once: each has seen what neither had done.
Raced(a, b, db, now) == Do(b, db, Do(a, db, db, now).db, now)

\* What a row refers to is there, and in its Campaign; there is one grant for a
\* user in a Campaign, and none for its Owner; tags that have a type, categories
\* and the entries of one author differ.
Sound(db) ==
    /\ \A r \in DOMAIN db.rows : LET row == db.rows[r] IN
          /\ row.campaign \in DOMAIN db.campaigns
          /\ row.of # Nil => row.of \in DOMAIN db.rows /\ db.rows[row.of].campaign = row.campaign
    /\ \A l \in DOMAIN db.tagged : l[1] \in DOMAIN db.rows /\ l[2] \in DOMAIN db.tags
    /\ \A t \in DOMAIN db.tags : LET tag == db.tags[t] IN
          /\ tag.category # Nil => tag.category \in DOMAIN db.rows
          /\ tag.type # Nil => Tagged(db, tag) = {t}
    /\ \A g \in DOMAIN db.grants : LET grant == db.grants[g] IN
          /\ grant.campaign \in DOMAIN db.campaigns /\ db.campaigns[grant.campaign].owner # grant.user
          /\ GrantsOf(db, grant.campaign, grant.user) = {g}
    /\ \A l \in DOMAIN db.links : db.links[l].campaign \in DOMAIN db.campaigns
    /\ \A f \in DOMAIN db.feedback : db.feedback[f].campaign \in DOMAIN db.campaigns \cup {Nil}
    /\ \A c, e \in DOMAIN db.rows : (db.rows[c].model = "category" /\ db.rows[e].model = "category" /\ c # e) => db.rows[c].body # db.rows[e].body
    /\ \A e, f \in DOMAIN db.rows : (db.rows[e].model = "entry" /\ db.rows[f].model = "entry" /\ e # f) =>
          <<db.rows[e].campaign, db.rows[e].owner, db.rows[e].body.hash>> # <<db.rows[f].campaign, db.rows[f].owner, db.rows[f].body.hash>>

ASSUME SoundWhateverOvertakes ==
    \A db \in Before, a, b \in Requests : Sound(Raced(a, b, db, 40).db)

\* A request refused changes nothing but the mark of an expired link.
ASSUME RefusedChangesNothing ==
    \A db \in Before, a, b \in Requests :
        LET reply == Raced(a, b, db, 40)
        IN  reply.status >= 400 /\ reply.told = {} => reply.db = Do(a, db, db, 40).db

\* A user with no model may save what he has written himself; a duplicate asks
\* for no model; and only a narrative that was written and saved is metered,
\* twice at once included.
ASSUME WritingIsPaidOnce ==
    \A db \in Before, by \in Writers, hash \in {"x", "z"}, overtaken \in BOOLEAN, llm \in {"given", "none", "failed", "written"} :
        LET generate(seen, how) ==
              GenerateEntry(seen, IF overtaken THEN Do(<<"save", by, hash, Gob>>, seen, seen, 10).db ELSE seen,
                            by, 900, "c", Notes(hash, 1, 1), Gob :> 901, 10, how)
            got == generate(db, llm)
        IN  /\ generate(db, "none").reply.status # 402 => generate(db, "given").reply = generate(db, llm).reply
            /\ got.metered => llm = "written" /\ 900 \in DOMAIN got.reply.db.rows
            /\ llm = "written" /\ 900 \in DOMAIN got.reply.db.rows => got.metered
            /\ LET draft == DraftEntry(db, db, by, "c", llm)
               IN  draft.reply.db = db /\ (draft.metered => llm = "written")

Speak == [id \in Nat |-> IF id = 20 THEN <<Typed("gob", "character"), Typed("Orc", "faction"), Typed("Ida", "character")>>
                          ELSE <<Typed("Ida", "character"), Typed("Ida", "faction"), Typed("Uwe", "character")>>]

\* Of the people of the entries each is suggested once, and none who is an NPC.
ASSUME PeopleOnce ==
    \A db \in Before, by \in Asking : \A names \in ExtractNpcs(db, by, "c", Speak) :
        /\ \A i, j \in 1..Len(names) : names[i] = names[j] => i = j
        /\ \A i \in 1..Len(names) : \A r \in DOMAIN db.rows :
              db.rows[r].model = "npc" /\ db.rows[r].campaign = "c" => db.rows[r].body.name # names[i].name
        /\ \A e \in DraftRows(db, by, "c", "extract", {}) : \A i \in 1..Len(Speak[e]) :
              \/ Speak[e][i] \in ToSet(names) \/ Speak[e][i].type # "character"
              \/ \E r \in DOMAIN db.rows : db.rows[r].model = "npc" /\ db.rows[r].body.name = Speak[e][i].name

\* Without a race no request of one who is no GM touches a row that he may not
\* read, and what he creates he may read.
ASSUME HiddenIsUntouched ==
    \A db \in Histories(World, 2), r \in {q \in Requests : q[2] = As("bob")} : \A ctx \in LetIn(db, As("bob"), "c", "player", TRUE) :
        LET after == Do(r, db, db, 10).db
        IN  /\ \A id \in DOMAIN db.rows : ~Readable(db.rows[id], ctx) => id \in DOMAIN after.rows /\ after.rows[id] = db.rows[id]
            /\ \A id \in DOMAIN after.rows \ DOMAIN db.rows : Readable(after.rows[id], ctx)

\* A sheet hidden while the template is deleted goes with it all the same.
ASSUME HidingRacesDeletion ==
    LET hide == <<"hide", As("ann"), <<Item("sheet", 11)>>, "gm">>
        drop == <<"delete", As("bob"), "template", 10>>
    IN  /\ Do(drop, Do(hide, World, World, 1).db, Do(hide, World, World, 1).db, 1).status = 404
        /\ Raced(hide, drop, World, 1).status = 204 /\ 11 \notin DOMAIN Raced(hide, drop, World, 1).db.rows

\* Whose grant is gone or changed is told; after a race all but the Member who
\* joined while the Campaign was deleted.
ASSUME GrantsAreTold ==
    \A db \in Before, a, b \in Requests :
        LET then  == Do(a, db, db, 40)
            reply == Raced(a, b, db, 40)
            ended(f, g) == {x \in DOMAIN f : x \notin DOMAIN g \/ ("epoch" \in DOMAIN f[x] /\ f[x] # g[x])}
            lost == (ended(then.db.grants, reply.db.grants) \cup ended(then.db.links, reply.db.links)) \ reply.told
        IN  lost # {} => b[1] = "drop" /\ a[1] \in {"join", "link"}

\* Two who file the first tag of a name in a category leave two of them, and
\* from then on no one may use that name: the lookup expects one.
ASSUME FiledTwiceIsStuck ==
    LET file(e) == <<"attach", As(IF e = 20 THEN "ann" ELSE "cat"), e, Filed("Bahamut", 14)>>
        both == Raced(file(20), file(21), World, 1)
    IN  /\ both.status = 201 /\ Cardinality(Tagged(both.db, Filed("Bahamut", 14))) = 2
        /\ \A e \in {20, 21} : Do(file(e), both.db, both.db, 2).status = 500
        /\ Raced(<<"attach", As("ann"), 20, Typed("Orc", "item")>>, <<"attach", As("cat"), 21, Typed("Orc", "item")>>, World, 1).status = 500

\* The same notes are a duplicate for a day, deleted or not; after it the index
\* refuses them, unless the entry was deleted.  Another's are another's.
ASSUME DuplicatesForADay ==
    LET save(u) == <<"save", As(u), "z", Typed("Orc", "faction")>>
        once == Do(save("ann"), World, World, 1).db
        gone == Do(<<"delete", As("cat"), "entry", NewId(World, World, As("ann"))>>, once, once, 2).db
        again(db, u, now) == Do(save(u), db, db, now).status
    IN  /\ again(once, "ann", 24) = 409 /\ again(gone, "ann", 24) = 409
        /\ again(once, "ann", 25) = 500 /\ again(gone, "ann", 25) = 201
        /\ again(once, "bob", 2) = 201
        /\ Raced(save("ann"), save("ann"), World, 1).status = 500

\* Items are set together or not at all, and all that were are marked.
ASSUME AllOrNothing ==
    \A kinds \in {"journal", "player_journal", "sheet", "npc", "template"} \X {"journal", "sheet", "term"}, value \in Visibility :
        LET id(kind) == CASE kind = "sheet" -> 11 [] kind = "npc" -> 12 [] kind = "term" -> 16 [] kind = "template" -> 10 [] OTHER -> 20
            reply == SetVisibilities(World, World, As("cat"), "c", <<Item(kinds[1], id(kinds[1])), Item(kinds[2], id(kinds[2]))>>, value)
        IN  IF reply.status = 200
            THEN reply.db.stale = {id(kinds[1]), id(kinds[2])} /\ \A r \in reply.db.stale : reply.db.rows[r].vis = value
            ELSE reply.db = World /\ reply.status = IF kinds[1] = "npc" THEN 422 ELSE 404

\* Links that do not answer are the same to whoever tries; the first to find one
\* expired tells its readers, once.
ASSUME DeadLinksLookAlike ==
    LET late == OpenLink(World, OpenId, {"read_only"}, 30)
        revoked == Do(<<"revoke", As("ann"), OpenId>>, World, World, 1).db
    IN  /\ OpenLink(World, OpenId, {"read_only"}, 29).status = 200
        /\ late.status = 404 /\ late.told = {OpenId} /\ late.db.links[OpenId].epoch = 1
        /\ OpenLink(late.db, OpenId, {"read_only"}, 31) = NotFound(late.db)
        /\ OpenLink(revoked, OpenId, {"read_only"}, 31) = NotFound(revoked)
        /\ OpenLink(World, JoinId, {"read_only"}, 1) = NotFound(World) /\ OpenLink(World, 9, {"read_only"}, 1) = NotFound(World)

\* A preview changes nothing, whoever's it is that has one.
ASSUME PreviewsOnlyRead ==
    \A r \in Requests : r[1] \notin {"open", "join", "feedback"} /\ r[2].user # "bob" =>
        Do([r EXCEPT ![2] = [user |-> r[2].user, preview |-> TRUE]], World, World, 1) = NotFound(World)
=============================================================================
