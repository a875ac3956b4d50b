----------------------------- MODULE Projection -----------------------------
(***************************************************************************)
(* What a reader is served: the context a request reads under              *)
(* (access/context.py), the parts of an Entity and of its history that the *)
(* context is shown (access/projection.py), and what it may cite or replay *)
(* (access/sources.py).  Fields of an Entity carry a Visibility of their   *)
(* own, Nil where none is set; the history is read by the fields' present  *)
(* Visibility, whatever it was when the row was written.                   *)
(***************************************************************************)
EXTENDS Access

CONSTANTS Campaign,       \* ids of Campaigns
          Attribute,      \* the keys of an Entity's attributes
          Value,          \* what a field may hold
          DefaultStatus   \* the status a type begins with

\* A Quest's attributes.completed_at.
Stamp == "completed_at"

-----------------------------------------------------------------------------
(* Contexts. *)

Role  == {"gm", "player", "anon"}
Grant == {"owner", "co_gm", "player"}
Context == [campaign : Campaign, user : User \cup {Nil}, role : Role, isOwner : BOOLEAN,
            audience : Audience, system : BOOLEAN, readOnly : BOOLEAN]

WellFormed(ctx) ==
    /\ ctx.isOwner => ctx.role = "gm"
    /\ ctx.system  => ctx.role = "gm" /\ ctx.user # Nil /\ ~ctx.readOnly
    /\ ctx.role = "gm" => ctx.audience = GM
    /\ ctx.role = "player" => \/ ctx.user # Nil /\ ctx.audience = Owner(ctx.user)
                              \/ ctx.user = Nil /\ ctx.audience = Members /\ ctx.readOnly
    /\ ctx.role = "anon" => ctx.user = Nil /\ ctx.audience = Public /\ ctx.readOnly

StoredRole(grant) == IF grant = "player" THEN "player" ELSE "gm"

\* The context a user's grant gives now.
CtxFor(campaign, user, grant) ==
    [campaign |-> campaign, user |-> user, role |-> StoredRole(grant), isOwner |-> grant = "owner",
     audience |-> CtxAudience(StoredRole(grant), user), system |-> FALSE, readOnly |-> FALSE]

\* player < gm < owner; anon is below them all.
Meets(ctx, min) == CASE min = "player" -> ctx.role \in {"player", "gm"}
                     [] min = "gm"     -> ctx.role = "gm"
                     [] min = "owner"  -> ctx.isOwner

\* What a reduced context may read as: anyone with the link, any Member, or one user.
Target == [view : {"anon", "member"}, user : {Nil}] \cup [view : {"user"}, user : User]

TargetAudience(target) == CASE target.view = "anon"   -> Public
                            [] target.view = "member" -> Members
                            [] target.view = "user"   -> Owner(target.user)

\* audience_ctx refuses a target that would read more than the one who asks.
MayReduce(target, by) == Covers(TargetAudience(target), by.audience)
Reduced(target, by) ==
    [campaign |-> by.campaign, user |-> target.user, role |-> IF target.view = "anon" THEN "anon" ELSE "player",
     isOwner |-> FALSE, audience |-> TargetAudience(target), system |-> FALSE, readOnly |-> TRUE]

MemberView == [view |-> "member", user |-> Nil]

\* A GM who previews reads as a Member; safe: the request's method changes nothing.
Previews(ctx, preview) == preview /\ ctx.role = "gm"
NarrowForPreview(ctx, preview) == IF Previews(ctx, preview) THEN Reduced(MemberView, ctx) ELSE ctx
Admitted(ctx, preview, safe, min) ==
    /\ Previews(ctx, preview) => safe
    /\ Meets(NarrowForPreview(ctx, preview), min)

\* Who may change a Visibility.
MaySetVisibility(ctx) == ctx.role = "gm" /\ ~ctx.readOnly /\ ~ctx.system /\ ctx.user # Nil

\* The context a role map grants in one of its Campaigns, and whether a list
\* over several Campaigns selects a stored row of it.
RoleCtx(campaign, user, role, preview) ==
    NarrowForPreview(CtxFor(campaign, user, IF role = "gm" THEN "co_gm" ELSE "player"), preview)

SelectedFrom(roles, preview, user, campaign, vis, owned, owner, kinded, kind, gone) ==
    LET clause(viewer) == StoredClause(vis, owned, owner, kinded, kind, gone, viewer)
    IN  \/ roles[campaign] = "gm" /\ (preview => clause(Members))
        \/ roles[campaign] = "player" /\ clause(Owner(user))

-----------------------------------------------------------------------------
(* Rows, the tags of entries, and files. *)

\* project refuses a row that the query should not have given it: one of another
\* Campaign, or whose Audience leaves the context out.
Served(campaign, audience, ctx) == campaign = ctx.campaign /\ Covers(audience, ctx.audience)

\* scoped_select: the clause of the row, within the context's Campaign.
Selected(campaign, clause, ctx) == campaign = ctx.campaign /\ clause

\* A tag of an entry: whether it is linked, and from an always-GM field.
TagLink == [linked : BOOLEAN, always : BOOLEAN]

\* The tags served with an entry.  A GM is served all of them.
EntryTags(entry, links, ctx) ==
    {t \in DOMAIN links : /\ links[t].linked
                          /\ ctx.role = "gm" \/ Covers(FieldSourced(entry, links[t].always), ctx.audience)}

\* A tag itself is in the list of tags when some entry of the Campaign the
\* reader may read links to it.
TagListed(tag, entries, ctx) ==
    \E e \in entries : /\ e.links[tag].linked
                       /\ SourcedClause(Selected(e.campaign, Covers(e.audience, ctx.audience), ctx),
                                        e.links[tag].always, ctx.audience)

\* A tag's own category is served apart from the tag.
CategoryShown(campaign, audience, ctx) == Served(campaign, audience, ctx)

\* A file is opened only when the clause and the Python rule both let it.
FileServed(stale, known, first, second, owner, ctx) ==
    /\ FileClause(stale, known, Covers(first, ctx.audience), Covers(second, ctx.audience), owner, ctx.audience)
    /\ Covers(FileAudience(stale, known, first, second, owner), ctx.audience)

\* The context of whoever opens a read-only link.
ShareCtx(campaign) ==
    [campaign |-> campaign, user |-> Nil, role |-> "anon", isOwner |-> FALSE,
     audience |-> Public, system |-> FALSE, readOnly |-> TRUE]

-----------------------------------------------------------------------------
(* An Entity and its history. *)

Field  == {"status", "description", "attributes"}
MaybeV == Value \cup {Nil}
Hiding == Visibility \cup {Nil}

Entity == [status : Value, description : MaybeV, attributes : [Attribute -> MaybeV], notes : MaybeV,
           owner : User \cup {Nil}, hide : [Field -> Hiding], hideKey : [Attribute -> Hiding]]

\* The registry's rule for a field of a row the viewer may read, and for the
\* attribute k, which its part before the dot narrows too.
FieldSeen(e, f, viewer) ==
    Covers(FieldAudience(FALSE, FALSE, FALSE, e.hide[f], e.hide[f], e.owner, Nil), viewer)
KeySeen(e, k, viewer) ==
    Covers(FieldAudience(FALSE, FALSE, FALSE, e.hideKey[k], e.hide["attributes"], e.owner, Nil), viewer)

\* _apply_field_visibility: the names whose own Visibility leaves the viewer out.
Hides(vis, e, viewer) == vis # Nil /\ ~Covers(StoredAudience(vis, e.owner, Nil), viewer)

\* The Entity as its Party response: a hidden field is what it would be unset,
\* and a hidden status takes the completion stamp along.
PartyView(e, viewer) ==
    [status      |-> IF Hides(e.hide["status"], e, viewer) THEN DefaultStatus ELSE e.status,
     description |-> IF Hides(e.hide["description"], e, viewer) THEN Nil ELSE e.description,
     attributes  |-> [k \in Attribute |->
        IF \/ Hides(e.hide["attributes"], e, viewer)
           \/ Hides(e.hideKey[k], e, viewer)
           \/ k = Stamp /\ Hides(e.hide["status"], e, viewer)
        THEN Nil ELSE e.attributes[k]]]

\* A history row of a field, or of the attribute k.  A Quest's status row
\* carries the stamp as well, a row written for a deleted entry its id.
History == [field : Field, key : Attribute \cup {Nil}, value : MaybeV, stamp : MaybeV, journal : MaybeV]

RowSeen(row, e, viewer) ==
    IF row.key # Nil THEN KeySeen(e, row.key, viewer) ELSE FieldSeen(e, row.field, viewer)

\* loaded: the row was read with its Entity; without it, all the Entity might
\* hide is hidden.
ValuesHidden(row, e, loaded, viewer) ==
    viewer.level # "gm" /\ row.key = Stamp /\ (loaded => ~FieldSeen(e, "status", viewer))

KeysHidden(e, loaded, viewer) ==
    {k \in {Stamp, "journal_id"} : viewer.level # "gm" /\ (k = Stamp /\ loaded => ~KeySeen(e, Stamp, viewer))}

HistoryView(row, e, loaded, viewer) ==
    LET nothing == ValuesHidden(row, e, loaded, viewer)
        hidden  == KeysHidden(e, loaded, viewer)
    IN  [value   |-> IF nothing THEN Nil ELSE row.value,
         stamp   |-> IF nothing \/ Stamp \in hidden THEN Nil ELSE row.stamp,
         journal |-> IF nothing \/ "journal_id" \in hidden THEN Nil ELSE row.journal]

\* The Entity of a history row that came without it: looked up by its id, and
\* in the row's own Campaign only.
ParentFound(row, parent) == parent # Nil /\ parent.id = row.entity /\ parent.campaign = row.campaign

\* The response schema of a Role; anonymous: the model has one for whoever has a link.
SchemaFor(role, anonymous) ==
    CASE role = "gm"                  -> "gm"
      [] role = "anon" /\ anonymous   -> "anon"
      [] OTHER                        -> "party"

\* An Entity as a response; Nil: not found.  Its Party schema has no notes.
ProjectEntity(e, campaign, audience, ctx) ==
    IF ~Served(campaign, audience, ctx) THEN Nil
    ELSE [shown |-> PartyView(e, ctx.audience),
          notes |-> IF SchemaFor(ctx.role, FALSE) = "gm" THEN e.notes ELSE Nil]

\* Lists over several Campaigns: roles[c] is the Role held in c, or Nil.  A row
\* is projected in its own Campaign; a tag, which has none, in any Campaign of
\* the reader, in one where he is a Player if there is one.
HeldIn(roles) == {c \in Campaign : roles[c] # Nil}
PlayerNowhere(roles) == \A c \in Campaign : roles[c] # "player"

RowCampaigns(campaign, isTag, roles) ==
    IF campaign \in HeldIn(roles) THEN {campaign}
    ELSE {c \in HeldIn(roles) : isTag /\ (roles[c] = "player" \/ PlayerNowhere(roles))}

-----------------------------------------------------------------------------
(* The registry of Entity Types (domain/entity_types.py).  An attribute has a   *)
(* type of value, and the types it may refer to or the choices it has.          *)

EntityTypes == {"character", "location", "faction", "item", "quest"}

AttrDef(kind, of) == [kind |-> kind, of |-> of]
TextAttr    == AttrDef("text", {})
RefTo(of)   == AttrDef("ref", of)

LocationKind == {"settlement", "dungeon", "wilderness", "building", "region", "plane", "other"}

\* closed: the statuses that end it.  A status is open unless it does.
Registry ==
    [character |-> [statuses |-> {"alive", "missing", "unknown", "deceased"}, closed |-> {"deceased"}, default |-> "unknown",
                    kinds |-> {"pc", "npc", "creature"},
                    attributes |-> [species |-> TextAttr, occupation |-> TextAttr, location_entity_id |-> RefTo({"location"}),
                                    voice |-> TextAttr, appearance |-> TextAttr, pronouns |-> TextAttr, goals |-> TextAttr]],
     location  |-> [statuses |-> {"active", "destroyed", "unknown"}, closed |-> {"destroyed"}, default |-> "unknown", kinds |-> {},
                    attributes |-> [region |-> TextAttr, parent_location_entity_id |-> RefTo({"location"}),
                                    kind |-> AttrDef("choice", LocationKind)]],
     faction   |-> [statuses |-> {"active", "disbanded", "unknown"}, closed |-> {"disbanded"}, default |-> "unknown", kinds |-> {},
                    attributes |-> [headquarters_entity_id |-> RefTo({"location"}), leader_entity_id |-> RefTo({"character"}), goals |-> TextAttr]],
     item      |-> [statuses |-> {"active", "destroyed", "unknown"}, closed |-> {"destroyed"}, default |-> "unknown", kinds |-> {},
                    attributes |-> [holder_entity_id |-> RefTo({"character", "faction"}), location_entity_id |-> RefTo({"location"}), rarity |-> TextAttr]],
     quest     |-> [statuses |-> {"active", "completed", "failed", "abandoned"}, closed |-> {"completed", "failed", "abandoned"},
                    default |-> "active", kinds |-> {},
                    attributes |-> [giver_entity_id |-> RefTo({"character", "faction"}), completed_at |-> AttrDef("datetime", {}),
                                    reward |-> TextAttr, location_entity_id |-> RefTo({"location"})]]]

\* What the code checks of each type as it is loaded.
TypeDefOK(def) ==
    /\ def.default \in def.statuses
    /\ \A k \in DOMAIN def.attributes :
          def.attributes[k].of # {} <=> def.attributes[k].kind \in {"ref", "choice"}

\* A Character has a kind, nothing else has.
ValidKind(def, kind) == IF def.kinds = {} THEN kind = Nil ELSE kind \in def.kinds

\* What is stored of a value, if it may be: a reference always in one spelling.
\* form: "text", "time" with a zone and "naive" without, "id" as text, "ID" in
\* another spelling, "uuid" as such.
CheckValue(attr, value) ==
    LET kept(forms) == {v \in {value} : v.form \in forms}
    IN  CASE value = Nil -> {Nil}
          [] value # Nil /\ attr.kind = "ref"      -> {[form |-> "id", is |-> v.is] : v \in kept({"id", "ID", "uuid"})}
          [] value # Nil /\ attr.kind = "text"     -> kept({"text", "time", "naive", "id", "ID"})
          [] value # Nil /\ attr.kind = "datetime" -> kept({"time"})
          [] value # Nil /\ attr.kind = "choice"   -> {v \in kept({"text"}) : v.is \in attr.of}

ValidAttributes(def, attrs) ==
    IF DOMAIN attrs \subseteq DOMAIN def.attributes /\ \A k \in DOMAIN attrs : CheckValue(def.attributes[k], attrs[k]) # {}
    THEN {[k \in DOMAIN attrs |-> CHOOSE v \in CheckValue(def.attributes[k], attrs[k]) : TRUE]} ELSE {}

\* The names of what may be hidden, and what is shown instead; an attribute's key
\* is dropped.  The name is not one of them.
HideableFields == {"status", "aliases", "description", "gm_notes"}
Hideable(def)  == {<<f>> : f \in HideableFields} \cup {<<"attributes", k>> : k \in DOMAIN def.attributes}

PartyUnset(def, field) == CASE field = "status"  -> def.default
                            [] field = "aliases" -> {}
                            [] OTHER             -> Nil

\* Nothing is shown when anything is to be hidden that cannot be.  A field that is
\* hidden is shown unset though it was not among the fields.
PartyViewOf(def, fields, attrs, hidden) ==
    IF ~(hidden \subseteq Hideable(def)) THEN {}
    ELSE LET hides(f) == <<f>> \in hidden
         IN  {[fields     |-> [f \in DOMAIN fields \cup {g \in HideableFields : hides(g)} |->
                                 IF hides(f) THEN PartyUnset(def, f) ELSE fields[f]],
               attributes |-> [k \in {j \in DOMAIN attrs : <<"attributes", j>> \notin hidden} |-> attrs[k]]]}

-----------------------------------------------------------------------------
(* Citations and stored messages. *)

\* A column of a row whose Audience is row, or the whole of it.  gmField: the
\* field is GM-only; gmModel: the model has such a field, or Visibilities per field.
Ref == [row : Audience, known : BOOLEAN, whole : BOOLEAN, gmField : BOOLEAN, gmModel : BOOLEAN,
        vis : Hiding, owner : User \cup {Nil}, kind : Kind \cup {Nil}]

RefSeen(ref, viewer) ==
    /\ Covers(ref.row, viewer)
    /\ ref.whole \/ ref.known
    /\ \/ viewer.level = "gm"
       \/ ref.whole /\ ~ref.gmModel
       \/ /\ ~ref.whole /\ ~ref.gmField
          /\ ref.vis = Nil \/ Covers(StoredAudience(ref.vis, ref.owner, ref.kind), viewer)

\* refs: what a stored message cites; Nil for one from before there were citations.
MessageShown(refs, viewer) ==
    IF refs = Nil THEN viewer.level = "gm" ELSE \A ref \in refs : RefSeen(ref, viewer)

\* The messages as they are served, and those that go back into a prompt.
Shown(messages, viewer)    == {m \in messages : MessageShown(m.refs, viewer)}
Redacted(messages, viewer) ==
    {IF m \in Shown(messages, viewer) THEN m ELSE [m EXCEPT !.content = Nil, !.refs = {}] : m \in messages}
Replayed(messages, archived, viewer) == IF archived THEN {} ELSE Shown(messages, viewer)

\* Citations as a response: each ref once, when its resolver finds something;
\* found[ref]: it did, or it failed, found nothing or is not registered.
Resolved(refs, found, viewer) == {ref \in refs : RefSeen(ref, viewer) /\ found[ref]}

\* A chat belongs to one user, who finds it in any Campaign; it is read in the
\* context of its own.  An archived one was a Member's, whose role ended.
ChatSession == [user : User \cup {Nil}, campaign : Campaign \cup {Nil}, archived : BOOLEAN]

OwnedGet(session, user) == session.user = user

ChatOpen(session, ctx) ==
    /\ session.user # Nil /\ session.user = ctx.user
    /\ session.campaign = ctx.campaign
    /\ session.archived => ctx.role = "gm"

\* Through the Roles of its user.  One without a Campaign (which may be gone) is
\* his own, and what it cites is read as the Campaign of each row allows.
ChatOpenFrom(session, roles, user, preview) ==
    IF session.campaign # Nil
    THEN /\ session.campaign \in HeldIn(roles)
         /\ ChatOpen(session, RoleCtx(session.campaign, user, roles[session.campaign], preview))
    ELSE OwnedGet(session, user) /\ (session.archived => PlayerNowhere(roles))

RefSeenFrom(ref, campaign, roles, user, preview) ==
    campaign \in HeldIn(roles) /\ RefSeen(ref, RoleCtx(campaign, user, roles[campaign], preview).audience)

\* cited: what a message of such a chat cites, each ref with its Campaign.
OwnMessageShown(cited, roles, user, preview) ==
    IF cited = Nil THEN PlayerNowhere(roles)
    ELSE \A c \in cited : RefSeenFrom(c.ref, c.campaign, roles, user, preview)

\* Whoever previews has a Player's Role wherever he has one.
PreviewRoles(roles, preview) ==
    [c \in Campaign |-> IF preview /\ roles[c] # Nil THEN "player" ELSE roles[c]]

\* A request for one of his chats; safe: its method changes nothing.
ChatReached(session, roles, user, preview, safe) ==
    IF session.campaign # Nil THEN ChatOpenFrom(session, roles, user, preview)
    ELSE (preview => safe) /\ ChatOpenFrom(session, PreviewRoles(roles, preview), user, FALSE)

\* An archived chat is read-only, even to a GM.
ChatDeletable(session, roles, user, preview) ==
    ChatReached(session, roles, user, preview, FALSE) /\ ~session.archived

\* His list of chats, which the database selects.
ChatListed(session, roles, user, preview) ==
    LET held == PreviewRoles(roles, preview)
    IN  /\ session.user = user
        /\ session.campaign = Nil \/ session.campaign \in HeldIn(held)
        /\ \/ ~session.archived
           \/ session.campaign = Nil /\ PlayerNowhere(held)
           \/ session.campaign # Nil /\ held[session.campaign] = "gm"

\* A search of it: inTitle, or a match in a message that is shown.  matches: what
\* each matching message of the chat cites.
ChatFound(session, inTitle, matches, roles, user, preview) ==
    LET held == PreviewRoles(roles, preview)
        shown(cited) ==
          IF session.campaign = Nil THEN OwnMessageShown(cited, held, user, FALSE)
          ELSE MessageShown(IF cited = Nil THEN Nil ELSE {c.ref : c \in cited},
                            RoleCtx(session.campaign, user, held[session.campaign], FALSE).audience)
    IN  /\ ChatListed(session, roles, user, preview)
        /\ inTitle \/ \E cited \in matches : shown(cited)
=============================================================================
