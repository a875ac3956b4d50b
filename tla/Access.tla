------------------------------- MODULE Access -------------------------------
(***************************************************************************)
(* Who may read a row: the Audiences of access/audience.py, the rules      *)
(* access/registry.py computes them by, and the SQL predicates it builds   *)
(* from the same registrations.  The program has each rule twice, as a     *)
(* Python function over a loaded row and as a WHERE clause; so has this    *)
(* module.  A clause is the truth of its SQL expression in a WHERE: an     *)
(* expression that is NULL hides the row.                                  *)
(***************************************************************************)
EXTENDS Naturals

CONSTANTS User, Nil

Visibility == {"party", "private", "gm"}
Kind       == {"gm", "player"}

\* NULL is neither a user nor a stored value.
ASSUME AccessAssumption == Nil \notin User \cup Visibility \cup Kind

\* Public > Members > Owner(u) > GM, widest first.
Level    == {"public", "members", "owner", "gm"}
Audience == {a \in [level : Level, user : User \cup {Nil}] : a.level = "owner" <=> a.user # Nil}

Public   == [level |-> "public", user |-> Nil]
Members  == [level |-> "members", user |-> Nil]
Owner(u) == [level |-> "owner", user |-> u]
GM       == [level |-> "gm", user |-> Nil]

Rank(l) == CASE l = "public" -> 0 [] l = "members" -> 1 [] l = "owner" -> 2 [] l = "gm" -> 3

\* A viewer whose Audience is `viewer` may read a row whose Audience is `row`.
Covers(row, viewer) ==
    IF row.level = "owner" /\ viewer.level = "owner"
    THEN row.user = viewer.user
    ELSE Rank(row.level) <= Rank(viewer.level)

\* The narrower of the two; GM for two Owners.
Meet(a, b) ==
    IF a.level = "owner" /\ b.level = "owner" /\ a.user # b.user THEN GM
    ELSE IF Rank(a.level) >= Rank(b.level) THEN a ELSE b

CtxAudience(role, u) == CASE role = "gm" -> GM [] role = "player" -> Owner(u) [] role = "anon" -> Public

-----------------------------------------------------------------------------
(* The Python rules. *)

StoredAudience(vis, owner, kind) ==
    CASE vis = "party"   -> IF kind \in {Nil, "gm"} THEN Public ELSE Members
      [] vis = "private" -> IF owner # Nil THEN Owner(owner) ELSE GM
      [] OTHER           -> GM

FloorAudience(floor) == IF floor = Nil THEN Public ELSE StoredAudience(floor, Nil, Nil)

\* A stored row: its own Visibility, or GM when one of its gm_when columns is set.
RowAudience(vis, owner, kind, gone) == IF gone THEN GM ELSE StoredAudience(vis, owner, kind)

\* A row narrowed by a floor and one parent (an alias, a Mention), or by two
\* (an edge, whose own Visibility has no author).
DerivedAudience(parent, floor)           == Meet(parent, FloorAudience(floor))
EdgeAudience(vis, floor, source, target) ==
    Meet(Meet(Meet(StoredAudience(vis, Nil, Nil), FloorAudience(floor)), source), target)

\* The field of a history row.  always: an always-GM field, or one of the
\* Visibility columns; none: the row names no field; public: it is of an op
\* whose nameless rows are content-free; vis, head: the Visibility set for the
\* field and for the part before its first dot, Nil where none is.
FieldAudience(always, none, public, vis, head, owner, kind) ==
    IF none THEN (IF public THEN Public ELSE GM)
    ELSE IF always THEN GM
    ELSE Meet(IF vis = Nil THEN Public ELSE StoredAudience(vis, owner, kind),
              IF head = Nil THEN Public ELSE StoredAudience(head, owner, kind))

\* A row that comes of a field of an entry (a tag's link; a Mention, which its
\* Entity and its floor narrow too): an always-GM field makes it GM.
FieldSourced(parent, always)                == Meet(parent, IF always THEN GM ELSE Public)
MentionAudience(entry, entity, always, floor) ==
    Meet(Meet(FieldSourced(entry, always), entity), FloorAudience(floor))

\* A row that is always its owner's (a chat session), or a GM's and its owner's (a Job).
OwnedAudience(owner) == IF owner # Nil THEN Owner(owner) ELSE GM

\* A parent's Audience; a row whose parent is gone is nobody's.
LinkAudience(parent) == IF parent = Nil THEN GM ELSE parent

\* What one derived_sources row lets a file's Audience be: nothing (GM) for a
\* source that is missing, of another Campaign or of a kind the type may not
\* come from, and for an always-GM field.
SourceAudience(resolved, gmField, source) == IF resolved /\ ~gmField THEN source ELSE GM

\* A stored file with two sources and the user it was made for, if any.
FileAudience(stale, known, first, second, owner) ==
    IF stale \/ ~known THEN GM
    ELSE Meet(Meet(first, second), IF owner = Nil THEN Public ELSE Owner(owner))

-----------------------------------------------------------------------------
(* The SQL clauses, for a viewer's Audience. *)

\* column = value is not true for a NULL column.
Equals(column, value) == column # Nil /\ column = value

\* owned: the model has an owner column; kinded: it has a kind column.
VisClause(vis, owned, owner, kinded, kind, viewer) ==
    IF viewer.level = "owner"
    THEN \/ Equals(vis, "party")
         \/ owned /\ Equals(vis, "private") /\ Equals(owner, viewer.user)
    ELSE Equals(vis, "party") /\ (viewer.level = "members" \/ ~kinded \/ Equals(kind, "gm"))

FloorClause(floor, viewer) == viewer.level = "gm" \/ floor = Nil \/ floor = "party"

StoredClause(vis, owned, owner, kinded, kind, gone, viewer) ==
    viewer.level = "gm" \/ (VisClause(vis, owned, owner, kinded, kind, viewer) /\ ~gone)

OwnedClause(owner, viewer) == viewer.level = "gm" \/ (viewer.level = "owner" /\ Equals(owner, viewer.user))

\* exists: a row has the parent's id and passes the parent's clause.
LinkClause(parent, exists, viewer) == (viewer.level = "gm" /\ parent = Nil) \/ (parent # Nil /\ exists)

\* The clause of each parent is inside the EXISTS of its own row.
DerivedClause(parentClause, floor, viewer) == parentClause /\ FloorClause(floor, viewer)
EdgeClause(vis, floor, sourceClause, targetClause, viewer) ==
    \/ viewer.level = "gm"
    \/ /\ VisClause(vis, FALSE, Nil, FALSE, Nil, viewer)
       /\ FloorClause(floor, viewer)
       /\ sourceClause /\ targetClause

SourcedClause(parentClause, always, viewer) == parentClause /\ (viewer.level = "gm" \/ ~always)
MentionClause(entryClause, entityClause, always, floor, viewer) ==
    SourcedClause(entryClause, always, viewer) /\ entityClause /\ FloorClause(floor, viewer)

FieldClause(always, none, public, vis, head, owned, owner, kinded, kind, viewer) ==
    \/ viewer.level = "gm"
    \/ none /\ public
    \/ /\ ~none /\ ~always
       /\ vis = Nil \/ VisClause(vis, owned, owner, kinded, kind, viewer)
       /\ head = Nil \/ VisClause(head, owned, owner, kinded, kind, viewer)

SourceClause(resolved, gmField, sourceClause) == resolved /\ ~gmField /\ sourceClause

FileClause(stale, known, first, second, owner, viewer) ==
    \/ viewer.level = "gm"
    \/ /\ ~stale /\ known /\ first /\ second
       /\ owner = Nil \/ (viewer.level = "owner" /\ owner = viewer.user)
=============================================================================
