------------------------------- MODULE Canon --------------------------------
(***************************************************************************)
(* The one Canon write path, services/world_service.py: apply_change and   *)
(* revert_change of one Campaign, called by concurrent sessions, one       *)
(* change to a transaction.  A change claims its proposal's advisory lock, *)
(* locks the rows it names with FOR UPDATE, reads the rest as committed    *)
(* (READ COMMITTED), and writes at the flush, where an UPDATE, a DELETE or *)
(* an INSERT of a row another session holds waits for it.                  *)
(* The Entities are Quests; a row's free text is left out; an alias is the *)
(* pair of its Entity and its normalised text, as its unique index has it. *)
(***************************************************************************)
EXTENDS Access, Sequences, FiniteSets

CONSTANTS Session, Entities, Edges, Steps, Mentions, Key, Proposal,
          Start,       \* the world before the first change: migrated rows, with no history
          Requests,    \* the changes callers ask for
          MaxChanges   \* bound: no change is begun after so many history rows

VARIABLES world,       \* each id's committed row, or Nil
          changes,     \* entity_changes
          pc, req,     \* each session's place in apply_change, and its change
          plan,        \* what a session will flush: [writes, row]
          locks        \* each row's and each proposal's holder, or Nil

vars == <<world, changes, pc, req, plan, locks>>

Id   == Entities \cup Edges \cup Steps \cup Mentions \cup (Entities \X Key)
None == [op |-> "none"]

\* The columns of the tables.
Time   == Nat \cup {Nil}
Status == {"open", "won"}
Notes  == {Nil} \cup {r.arg.note : r \in {r \in Requests : r.op = "update_relationship"}}
Floor  == Visibility \cup {Nil}
EntityRow  == [name : Key, status : Status, stamp : Time, vis : Visibility, owner : User \cup {Nil},
               deleted : Time, merged : Entities \cup {Nil}]
EdgeRow    == [src : Entities, dst : Entities, note : Notes, ended : Time, vis : Visibility, floor : Floor]
StepRow    == [quest : Entities, done : BOOLEAN]
MentionRow == [entity : Entities, confirmed : BOOLEAN, floor : Floor]
AliasRow   == [floor : Floor]
FieldCols  == [name : Key] \cup [status : Status, stamp : Time] \cup [stamp : Time]
RowOf(x) == CASE x \in Entities -> EntityRow
              [] x \in Edges    -> EdgeRow
              [] x \in Steps    -> StepRow
              [] x \in Mentions -> MentionRow
              [] OTHER          -> AliasRow

\* The Entities a row's foreign keys name.
Refs(x, row) == {row[c] : c \in {"src", "dst", "quest", "entity"} \cap DOMAIN row}
                \cup {e \in Entities : x \in {e} \X Key}

\* What callers may ask for.
Asked(r) ==
    CASE r.op = "create"              -> r.id \in Entities \cup {Nil} /\ r.arg.name \in Key /\ r.arg.actor \in User
      [] r.op = "set"                 -> r.id \in Entities /\ r.arg \in [name : Key] \cup [status : Status] \cup [stamp : Time]
      [] r.op \in {"add_alias", "remove_alias"} -> r.id \in Entities /\ r.arg.key \in Key
      [] r.op = "add_relationship"    -> r.id \in Entities /\ r.arg.target \in Entities
      [] r.op = "update_relationship" -> r.id \in Edges /\ r.arg \in [note : Notes]
      [] r.op = "end_relationship"    -> r.id \in Edges
      [] r.op = "update_step"         -> r.id \in Steps /\ r.arg \in [done : BOOLEAN]
      [] r.op \in {"confirm_mention", "remove_mention"} -> r.id \in Mentions
      [] r.op \in {"add_step", "add_mention", "delete", "note"} -> r.id \in Entities
      [] r.op = "merge"               -> r.id \in Entities /\ r.arg.survivor \in Entities
      [] r.op = "set_visibility"      -> r.id \in Entities \cup Edges /\ r.arg \in [vis : Visibility]
      [] r.op = "revert"              -> r.id \in Nat /\ r.arg.force \in BOOLEAN
      [] OTHER                        -> FALSE

ASSUME CanonAssumption ==
    /\ Nil \notin Session \cup Proposal \cup Entities
    /\ Entities \cap (Edges \cup Steps \cup Mentions) = {}
    /\ Edges \cap (Steps \cup Mentions) = {} /\ Steps \cap Mentions = {}
    /\ (Entities \cup Edges \cup Steps \cup Mentions) \cap (Entities \X Key) = {}
    /\ Nil \notin FieldCols /\ \A x \in Id : Nil \notin RowOf(x)
    /\ DOMAIN Start = Id
    /\ \A x \in Id : Start[x] # Nil => Start[x] \in RowOf(x) /\ \A e \in Refs(x, Start[x]) : Start[e] # Nil
    /\ \A r \in Requests : r.proposal \in Proposal \cup {Nil} /\ Asked(r)
Only(row, columns) == [c \in columns |-> row[c]]
Over(f, g) == [c \in DOMAIN f \cup DOMAIN g |-> IF c \in DOMAIN f THEN f[c] ELSE g[c]]

Init == /\ world = Start
        /\ changes = << >>
        /\ pc = [s \in Session |-> "idle"]
        /\ req = [s \in Session |-> None]
        /\ plan = [s \in Session |-> None]
        /\ locks = [x \in Id \cup Proposal |-> Nil]

-----------------------------------------------------------------------------
(* What a change finds. *)

Now == Len(changes) + 1

Exists(x) == world[x] # Nil
Live(e)   == Exists(e) /\ world[e].deleted = Nil /\ world[e].merged = Nil

\* The Entities a row hangs on.
Hosts(x) == CASE x \in Edges    -> {world[x].src, world[x].dst}
               [] x \in Steps    -> {world[x].quest}
               [] x \in Mentions -> {world[x].entity}
               [] OTHER          -> {x}
Usable(x) == Exists(x) /\ \A e \in Hosts(x) : Live(e)

\* The Entity a row is filed under, and the one a request's history row is about.
Subject(x) == CASE x \in Edges    -> world[x].src
                [] x \in Steps    -> world[x].quest
                [] x \in Mentions -> world[x].entity
                [] OTHER          -> x
About(r) == IF r.op = "merge" THEN r.arg.survivor
            ELSE IF r.op = "revert" THEN changes[r.id].entity ELSE Subject(r.id)

\* A field's row holds the columns it sets; a Quest's status carries its stamp.
Fields == {{"name"}, {"status", "stamp"}, {"stamp"}}
IsFieldRow(c) == c.op \in {"set", "revert"} /\ c.on \in Entities /\ c.new # Nil /\ DOMAIN c.new \in Fields

\* The columns a row change recorded that a revert compares.
Recorded(x) == CASE x \in Edges    -> Only(world[x], {"dst", "note"})
                 [] x \in Steps    -> Only(world[x], {"done"})
                 [] x \in Mentions -> Only(world[x], {"confirmed"})

NotRevertible(c) == \/ c.op \in {"merge", "note", "set_visibility"}
                    \/ c.op = "revert" /\ ~IsFieldRow(c)

\* The targets' lookups, each of which raises.
Found(r) ==
    CASE r.op = "create"                       -> TRUE
      [] r.op = "add_relationship"             -> Live(r.id) /\ Live(r.arg.target)
      [] r.op = "merge"                        -> Live(r.id) /\ Live(r.arg.survivor)
      [] r.op = "set_visibility"               -> Exists(r.id) /\ (r.id \in Edges => Usable(r.id))
      [] r.op = "revert"                       ->
            LET c == changes[r.id] IN
            /\ ~NotRevertible(c)
            /\ world[c.entity].merged = Nil
            /\ c.op \in {"create", "delete"} \/ Live(c.entity)
            /\ c.op \in {"update_relationship", "end_relationship", "update_step", "confirm_mention"} => Usable(c.on)
      [] OTHER                                 -> Usable(r.id)

\* _repeat: the rows an earlier apply of the same proposal wrote for this change.
SamePayload(r, c) ==
    CASE r.op = "create"                             -> c.new.name = r.arg.name
      [] r.op = "set"                                -> \A f \in DOMAIN r.arg : f \in DOMAIN c.new /\ c.new[f] = r.arg[f]
      [] r.op \in {"add_alias", "remove_alias"}      -> c.on = <<r.id, r.arg.key>>
      [] r.op = "add_relationship"                   -> c.new.dst = r.arg.target
      [] r.op \in {"add_step", "note", "delete"}     -> TRUE
      [] r.op = "revert"                             -> c.reverts = r.id
      [] OTHER                                       -> c.on = r.id
FieldOf(r) == IF "status" \in DOMAIN r.arg THEN {"status", "stamp"} ELSE DOMAIN r.arg
Repeats(r) ==
    /\ r.proposal # Nil /\ r.op # "add_mention"
    /\ r.op = "create" => r.id = Nil
    /\ \E i \in DOMAIN changes :
          /\ changes[i].proposal = r.proposal /\ changes[i].op = r.op
          /\ r.op # "create" => changes[i].entity = About(r)
          /\ r.op = "set" => DOMAIN changes[i].new = FieldOf(r)
          /\ SamePayload(r, changes[i])

\* The checks after it: a state that already holds, or was touched since.
Unchanged(c) == /\ Exists(c.on)
                /\ IF c.op \in {"add_relationship", "add_step", "add_mention"}
                   THEN Recorded(c.on) = c.new /\ (c.on \in Edges => world[c.on].ended = Nil)
                   ELSE Only(world[c.on], DOMAIN c.new) = c.new
Fits(r) ==
    CASE r.op = "create"           -> r.id = Nil \/ ~Exists(r.id)
      [] r.op = "add_alias"        -> ~Exists(<<r.id, r.arg.key>>)
      [] r.op = "remove_alias"     -> Exists(<<r.id, r.arg.key>>)
      [] r.op = "add_relationship" -> r.id # r.arg.target
      [] r.op = "end_relationship" -> world[r.id].ended = Nil
      [] r.op = "add_mention"      -> \A m \in Mentions : Exists(m) => world[m].entity # r.id
      [] r.op = "confirm_mention"  -> ~world[r.id].confirmed
      [] r.op = "merge"            -> r.id # r.arg.survivor
      [] r.op = "revert"           ->
            LET c == changes[r.id] IN
            CASE c.op = "create"                           -> world[c.on].deleted = Nil
              [] c.op = "delete"                           -> world[c.on].deleted # Nil
              [] c.op \in {"remove_alias", "remove_mention"} -> ~Exists(c.on)
              [] c.op = "add_alias"                        -> Exists(c.on)
              [] c.op = "confirm_mention"                  -> world[c.on].confirmed
              [] OTHER                                     -> Exists(c.on) /\ (r.arg.force \/ Unchanged(c))
      [] OTHER                     -> TRUE

-----------------------------------------------------------------------------
(* What a change writes: for each row an INSERT, an UPDATE of the columns   *)
(* it sets, or a DELETE; and one history row.                               *)

Insert(row)  == [how |-> "insert", cols |-> row]
Update(cols) == [how |-> "update", cols |-> cols]
Delete       == [how |-> "delete", cols |-> << >>]

Row(r, entity, on, old, new) ==
    [op |-> r.op, entity |-> entity, on |-> on, old |-> old, new |-> new, proposal |-> r.proposal,
     reverts |-> IF r.op = "revert" THEN r.id ELSE Nil]

\* A uuid4: of no row, of no row there was, and of no other session's.
Unused(ids) == {x \in ids : /\ ~Exists(x)
                            /\ \A i \in DOMAIN changes : changes[i].on # x
                            /\ \A s \in Session : pc[s] = "flush" => x \notin DOMAIN plan[s].writes}
Fresh(ids) == CHOOSE x \in Unused(ids) : TRUE

\* Bound: no row is made when the ids of its kind are used up.
IdsLeft(r) == /\ r.op = "create" /\ r.id = Nil => Unused(Entities) # {}
              /\ r.op = "add_relationship" => Unused(Edges) # {}
              /\ r.op = "add_step" => Unused(Steps) # {}
              /\ r.op = "add_mention" => Unused(Mentions) # {}

\* An update of one row, its history row holding the columns before and after.
Change(r, x, cols) == [writes |-> [y \in {x} |-> Update(cols)],
                       row    |-> Row(r, About(r), x, Only(world[x], DOMAIN cols), cols)]
Addition(r, x, row, shown) == [writes |-> [y \in {x} |-> Insert(row)], row |-> Row(r, About(r), x, Nil, shown)]
Removal(r, x)              == [writes |-> [y \in {x} |-> Delete], row |-> Row(r, About(r), x, world[x], Nil)]

\* _quest_stamp: into closed_success stamps, kept when already completed; out of it clears.
Stamped(e, status) == IF status # "won" THEN Nil
                      ELSE IF world[e].status = "won" /\ world[e].stamp # Nil THEN world[e].stamp
                      ELSE Now

Created(r) ==
    LET e == IF r.id = Nil THEN Fresh(Entities) ELSE r.id
        row == [name |-> r.arg.name, status |-> "open", stamp |-> Nil, vis |-> "gm", owner |-> r.arg.actor,
                deleted |-> Nil, merged |-> Nil]
    IN  [writes |-> [x \in {e} |-> Insert(row)], row |-> Row(r, e, e, Nil, Only(row, {"name", "status", "stamp"}))]

\* The floor a merge puts on a row of an absorbed Entity that is not party; an
\* existing restrictive one is kept.
Unfloored(vis, floor) == floor  \* mutant: a merge that sets no floor
Floored(vis, floor) == IF vis # "party" /\ floor \in {Nil, "party"} THEN vis ELSE floor

Merged(r) ==
    LET a == r.id
        s == r.arg.survivor
        vis == world[a].vis
        end(e) == IF e = a THEN s ELSE e
        has(k) == Exists(<<s, k>>)
        aliases == {k \in Key : Exists(<<a, k>>)}
        named == {world[a].name} \ ({world[s].name} \cup aliases \cup {k \in Key : has(k)})
        edges == {x \in Edges : Exists(x) /\ a \in {world[x].src, world[x].dst}}
        loops == {x \in edges : end(world[x].src) = end(world[x].dst)}
        mentions == {m \in Mentions : Exists(m) /\ world[m].entity = a}
        steps == {x \in Steps : Exists(x) /\ world[x].quest = a /\ (vis = "party" \/ world[s].vis # "party")}
        raised(x) == IF Floored(vis, world[x].floor) = world[x].floor THEN << >>
                     ELSE [floor |-> Floored(vis, world[x].floor)]
        repoint(x) == Over([c \in {c \in {"src", "dst"} : world[x][c] = a} |-> s], raised(x))
        gone  == {<<a, k>> : k \in aliases} \cup loops
        moved == {<<s, k>> : k \in {k \in aliases : ~has(k)}}
        write(x) == CASE x \in gone          -> Delete
                      [] x \in moved         -> Insert([floor |-> Floored(vis, world[<<a, x[2]>>].floor)])
                      [] x \in edges \ loops -> Update(repoint(x))
                      [] x \in mentions      -> Update(Over([entity |-> s], raised(x)))
                      [] x \in steps         -> Update([quest |-> s])
                      [] x = a               -> Update([merged |-> s])
                      [] OTHER               -> Insert([floor |-> Floored(vis, Nil)])
    IN  [writes |-> [x \in gone \cup moved \cup {<<s, k>> : k \in named} \cup edges \cup mentions \cup steps \cup {a}
                     |-> write(x)],
         row    |-> Row(r, s, a, Nil, [absorbed |-> a])]

\* revert: the inverse of one history row.
Reverted(r) ==
    LET c == changes[r.id] IN
    CASE c.op = "create"          -> Change(r, c.on, [deleted |-> Now])
      [] c.op = "confirm_mention" -> Change(r, c.on, [confirmed |-> FALSE])
      [] c.op \in {"add_alias", "add_relationship", "add_step", "add_mention"} -> Removal(r, c.on)
      [] c.op = "remove_alias"    -> Addition(r, c.on, c.old, c.old)
      [] c.op = "remove_mention"  -> Addition(r, c.on, [c.old EXCEPT !.entity = c.entity], c.old)
      [] OTHER                    -> Change(r, c.on, c.old)

Effect(r) ==
    CASE r.op = "create"       -> Created(r)
      [] r.op = "set"          -> Change(r, r.id, IF "status" \in DOMAIN r.arg
                                                  THEN [status |-> r.arg.status, stamp |-> Stamped(r.id, r.arg.status)] ELSE r.arg)
      [] r.op = "add_alias"    -> Addition(r, <<r.id, r.arg.key>>, [floor |-> Nil], [floor |-> Nil])
      [] r.op = "remove_alias" -> Removal(r, <<r.id, r.arg.key>>)
      [] r.op = "add_relationship" ->
            Addition(r, Fresh(Edges), [src |-> r.id, dst |-> r.arg.target, note |-> Nil, ended |-> Nil,
                                       vis |-> "gm", floor |-> Nil], [dst |-> r.arg.target, note |-> Nil])
      [] r.op = "end_relationship" -> Change(r, r.id, [ended |-> Now])
      [] r.op = "add_step"     -> Addition(r, Fresh(Steps), [quest |-> r.id, done |-> FALSE], [done |-> FALSE])
      [] r.op = "add_mention"  -> Addition(r, Fresh(Mentions), [entity |-> r.id, confirmed |-> FALSE, floor |-> Nil],
                                           [confirmed |-> FALSE])
      [] r.op = "confirm_mention" -> Change(r, r.id, [confirmed |-> TRUE])
      [] r.op = "remove_mention"  -> Removal(r, r.id)
      [] r.op = "delete"       -> Change(r, r.id, [deleted |-> Now])
      [] r.op = "merge"        -> Merged(r)
      [] r.op = "note"         -> [writes |-> << >>, row |-> Row(r, r.id, r.id, Nil, Nil)]
      [] r.op = "revert"       -> Reverted(r)
      [] OTHER                 -> Change(r, r.id, r.arg)  \* update_relationship, update_step, set_visibility

-----------------------------------------------------------------------------
(* The transaction of one change. *)

\* What a change locks before it reads, in order: the proposal, then each row
\* it looks up and the Entities of that row.
RowLocks(x) == IF ~Exists(x) THEN << >>
               ELSE CASE x \in Edges    -> <<x, world[x].src, world[x].dst>>
                      [] x \in Steps    -> <<x, world[x].quest>>
                      [] x \in Mentions -> <<x, world[x].entity>>
                      [] OTHER          -> <<x>>
ProposalLock(r) == IF r.proposal = Nil THEN << >> ELSE <<r.proposal>>  \* mutant of LockOrder: no FOR UPDATE
LookupLocks(r) ==  \* mutant of LockOrder: no advisory lock
    CASE r.op = "create"           -> << >>
      [] r.op = "add_relationship" -> RowLocks(r.id) \o RowLocks(r.arg.target)
      [] r.op = "merge"            -> RowLocks(r.id) \o RowLocks(r.arg.survivor)
      [] r.op = "revert"           ->
            LET c == changes[r.id] IN
            RowLocks(c.entity) \o
            (IF c.op \in {"update_relationship", "end_relationship", "update_step", "confirm_mention"}
             THEN RowLocks(c.on) ELSE << >>)
      [] OTHER                     -> RowLocks(r.id)
SurvivorOpen(r) == ProposalLock(r) \o (IF r.op = "merge" THEN RowLocks(r.id) ELSE LookupLocks(r))  \* mutant
LockOrder(r) == ProposalLock(r) \o LookupLocks(r)

\* The places in that order of the locks the session still lacks.
Wanted(s) == {i \in DOMAIN LockOrder(req[s]) : locks[LockOrder(req[s])[i]] # s}

Ends(s, keep) ==
          /\ pc' = [pc EXCEPT ![s] = "idle"]
          /\ req' = [req EXCEPT ![s] = None]
          /\ plan' = [plan EXCEPT ![s] = None]
          /\ locks' = [x \in DOMAIN locks |-> IF locks[x] = s /\ x \notin keep THEN Nil ELSE locks[x]]
EndSession(s) == Ends(s, Proposal)  \* mutant: a session's advisory lock in place of the transaction's
End(s) == Ends(s, {})

Begin(s, r) == /\ pc[s] = "idle" /\ Len(changes) < MaxChanges
               /\ r.op = "revert" => r.id \in DOMAIN changes
               /\ pc' = [pc EXCEPT ![s] = "lock"]
               /\ req' = [req EXCEPT ![s] = r]
               /\ UNCHANGED <<world, changes, plan, locks>>

Lock(s) == /\ pc[s] = "lock"
           /\ \E i \in Wanted(s) : LET x == LockOrder(req[s])[i] IN
                 /\ \A j \in Wanted(s) : i <= j
                 /\ locks[x] = Nil
                 /\ locks' = [locks EXCEPT ![x] = s]
           /\ UNCHANGED <<world, changes, pc, req, plan>>

Applies(r) == Found(r) /\ ~Repeats(r) /\ Fits(r)

\* The handler: an error or a repeat writes nothing.
Apply(s) == /\ pc[s] = "lock" /\ Wanted(s) = {}
            /\ IF Applies(req[s])
               THEN /\ IdsLeft(req[s])
                    /\ plan' = [plan EXCEPT ![s] = Effect(req[s])]
                    /\ pc' = [pc EXCEPT ![s] = "flush"]
                    /\ UNCHANGED <<req, locks>>
               ELSE End(s)
            /\ UNCHANGED <<world, changes>>

\* A written row another session holds is waited for.
FlushRow(s) == /\ pc[s] = "flush"
               /\ \E x \in DOMAIN plan[s].writes : locks[x] = Nil /\ locks' = [locks EXCEPT ![x] = s]
               /\ UNCHANGED <<world, changes, pc, req, plan>>

After(writes) ==
    [x \in Id |-> IF x \notin DOMAIN writes THEN world[x]
                  ELSE CASE writes[x].how = "insert" -> writes[x].cols
                         [] writes[x].how = "update" -> Over(writes[x].cols, world[x])
                         [] writes[x].how = "delete" -> Nil]

\* An INSERT of a row that is there is an IntegrityError, an UPDATE of one that
\* is gone a StaleDataError.
Conflicts(writes) == \E x \in DOMAIN writes : \/ writes[x].how = "insert" /\ Exists(x)
                                              \/ writes[x].how = "update" /\ ~Exists(x)

Commit(s) == /\ pc[s] = "flush"
             /\ \A x \in DOMAIN plan[s].writes : locks[x] = s
             /\ IF Conflicts(plan[s].writes)
                THEN UNCHANGED <<world, changes>>
                ELSE /\ world' = After(plan[s].writes)
                     /\ changes' = Append(changes, plan[s].row)
             /\ End(s)

\* The caller rolls back, or PostgreSQL ends a deadlock.
RollBack(s) == pc[s] # "idle" /\ End(s) /\ UNCHANGED <<world, changes>>

Next == \E s \in Session :
            \/ \E r \in Requests : Begin(s, r)
            \/ Lock(s) \/ Apply(s) \/ FlushRow(s) \/ Commit(s) \/ RollBack(s)

Spec == Init /\ [][Next]_vars

-----------------------------------------------------------------------------
(* What it promises. *)

\* What a change of a row may set.
GmFloor     == Visibility \ {"party"}
EntitySets  == FieldCols \cup [vis : Visibility] \cup [deleted : Time] \cup [merged : Entities]
EdgeSets    == [note : Notes] \cup [ended : Time] \cup [vis : Visibility]
EdgeMoves   == [src : Entities] \cup [dst : Entities]
               \cup [src : Entities, floor : GmFloor] \cup [dst : Entities, floor : GmFloor]
StepSets    == [done : BOOLEAN] \cup [quest : Entities]
MentionSets == [confirmed : BOOLEAN] \cup [entity : Entities] \cup [entity : Entities, floor : GmFloor]
SetsOf(x) == CASE x \in Entities -> EntitySets
               [] x \in Edges    -> EdgeSets \cup EdgeMoves
               [] x \in Steps    -> StepSets
               [] x \in Mentions -> MentionSets
               [] OTHER          -> {}

\* A history row is about the row it names, and holds what its op changes there.
Both(c, S) == c.old \in S /\ c.new \in S
HistoryRow(c) ==
    /\ c.entity \in Entities
    /\ CASE c.op = "create"              -> c.on = c.entity /\ c.new \in [name : Key, status : Status, stamp : Time]
         [] c.op = "set"                 -> c.on = c.entity /\ Both(c, FieldCols) /\ DOMAIN c.old = DOMAIN c.new
         [] c.op = "delete"              -> c.on = c.entity /\ Both(c, [deleted : Time])
         [] c.op = "note"                -> c.on = c.entity /\ c.new = Nil
         [] c.op = "merge"               -> c.on \in Entities \ {c.entity} /\ c.new = [absorbed |-> c.on]
         [] c.op = "add_alias"           -> c.on \in {c.entity} \X Key /\ c.new \in AliasRow
         [] c.op = "remove_alias"        -> c.on \in {c.entity} \X Key /\ c.old \in AliasRow
         [] c.op = "add_relationship"    -> c.on \in Edges /\ c.new \in [dst : Entities, note : Notes]
         [] c.op = "update_relationship" -> c.on \in Edges /\ Both(c, [note : Notes])
         [] c.op = "end_relationship"    -> c.on \in Edges /\ Both(c, [ended : Time])
         [] c.op = "add_step"            -> c.on \in Steps /\ c.new \in [done : BOOLEAN]
         [] c.op = "update_step"         -> c.on \in Steps /\ Both(c, [done : BOOLEAN])
         [] c.op = "add_mention"         -> c.on \in Mentions /\ c.new \in [confirmed : BOOLEAN]
         [] c.op = "confirm_mention"     -> c.on \in Mentions /\ c.old = [confirmed |-> FALSE] /\ c.new = [confirmed |-> TRUE]
         [] c.op = "remove_mention"      -> c.on \in Mentions /\ c.old \in MentionRow
         [] c.op = "set_visibility"      -> c.on \in Entities \cup Edges /\ Both(c, [vis : Visibility])
         [] c.op = "revert"              -> /\ c.on \in Id
                                            /\ c.on \in Entities => /\ c.on = c.entity /\ DOMAIN c.old = DOMAIN c.new
                                                                    /\ Both(c, FieldCols \cup [deleted : Time])
         [] OTHER                        -> FALSE

\* A write makes a row of its table out of a row of its table, whose foreign
\* keys name Entities there are; no Entity's row is ever deleted.
WriteOK(x, w) == \/ w.how = "insert" /\ w.cols \in RowOf(x) /\ \A e \in Refs(x, w.cols) : Exists(e)
                 \/ w.how = "update" /\ w.cols \in SetsOf(x) /\ \A e \in Refs(x, w.cols) : Exists(e)
                 \/ w.how = "delete" /\ x \notin Entities
PlanOK(p) == /\ HistoryRow(p.row)
             /\ DOMAIN p.writes \subseteq Id /\ \A x \in DOMAIN p.writes : WriteOK(x, p.writes[x])
             /\ p.row.op = "note" \/ p.row.on \in DOMAIN p.writes
             /\ Exists(p.row.entity) \/ p.row.entity \in DOMAIN p.writes

WorldOK   == DOMAIN world = Id /\ \A x \in Id : Exists(x) => world[x] \in RowOf(x) /\ \A e \in Refs(x, world[x]) : Exists(e)
HistoryOK == \A i \in DOMAIN changes : HistoryRow(changes[i]) /\ Exists(changes[i].entity)
PlansOK   == \A s \in Session : pc[s] = "flush" => PlanOK(plan[s])
ShapesOK  ==
    /\ changes \in Seq({changes[i] : i \in DOMAIN changes})
    /\ pc \in [Session -> {"idle", "lock", "flush"}]
    /\ \A s \in Session : pc[s] # "idle" => req[s] \in Requests
    /\ req = [s \in Session |-> req[s]] /\ plan = [s \in Session |-> plan[s]]
    /\ locks \in [Id \cup Proposal -> Session \cup {Nil}]
    /\ \A s \in Session : pc[s] = "idle" => \A x \in Id \cup Proposal : locks[x] # s

AskedOK   == \A s \in Session : pc[s] # "idle" /\ req[s].op = "revert" => req[s].id \in DOMAIN changes

\* The tables hold rows of their columns, whose foreign keys name rows; so does
\* the history, which names the rows it is about; so will what sessions flush;
\* and a session holds locks only within its transaction.
TypeOK == ShapesOK /\ AskedOK /\ WorldOK /\ HistoryOK /\ PlansOK

\* The history tells an Entity's fields (entity_changes is what a revert and a
\* reader go by): every row's old value is what the row before it of the same
\* field made, or the Entity's first value, and the last is what the table
\* holds, however sessions, merges and reverts interleave.
Tracked == {"name", "status", "stamp"}
Says(i, e, f) == /\ changes[i].entity = e /\ changes[i].on = e
                 /\ changes[i].op = "create" \/ IsFieldRow(changes[i])
                 /\ f \in DOMAIN changes[i].new
Told(i, e, f, v) ==
    \/ Start[e] # Nil /\ v = Start[e][f] /\ \A j \in DOMAIN changes : j < i => ~Says(j, e, f)
    \/ \E j \in DOMAIN changes : /\ j < i /\ Says(j, e, f) /\ v = changes[j].new[f]
                                 /\ \A k \in DOMAIN changes : j < k /\ k < i => ~Says(k, e, f)
HistoryReplays ==
    \A e \in Entities, f \in Tracked : Exists(e) =>
        /\ Told(Len(changes) + 1, e, f, world[e][f])
        /\ \A i \in DOMAIN changes : Says(i, e, f) /\ IsFieldRow(changes[i]) => Told(i, e, f, changes[i].old[f])

\* A proposal's change is applied once: no two history rows are of one proposal,
\* op, Entity, field and payload, also when two sessions apply it at once.
\* (add_mention knows its repeats by the Mention, and a create that chooses its
\* id by that id, not by the proposal.)
Payload(c) == CASE c.op = "create" -> c.new.name
                [] c.op = "add_relationship" -> c.new.dst
                [] c.op \in {"add_step", "note", "delete"} -> c.op
                [] c.op = "set" -> c.new
                [] c.op = "revert" -> c.reverts
                [] OTHER -> c.on
ChoosesId(p) == \E r \in Requests : r.op = "create" /\ r.proposal = p /\ r.id # Nil
SameChange(a, b) ==
    /\ a.proposal # Nil /\ a.proposal = b.proposal
    /\ a.op # "add_mention" /\ a.op = b.op
    /\ IF a.op = "create" THEN ~ChoosesId(a.proposal) ELSE a.entity = b.entity
    /\ Payload(a) = Payload(b)
AppliedOnce ==
    \A i, j \in DOMAIN changes : i < j => ~SameChange(changes[i], changes[j])

\* The Audience of a row: of its Entity, narrowed by its floor.
EntityAud(w, e) == RowAudience(w[e].vis, w[e].owner, Nil, w[e].deleted # Nil \/ w[e].merged # Nil)
RowAud(w, x) ==
    CASE x \in Edges    -> EdgeAudience(w[x].vis, w[x].floor, EntityAud(w, w[x].src), EntityAud(w, w[x].dst))
      [] x \in Steps    -> EntityAud(w, w[x].quest)
      [] x \in Mentions -> DerivedAudience(EntityAud(w, w[x].entity), w[x].floor)
      [] x \in Entities -> EntityAud(w, x)
      [] OTHER          -> DerivedAudience(EntityAud(w, x[1]), w[x].floor)

MergeOf(s) == pc[s] = "flush" /\ plan[s].row.op = "merge" /\ Len(changes') > Len(changes) /\ pc'[s] = "idle"

\* A merge shows nobody what they could not read: each edge, Mention and alias
\* of the survivor was readable before by every viewer who reads it after, the
\* alias perhaps as one of the absorbed Entity or as its name.
MergeNeverWidens ==
    [][\A s \in Session : MergeOf(s) =>
        LET a == plan[s].row.on
            e == plan[s].row.entity
            before(x, viewer) == Exists(x) /\ Covers(RowAud(world, x), viewer)
        IN  \A viewer \in Audience, x \in Id :
                x \notin Steps /\ world'[x] # Nil /\ Covers(RowAud(world', x), viewer) =>
                    \/ before(x, viewer)
                    \/ /\ x \in Entities \X Key /\ x[1] = e
                       /\ before(<<a, x[2]>>, viewer) \/ (world[a].name = x[2] /\ before(a, viewer))]_vars

\* An unforced revert undoes what it says it undoes: the row still held what the
\* reverted change made of it, and holds after it what it held before that
\* change, although other sessions wrote since it was asked for.  This is said of
\* the edits, of the two removals and of add_step and add_mention.  Not of
\* add_relationship (RevertSeesItsEdge says why), nor of create, delete and
\* add_alias, whose reverts compare no recorded columns.
Undoes(s) ==
    /\ pc[s] = "flush" /\ plan[s].row.op = "revert" /\ Len(changes') > Len(changes) /\ pc'[s] = "idle"
    /\ ~req[s].arg.force
RevertRestores ==
    [][\A s \in Session : Undoes(s) =>
        LET c == changes[req[s].id] IN
        CASE c.op \in {"set", "revert", "update_relationship", "end_relationship", "update_step", "confirm_mention"} ->
                Only(world[c.on], DOMAIN c.new) = c.new /\ Only(world'[c.on], DOMAIN c.old) = c.old
          [] c.op \in {"remove_alias", "remove_mention"} -> world[c.on] = Nil /\ world'[c.on] # Nil /\ world'[c.on].floor = c.old.floor
          [] c.op \in {"add_step", "add_mention"} -> Recorded(c.on) = c.new /\ world'[c.on] = Nil
          [] OTHER -> TRUE]_vars

\* A reverted add_relationship removes the edge it added, not what a merge made
\* of it: apply_change calls a row change whose row changed superseded.
RevertSeesItsEdge ==
    [][\A s \in Session : Undoes(s) /\ changes[req[s].id].op = "add_relationship" =>
            Recorded(changes[req[s].id].on) = changes[req[s].id].new]_vars

\* However sessions interleave, a reader of the tables and of the history sees one
\* change at a time: each commit does at once what its history row tells, to the
\* rows as they are then, and nothing else.
Serial == INSTANCE CanonHistory
HistorySpec == Serial!Spec
-----------------------------------------------------------------------------
(* Inductive invariants, for the proofs. *)

Flushing(s) == pc[s] = "flush"

\* HistoryReplays, and why: a change of a field holds its Entity's row from
\* reading the old value to its commit, and nothing else writes a tracked column.
FieldsBy(s, p) ==
    \A x \in Entities \cap DOMAIN p.writes :
        LET w == p.writes[x]
            c == p.row
        IN  \/ w.how = "insert" /\ c.op = "create" /\ c.on = x /\ c.new = Only(w.cols, Tracked)
            \/ /\ w.how = "update" /\ IsFieldRow(c) /\ c.on = x /\ w.cols = c.new
               /\ locks[x] = s /\ Exists(x) /\ c.old = Only(world[x], DOMAIN c.new)
            \/ /\ w.how = "update" /\ c.op # "create" /\ ~IsFieldRow(c) /\ DOMAIN w.cols \cap Tracked = {}
               /\ locks[x] = s /\ Exists(x)
FieldsHeld  == \A s \in Session : Flushing(s) => FieldsBy(s, plan[s])
ReplayInv == TypeOK /\ FieldsHeld /\ HistoryReplays

\* A change holds the Entity whose aliases, steps or Mentions it writes, and only
\* a merge of that Entity moves them, but for a new row, ...
HomesBy(s, p) ==
    \A x \in DOMAIN p.writes :
        LET w == p.writes IN
        /\ x \in Steps \cup Mentions /\ w[x].how # "insert" =>
              /\ Exists(x) /\ locks[Subject(x)] = s
              /\ w[x].how = "update" /\ DOMAIN w[x].cols \cap {"quest", "entity"} # {} =>
                    Subject(x) \in DOMAIN w /\ w[Subject(x)].how = "update" /\ "merged" \in DOMAIN w[Subject(x)].cols
        /\ \A e \in Entities : x \in {e} \X Key => locks[e] = s
HomesHeld == \A s \in Session : Flushing(s) => HomesBy(s, plan[s])

\* ... which is of no one else's change nor of an earlier one; ...
Additions == {"add_relationship", "add_step", "add_mention"}
NewBy(s, p) ==
    p.row.op \in Additions =>
        LET x == p.row.on IN
        /\ ~Exists(x) /\ \A i \in DOMAIN changes : changes[i].on # x
        /\ \A t \in Session \ {s} : Flushing(t) => x \notin DOMAIN plan[t].writes
        /\ p.writes[x].how = "insert"
        /\ p.row.op = "add_step" => p.writes[x].cols.quest = p.row.entity
        /\ p.row.op = "add_mention" => p.writes[x].cols.entity = p.row.entity
NewIsNew == \A s \in Session : Flushing(s) => NewBy(s, plan[s])
InsertsBy(p) ==
    \A x \in DOMAIN p.writes :
        /\ x \in Edges \cup Steps /\ p.writes[x].how = "insert" => p.row.op \in Additions /\ p.row.on = x
        /\ x \in Mentions /\ p.writes[x].how = "insert" =>
              /\ p.row.on = x
              /\ \/ p.row.op = "add_mention"
                 \/ p.row.op = "revert" /\ \E i \in DOMAIN changes :
                        /\ changes[i].op = "remove_mention" /\ changes[i].on = x
                        /\ p.writes[x].cols.entity = changes[i].entity
OnlyAdditionsInsert == \A s \in Session : Flushing(s) => InsertsBy(plan[s])

\* ... and where a step or a Mention was added it still is, or that Entity was
\* merged into another.
Stays(e, f) == e = f \/ world[e].merged # Nil
HomesKept ==
    \A i \in DOMAIN changes : changes[i].op \in {"add_step", "add_mention"} =>
        LET x == changes[i].on
            e == changes[i].entity
        IN  /\ Exists(x) => Stays(e, Subject(x))
            /\ \A j \in DOMAIN changes : changes[j].op = "remove_mention" /\ changes[j].on = x => Stays(e, changes[j].entity)
            /\ \A s \in Session : Flushing(s) /\ plan[s].row.op = "remove_mention" /\ plan[s].row.on = x =>
                    Stays(e, plan[s].row.entity)
HomesInv == TypeOK /\ HomesHeld /\ NewIsNew /\ OnlyAdditionsInsert /\ HomesKept

\* RevertRestores: an unforced revert holds what the row it found is kept by.
RevertsBy(s, p) ==
    p.row.op = "revert" =>
        LET c == changes[req[s].id]
            w == p.writes
        IN  /\ req[s].id \in DOMAIN changes
            /\ CASE c.op \in {"set", "revert", "update_relationship", "end_relationship", "update_step", "confirm_mention"} ->
                      /\ DOMAIN w = {c.on} /\ w[c.on] = Update(c.old)
                      /\ locks[c.on] = s
                      /\ Exists(c.on) /\ (~req[s].arg.force => Only(world[c.on], DOMAIN c.new) = c.new)
                 [] c.op \in {"remove_alias", "remove_mention"} ->
                      DOMAIN w = {c.on} /\ w[c.on].how = "insert" /\ w[c.on].cols.floor = c.old.floor
                 [] c.op \in {"add_step", "add_mention"} ->
                      DOMAIN w = {c.on} /\ w[c.on] = Delete /\ (~req[s].arg.force => Recorded(c.on) = c.new)
                 [] OTHER -> TRUE
RevertsHeld == \A s \in Session : Flushing(s) => RevertsBy(s, plan[s])
RevertInv == HomesInv /\ RevertsHeld

\* MergeNeverWidens: a merge holds the two Entities; every row it moves is still
\* on the absorbed one, and gets a floor, or has one that nobody lifts, unless
\* the absorbed Entity is party.
FloorSet(vis, floor, cols) == IF vis = "party" THEN "floor" \notin DOMAIN cols
                              ELSE "floor" \in DOMAIN cols \/ floor \in GmFloor
MergesBy(s, p) ==
    LET a == p.row.on
        e == p.row.entity
        w == p.writes
    IN
    IF p.row.op # "merge" THEN \A x \in Edges \cap DOMAIN w : w[x].how = "update" => w[x].cols \in EdgeSets
    ELSE
    /\ locks[a] = s /\ locks[e] = s /\ Live(a) /\ Live(e)
    /\ \A x \in DOMAIN w :
          /\ x \in Entities => x = a /\ w[x] = Update([merged |-> e])
          /\ x \in Edges /\ w[x].how # "delete" =>
                /\ w[x].how = "update" /\ w[x].cols \in EdgeMoves
                /\ \A c \in DOMAIN w[x].cols \ {"floor"} : w[x].cols[c] = e /\ (Exists(x) => world[x][c] = a)
                /\ Exists(x) => FloorSet(world[a].vis, world[x].floor, w[x].cols)
          /\ x \in Mentions =>
                /\ w[x].how = "update" /\ world[x].entity = a /\ w[x].cols.entity = e
                /\ w[x].cols \notin [confirmed : BOOLEAN]
                /\ FloorSet(world[a].vis, world[x].floor, w[x].cols)
          /\ \A k \in Key, q \in Entities : x = <<q, k>> /\ w[x].how # "delete" =>
                /\ w[x].how = "insert" /\ q = e
                /\ \/ Exists(<<a, k>>) /\ w[x].cols.floor = Floored(world[a].vis, world[<<a, k>>].floor)
                   \/ world[a].name = k /\ w[x].cols.floor = Floored(world[a].vis, Nil)
MergesHeld == \A s \in Session : Flushing(s) => MergesBy(s, plan[s])
MergeInv == HomesInv /\ MergesHeld

\* HistorySpec: what a change of one row writes is what its history row tells, of
\* a row it holds; a merge writes all that hangs on the Entity it absorbs, and no
\* one else can hang a row there, for that takes a lock on it; ...
AbsorbsBy(p) ==
    LET a == p.row.on
        e == p.row.entity
        w == p.writes
        ends(x) == {world[x].src, world[x].dst}
    IN
    /\ w[a] = Update([merged |-> e])
    /\ \A x \in Edges : Exists(x) =>
          /\ x \in DOMAIN w <=> a \in ends(x)
          /\ a \in ends(x) => IF ends(x) \subseteq {a, e} THEN w[x] = Delete
                              ELSE w[x].how = "update" /\ DOMAIN w[x].cols \ {"floor"} = {c \in {"src", "dst"} : world[x][c] = a}
    /\ \A x \in Mentions : x \in DOMAIN w <=> Exists(x) /\ world[x].entity = a
    /\ \A x \in Steps :
          /\ x \in DOMAIN w <=> Exists(x) /\ world[x].quest = a /\ Serial!MoveStep(x, a, e)
          /\ x \in DOMAIN w => w[x] = Update([quest |-> e])
    /\ \A f \in Entities, k \in Key :
          /\ f = a => (<<f, k>> \in DOMAIN w <=> Exists(<<f, k>>)) /\ (<<f, k>> \in DOMAIN w => w[<<f, k>>] = Delete)
          /\ f = e => /\ <<f, k>> \in DOMAIN w <=> ~Exists(<<e, k>>) /\ Serial!Named(a, k)
                                                  /\ (Exists(<<a, k>>) \/ world[e].name # k)
                      /\ <<f, k>> \in DOMAIN w => w[<<f, k>>].how = "insert"
          /\ f \notin {a, e} => <<f, k>> \notin DOMAIN w
TellsBy(s, p) ==
    LET c == p.row
        x == c.on
        w == p.writes
    IN  CASE c.op = "note"  -> DOMAIN w = {}
          [] c.op = "merge" -> AbsorbsBy(p)
          [] OTHER ->
                /\ DOMAIN w = {x}
                /\ \/ /\ w[x] = Update(c.new) /\ DOMAIN c.new \cap Serial!Homes = {}
                      /\ locks[x] = s /\ c.old = Only(world[x], DOMAIN c.new)
                   \/ w[x].how = "insert" /\ c.old = Nil /\ c.new = Only(w[x].cols, DOMAIN c.new)
                   \/ w[x] = Delete /\ c.new = Nil /\ (x \notin Edges => c.old = world[x])
ReachesBy(s, p) == \A x \in (Edges \cup Steps \cup Mentions) \cap DOMAIN p.writes :
                      p.writes[x].how # "delete" => \A e \in Refs(x, p.writes[x].cols) : locks[e] = s
TellsHeld == \A s \in Session : Flushing(s) => TellsBy(s, plan[s]) /\ ReachesBy(s, plan[s])

\* ... and a removed Mention comes back to the Entity it was removed from.
KeepsHome(c) == c.op = "remove_mention" => c.old.entity = c.entity
HomesTold == /\ \A i \in DOMAIN changes : KeepsHome(changes[i])
             /\ \A s \in Session : Flushing(s) => KeepsHome(plan[s].row)
TellsInv == MergeInv /\ TellsHeld /\ HomesTold

\* What a session is about to write for a proposal it holds the lock of, and
\* nobody wrote before.
ProposalsHeld ==
    \A s \in Session : pc[s] = "flush" /\ plan[s].row.proposal # Nil =>
        plan[s].row.proposal \in Proposal /\ locks[plan[s].row.proposal] = s
NotYetApplied ==
    \A s \in Session : pc[s] = "flush" => \A i \in DOMAIN changes : ~SameChange(changes[i], plan[s].row)

\* AppliedOnce, and why: from its look at the history to its commit a change
\* holds the lock that every other change of its proposal waits for.
AppliedInv == ShapesOK /\ ProposalsHeld /\ NotYetApplied /\ AppliedOnce
=============================================================================
