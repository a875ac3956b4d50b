---------------------------- MODULE CanonHistory ----------------------------
(***************************************************************************)
(* What services/world_service.py promises of the Canon, without sessions, *)
(* locks or flushes: changes happen one after another and at once, each    *)
(* appends exactly one history row, and the tables change by what that row *)
(* tells and by nothing else.                                              *)
(***************************************************************************)
EXTENDS Naturals, Sequences

CONSTANTS Nil, Id, Entities, Edges, Steps, Mentions, Key, Start

VARIABLES world, changes

\* The columns that say where a row hangs and who may read it: a merge's alone.
Homes == {"src", "dst", "quest", "entity", "floor", "merged"}

Only(row, columns) == [c \in columns |-> row[c]]
With(row, columns) == [c \in DOMAIN row |-> IF c \in DOMAIN columns THEN columns[c] ELSE row[c]]

Exists(x)   == world[x] # Nil
OthersStay(x) == \A y \in Id \ {x} : world'[y] = world[y]

\* A row's columns held what the history row says they did, and then what it
\* says they do.
Edit(c) ==
    /\ Exists(c.on) /\ world'[c.on] # Nil
    /\ DOMAIN c.new \cap Homes = {}
    /\ c.old = Only(world[c.on], DOMAIN c.new)
    /\ world'[c.on] = With(world[c.on], c.new)
    /\ OthersStay(c.on)

\* A row that was not there is, and shows what the history row says.
Add(c) ==
    /\ ~Exists(c.on) /\ world'[c.on] # Nil
    /\ c.old = Nil /\ c.new = Only(world'[c.on], DOMAIN c.new)
    /\ OthersStay(c.on)

\* A row is gone, and was what the history row keeps; but an edge taken back may
\* have been changed, or taken, by a merge of its other end.
Remove(c) ==
    /\ c.on \notin Entities /\ world'[c.on] = Nil
    /\ c.new = Nil /\ (c.on \in Edges \/ c.old = world[c.on])
    /\ OthersStay(c.on)

\* An Entity is absorbed: each of its edges and Mentions is the survivor's, but
\* for its floor as it was; an edge between the two is dropped; its aliases and
\* its name are the survivor's; its steps are moved where that cannot widen
\* them; and nothing that did not hang on it changes.
Ends(x) == {world[x].src, world[x].dst}
Renamed(row, a, e) == [c \in DOMAIN row \ {"floor"} |-> IF c \in Homes /\ row[c] = a THEN e ELSE row[c]]
Moves(x, a, e) == world'[x] # Nil /\ Only(world'[x], DOMAIN world'[x] \ {"floor"}) = Renamed(world[x], a, e)
Keeps(x) == world'[x] = world[x]
MoveStep(x, a, e) == world[a].vis = "party" \/ world[e].vis # "party"
Named(x, key) == world[x].name = key \/ Exists(<<x, key>>)

Merge(c) ==
    LET a == c.on
        e == c.entity
    IN
    /\ a # e /\ \A f \in {a, e} : Exists(f) /\ world[f].deleted = Nil /\ world[f].merged = Nil
    /\ world'[a] = [world[a] EXCEPT !.merged = e]
    /\ \A f \in Entities \ {a} : Keeps(f)
    /\ \A x \in Edges :
          IF ~Exists(x) \/ a \notin Ends(x) THEN Keeps(x)
          ELSE IF Ends(x) \subseteq {a, e} THEN world'[x] = Nil
          ELSE Moves(x, a, e)
    /\ \A x \in Mentions : IF ~Exists(x) \/ world[x].entity # a THEN Keeps(x) ELSE Moves(x, a, e)
    /\ \A x \in Steps : IF Exists(x) /\ world[x].quest = a /\ MoveStep(x, a, e)
                        THEN world'[x] = [world[x] EXCEPT !.quest = e] ELSE Keeps(x)
    /\ \A f \in Entities, k \in Key :
          IF f = a THEN world'[<<f, k>>] = Nil
          ELSE IF f # e \/ Exists(<<e, k>>) THEN Keeps(<<f, k>>)
          ELSE world'[<<e, k>>] # Nil <=> Named(a, k) /\ (Exists(<<a, k>>) \/ world[e].name # k)

Init == world = Start /\ changes = << >>

Next ==
    /\ Len(changes') = Len(changes) + 1
    /\ LET c == changes'[Len(changes')] IN
       /\ changes' = Append(changes, c)
       /\ CASE c.op = "note"  -> \A x \in Id : Keeps(x)
            [] c.op = "merge" -> Merge(c)
            [] OTHER          -> Edit(c) \/ Add(c) \/ Remove(c)

Spec == Init /\ [][Next]_<<world, changes>>
=============================================================================
