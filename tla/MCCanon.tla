------------------------------ MODULE MCCanon -------------------------------
\* Instances of Canon for TLC: a world of three Quests, one of each Visibility,
\* with rows of each kind hanging on them, and the changes asked for.
EXTENDS Canon, TLC

CONSTANTS q1, q2, q3, q4, q5, q6, q7, e1, e2, e3, e4, t1, t2, t3, t4, m1, m2, m3, k1, k2, k3, n1, p1, u1

Quest(name, vis) == [name |-> name, status |-> "open", stamp |-> Nil, vis |-> vis, owner |-> u1,
                     deleted |-> Nil, merged |-> Nil]

World ==
    LET rows == (q1 :> Quest(k1, "party")) @@ (q2 :> Quest(k2, "gm")) @@ (q3 :> Quest(k1, "private")) @@ (q7 :> Quest(k3, "party"))
                @@ (e1 :> [src |-> q1, dst |-> q2, note |-> Nil, ended |-> Nil, vis |-> "party", floor |-> Nil])
                @@ (t1 :> [quest |-> q2, done |-> FALSE])
                @@ (m1 :> [entity |-> q2, confirmed |-> FALSE, floor |-> Nil])
                @@ (<<q2, k3>> :> [floor |-> Nil])
    IN  [x \in Id |-> IF x \in DOMAIN rows THEN rows[x] ELSE Nil]

Sessions == Permutations(Session)

Ask(op, id, arg, proposal) == [op |-> op, id |-> id, arg |-> arg, proposal |-> proposal]
On == [on |-> TRUE]
Reverts(n) == {Ask("revert", i, [force |-> f], Nil) : i \in 1..n, f \in BOOLEAN}

AllRequests ==
    {Ask("create", Nil, [name |-> k1, actor |-> u1], p1),
     Ask("create", q4, [name |-> k1, actor |-> u1], Nil),
     Ask("set", q1, [status |-> "won"], p1), Ask("set", q1, [status |-> "open"], Nil),
     Ask("set", q1, [stamp |-> Nil], Nil), Ask("set", q2, [name |-> k1], Nil),
     Ask("add_alias", q1, [key |-> k3], Nil), Ask("remove_alias", q2, [key |-> k3], p1),
     Ask("add_relationship", q1, [target |-> q2], Nil), Ask("update_relationship", e1, [note |-> n1], p1),
     Ask("end_relationship", e1, On, Nil),
     Ask("add_step", q2, On, Nil), Ask("update_step", t1, [done |-> TRUE], Nil),
     Ask("add_mention", q1, On, Nil), Ask("confirm_mention", m1, On, Nil), Ask("remove_mention", m1, On, Nil),
     Ask("delete", q2, On, p1), Ask("note", q1, On, p1),
     Ask("merge", q2, [survivor |-> q1], Nil), Ask("merge", q1, [survivor |-> q2], Nil),
     Ask("merge", q2, [survivor |-> q3], Nil), Ask("merge", q1, [survivor |-> q7], Nil),
     Ask("set_visibility", q2, [vis |-> "party"], Nil), Ask("set_visibility", e1, [vis |-> "gm"], Nil),
     Ask("revert", 1, [force |-> FALSE], p1)}
    \cup Reverts(2)

\* A relationship reverted while its other end is merged away.
RaceRequests ==
    {Ask("add_relationship", q1, [target |-> q2], Nil), Ask("merge", q2, [survivor |-> q3], Nil)} \cup Reverts(1)
=============================================================================
