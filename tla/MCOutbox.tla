------------------------------ MODULE MCOutbox ------------------------------
(* An instance of Outbox for TLC. *)
EXTENDS Outbox, TLC

CONSTANTS e1, e2, n1, r1, r2, h1, h2

\* The first Event has two handlers.
Handlers == e1 :> <<h1, h2>> @@ e2 :> <<h1>> @@ n1 :> <<h1>>

\* One request does everything, the other enqueues; the first task's handlers
\* emit and enqueue, the others only write.
Allowed == r1 :> {"nest", "emit", "enqueue"} @@ r2 :> {"enqueue"}
           @@ e1 :> {"emit", "enqueue"} @@ e2 :> {} @@ n1 :> {}

Symmetric == Permutations(Job)
=============================================================================
