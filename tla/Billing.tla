------------------------------- MODULE Billing -------------------------------
(***************************************************************************)
(* One user's access (services/billing_service.py): Stripe's webhooks in   *)
(* any order and number, a promo code, the administrator and the usage     *)
(* meter, each in a database session of its own.                           *)
(*                                                                         *)
(* A session reads the committed rows, writes the columns whose value it   *)
(* changed (the ORM's UPDATE) and keeps its rows locked until it commits;  *)
(* autoflush puts the first of its two updates before its last SELECT.     *)
(* One Stripe customer and one Stripe subscription.                        *)
(***************************************************************************)
EXTENDS Naturals

CONSTANTS
    Session,   \* the requests' database sessions
    Does,      \* bound: the operations a run allows
    MaxTxn     \* bound on transactions

VARIABLES
    user,      \* access_granted and access_source
    sub,       \* the user's Subscription row
    redeemed,  \* a PromoCodeRedemption of the user is committed
    taken,     \* history: the administrator has taken the access away
    tx,        \* what each session has read and will write
    txns

vars == <<user, sub, redeemed, taken, tx, txns>>

Status == {"incomplete", "trialing", "active", "past_due", "canceled", "unpaid"}
Plan   == {"byok", "hosted"}
NoSub  == [row |-> FALSE, customer |-> FALSE, stripe |-> FALSE,
           status |-> "incomplete", plan |-> "none", used |-> 0]
Idle   == [op |-> "idle"]

Granted(source) == [access |-> TRUE, source |-> source]
Gated == [access |-> FALSE, source |-> "none"]

\* A gated account, or one registered while the portal was open.
Init ==
    /\ user \in {Gated, Granted("open")}
    /\ sub = NoSub
    /\ redeemed = FALSE /\ taken = FALSE
    /\ tx = [s \in Session |-> Idle]
    /\ txns = 0

-----------------------------------------------------------------------------
(* What the operations do to the rows                                      *)

IsActive(r) == r.status \in {"active", "past_due", "trialing"}

\* _recompute_access
Recomputed(r, promo) ==
    IF IsActive(r) THEN Granted("subscription")
    ELSE IF promo THEN Granted("promo") ELSE Gated

\* The webhook events that reach this user's row, what each leaves of it and
\* whether it recomputes the access.
Events == {"completed", "updated", "deleted", "paid", "failed"}

Finds(event, r) ==
    CASE event = "completed" -> TRUE
      [] event = "updated" -> r.stripe \/ r.customer
      [] event = "deleted" -> r.stripe
      [] event \in {"paid", "failed"} -> r.customer

SubsAfter(event, r) ==
    CASE event = "completed" ->
            {[r EXCEPT !.row = TRUE, !.customer = TRUE, !.stripe = TRUE, !.status = "active",
                       !.plan = p] : p \in Plan \cup {r.plan}}
      [] event = "updated" ->
            {[r EXCEPT !.stripe = TRUE, !.status = st, !.plan = p] :
                st \in Status, p \in Plan \cup {r.plan}}
      [] event = "deleted" -> {[r EXCEPT !.status = "canceled"]}
      [] event = "paid"    -> {[r EXCEPT !.status = "active", !.used = 0]}
      [] event = "failed"  -> {[r EXCEPT !.status = "past_due"]}

\* apply_promo_plan, and the subscription row of admin_set_access.
WithPlan(r, plan) == [r EXCEPT !.row = TRUE, !.plan = plan, !.status = "active"]

WithAdminPlan(r, on, plan) ==
    [r EXCEPT !.row = TRUE, !.plan = plan, !.status = IF on THEN "active" ELSE @]

\* The UPDATE of a row: the columns whose value differs from what was read.
Updated(now, seen, new) == [c \in DOMAIN now |-> IF new[c] # seen[c] THEN new[c] ELSE now[c]]

-----------------------------------------------------------------------------
(* Sessions                                                                *)

\* The rows a session has locked: it has flushed an update of them.
Locks(s) == IF tx[s].op = "idle" THEN {} ELSE tx[s].locks
Free(s, row) == \A o \in Session \ {s} : row \notin Locks(o)

Starts(s, op) ==
    /\ tx[s].op = "idle" /\ op \in Does /\ txns < MaxTxn
    /\ txns' = txns + 1
    /\ UNCHANGED <<user, sub, redeemed, taken>>

Tx(op, newUser, seenSub, newSub) ==
    [op |-> op, at |-> "read", seenUser |-> user, newUser |-> newUser,
     seenSub |-> seenSub, newSub |-> newSub, locks |-> {}]

\* handle_webhook_event: the row and its user; the event's columns are set.
Webhook(s) ==
    \E e \in Events :
        /\ Finds(e, sub)
        /\ Starts(s, e)
        /\ \E r \in SubsAfter(e, sub) : tx' = [tx EXCEPT ![s] = Tx(e, user, sub, r)]

\* redeem_promo_code, past its checks; the user came with the request.
Redeem(s) ==
    /\ Starts(s, "redeem")
    /\ ~redeemed
    /\ tx' = [tx EXCEPT ![s] = Tx("redeem", Granted("promo"), NoSub, NoSub)]

\* admin_set_access of the administrator's request.
SetAccess(s) ==
    /\ Starts(s, "admin")
    /\ \E new \in {Granted("grandfathered"), Gated} :
         tx' = [tx EXCEPT ![s] = Tx("admin", new, NoSub, NoSub)]

\* create_checkout_session as far as our rows go: the row and its customer.
Checkout(s) ==
    /\ Starts(s, "checkout")
    /\ \E p \in Plan : ~(IsActive(sub) /\ sub.plan # "none" /\ sub.plan # p)
    /\ ~sub.customer
    /\ tx' = [tx EXCEPT ![s] = Tx("checkout", user, sub, [sub EXCEPT !.row = TRUE, !.customer = TRUE])]

\* record_hosted_usage
Meter(s) ==
    /\ Starts(s, "meter")
    /\ sub.row
    /\ tx' = [tx EXCEPT ![s] = Tx("meter", user, sub, [sub EXCEPT !.used = @ + 1])]

At(s, where) == tx[s].op # "idle" /\ tx[s].at = where
Recomputes(s) == tx[s].op \in Events \ {"failed"}

\* The event's row is flushed before the SELECT of the redemption.
FlushEvent(s) ==
    /\ At(s, "read") /\ Recomputes(s)
    /\ tx[s].newSub = tx[s].seenSub \/ Free(s, "sub")
    /\ tx[s].newSub.row # tx[s].seenSub.row => ~sub.row
    /\ tx' = [tx EXCEPT ![s].at = "flushed",
                        ![s].newUser = Recomputed(tx[s].newSub, redeemed),
                        ![s].locks = IF tx[s].newSub # tx[s].seenSub THEN {"sub"} ELSE {}]
    /\ UNCHANGED <<user, sub, redeemed, taken, txns>>

\* The row after a redemption, and after the administrator's override.
SubsGiven(s) ==
    IF tx[s].op = "redeem" THEN {WithPlan(sub, p) : p \in Plan}
    ELSE {sub} \cup {WithAdminPlan(sub, tx[s].newUser.access, p) : p \in Plan}

\* The redemption and the user are flushed before the SELECT of the row.
\* A second redemption waits for the first and meets the unique constraint.
FlushUser(s) ==
    /\ At(s, "read") /\ tx[s].op \in {"redeem", "admin"}
    /\ tx[s].newUser = tx[s].seenUser \/ Free(s, "user")
    /\ tx[s].op = "redeem" => ~redeemed /\ Free(s, "redemption")
    /\ \E r \in SubsGiven(s) :
         tx' = [tx EXCEPT ![s].at = "flushed", ![s].seenSub = sub, ![s].newSub = r,
                          ![s].locks = (IF tx[s].newUser # tx[s].seenUser THEN {"user"} ELSE {})
                                         \cup (IF tx[s].op = "redeem" THEN {"redemption"} ELSE {})]
    /\ UNCHANGED <<user, sub, redeemed, taken, txns>>

Ready(s) ==
    \/ At(s, "flushed")
    \/ At(s, "read") /\ ~Recomputes(s) /\ tx[s].op \notin {"redeem", "admin"}

\* The commit flushes what is left, waiting for the rows others hold.
Commit(s) ==
    /\ Ready(s)
    /\ tx[s].newSub # tx[s].seenSub => Free(s, "sub")
    /\ tx[s].newUser # tx[s].seenUser => Free(s, "user")
    /\ tx[s].newSub.row # tx[s].seenSub.row => ~sub.row
    /\ sub' = Updated(sub, tx[s].seenSub, tx[s].newSub)
    /\ user' = Updated(user, tx[s].seenUser, tx[s].newUser)
    /\ redeemed' = (redeemed \/ tx[s].op = "redeem")
    /\ taken' = (taken \/ (tx[s].op = "admin" /\ ~tx[s].newUser.access))
    /\ tx' = [tx EXCEPT ![s] = Idle]
    /\ UNCHANGED txns

\* An error, a unique constraint, a deadlock the database ends, a lost process.
RollBack(s) ==
    /\ tx[s].op # "idle"
    /\ tx' = [tx EXCEPT ![s] = Idle]
    /\ UNCHANGED <<user, sub, redeemed, taken, txns>>

Next ==
    \E s \in Session :
        \/ Webhook(s) \/ Redeem(s) \/ SetAccess(s) \/ Checkout(s) \/ Meter(s)
        \/ FlushEvent(s) \/ FlushUser(s) \/ Commit(s) \/ RollBack(s)

Spec == Init /\ [][Next]_vars

-----------------------------------------------------------------------------

(* PromoKeepsAccess: who has redeemed a promo code has access, whatever    *)
(* becomes of a subscription, unless the administrator has taken it away.  *)
PromoKeepsAccess == redeemed /\ ~taken => user.access
=============================================================================
