------------------------------ MODULE Accounts ------------------------------
(***************************************************************************)
(* Accounts and who may do what on the platform (api/routes/auth.py,       *)
(* admin.py, api/deps.py, access/identity.py): registration, login and its *)
(* lockout, password resets, sessions, promo codes and administration.     *)
(*                                                                         *)
(* A request reads the committed rows (seen) and writes the columns it     *)
(* changed over those that are committed when it ends (db); the two are    *)
(* the same for a request that none overtakes.  Times are half seconds.    *)
(***************************************************************************)
EXTENDS Integers, FiniteSets, Functions, TLC

Minute == 120
MaxFailedLogins == 10
LockoutMinutes  == 15
SessionMinutes  == 1440
ResetMinutes    == 60

Never     == 0     \* the NULL of a time
Unlimited == 0     \* the NULL of a promo code's max_redemptions
Quota     == 3     \* bound: the tokens of a hosted period

\* users by id, subs and redeemed (the code) by user's id, promos by code.
Fresh == [users |-> <<>>, subs |-> <<>>, promos |-> <<>>, redeemed |-> <<>>, resets |-> {}, open |-> FALSE]

NewUser(email, password) ==
    [email |-> email, password |-> password, access |-> FALSE, source |-> "none", admin |-> FALSE,
     suspended |-> FALSE, failed |-> 0, lockedUntil |-> Never, changedAt |-> Never]

\* The spelling of an address or a code, and what case folding leaves of it.
Folded(name) == [name EXCEPT !.upper = FALSE]
Upper(name)  == [name EXCEPT !.upper = TRUE]

Found(db, email) == {u \in DOMAIN db.users : db.users[u].email = email}
The(set) == CHOOSE x \in set : TRUE

Reply(db, status) == [db |-> db, status |-> status]

\* The UPDATE of a user: the columns that differ from what was read, of a row
\* that must still be there.
Saved(seen, db, u, new, status) ==
    CASE new = seen.users[u] -> Reply(db, status)
      [] new # seen.users[u] /\ u \notin DOMAIN db.users -> Reply(db, 500)
      [] new # seen.users[u] /\ u \in DOMAIN db.users ->
            Reply([db EXCEPT !.users[u] =
                     [c \in DOMAIN new |-> IF new[c] # seen.users[u][c] THEN new[c] ELSE @[c]]], status)

-----------------------------------------------------------------------------
(* Promo codes                                                             *)

Redeemable(promo, now) ==
    /\ promo.active
    /\ promo.expires = Never \/ promo.expires >= now
    /\ promo.max = Unlimited \/ promo.count < promo.max

Valid(seen, code, now) == code \in DOMAIN seen.promos /\ Redeemable(seen.promos[code], now)

NewSub == [plan |-> "none", status |-> "incomplete", used |-> 0, included |-> Quota]
SubOf(db, u) == IF u \in DOMAIN db.subs THEN db.subs[u] ELSE NewSub
WithPlan(sub, plan, status) ==
    [sub EXCEPT !.plan = plan, !.status = status, !.included = IF plan = "hosted" THEN Quota ELSE 0]

\* The redemption, the count as it was read and one more, and the plan.
Redemption(seen, db, u, code) ==
    [db EXCEPT !.redeemed = (u :> code) @@ @,
               !.promos[code].count = seen.promos[code].count + 1,
               !.subs = (u :> WithPlan(SubOf(db, u), seen.promos[code].plan, "active")) @@ @]

\* For an account that exists; its code is looked up in capitals.
RedeemPromo(seen, db, u, code, now) ==
    IF u \in DOMAIN seen.redeemed \/ ~Valid(seen, Upper(code), now) THEN Reply(db, 400)
    ELSE IF u \in DOMAIN db.redeemed \/ Upper(code) \notin DOMAIN db.promos THEN Reply(db, 500)
    ELSE LET saved == Saved(seen, db, u, [seen.users[u] EXCEPT !.access = TRUE, !.source = "promo"], 200)
         IN  IF saved.status = 200 THEN Reply(Redemption(seen, saved.db, u, Upper(code)), 200) ELSE saved

CreatePromo(seen, db, code, promo) ==
    CASE Upper(code) \in DOMAIN seen.promos -> Reply(db, 400)
      [] Upper(code) \in DOMAIN db.promos \ DOMAIN seen.promos -> Reply(db, 500)
      [] OTHER -> Reply([db EXCEPT !.promos = (Upper(code) :> ([count |-> 0, active |-> TRUE] @@ promo)) @@ @], 201)

\* Only the fields that were given; a count stays.
UpdatePromo(db, code, fields) ==
    IF code \notin DOMAIN db.promos THEN Reply(db, 404)
    ELSE Reply([db EXCEPT !.promos[code] = fields @@ @], 200)

\* The redemptions go with the code; the access they gave stays.
DeletePromo(db, code) ==
    IF code \notin DOMAIN db.promos THEN Reply(db, 404)
    ELSE Reply([db EXCEPT !.promos = Restrict(@, DOMAIN @ \ {code}),
                          !.redeemed = RestrictValues(@, LAMBDA c : c # code)], 204)

-----------------------------------------------------------------------------
(* Registration, login, password resets                                    *)

\* The first account of a deployment is its administrator.
Registered(seen, email, password, promo) ==
    LET user    == NewUser(email, password)
        first   == DOMAIN seen.users = {}
        crowned == IF first THEN [user EXCEPT !.admin = TRUE, !.access = TRUE, !.source = "grandfathered"] ELSE user
    IN  CASE promo -> [crowned EXCEPT !.access = TRUE, !.source = "promo"]
          [] ~promo /\ seen.open -> [crowned EXCEPT !.access = TRUE, !.source = "open"]
          [] ~promo /\ ~seen.open -> crowned

\* codes: the promo code given, if any; it is looked up as it was typed.
Register(seen, db, u, email, password, codes, now) ==
    LET created == [db EXCEPT !.users = (u :> Registered(seen, email, password, codes # {})) @@ @]
    IN  CASE Found(seen, email) # {} -> Reply(db, 400)
          [] Found(seen, email) = {} /\ (\E c \in codes : ~Valid(seen, c, now)) -> Reply(db, 400)
          [] Found(seen, email) = {} /\ (\A c \in codes : Valid(seen, c, now)) ->
                IF Found(db, email) # {} \/ ~(codes \subseteq DOMAIN db.promos) THEN Reply(db, 500)
                ELSE Reply(IF codes = {} THEN created ELSE Redemption(seen, created, u, The(codes)), 201)

\* A locked account is refused before its password is looked at; an account
\* that is suspended is refused after, and keeps its count.
Login(seen, db, email, password, now) ==
    IF Found(seen, email) = {} THEN Reply(db, 401)
    ELSE LET u      == The(Found(seen, email))
             user   == seen.users[u]
             failed == [user EXCEPT !.failed = @ + 1,
                                    !.lockedUntil = IF user.failed + 1 >= MaxFailedLogins
                                                    THEN now + LockoutMinutes * Minute ELSE @]
         IN  CASE user.lockedUntil > now -> Reply(db, 403)
               [] user.lockedUntil <= now /\ password # user.password -> Saved(seen, db, u, failed, 401)
               [] user.lockedUntil <= now /\ password = user.password ->
                    IF user.suspended THEN Reply(db, 403)
                    ELSE Saved(seen, db, u, [user EXCEPT !.failed = 0, !.lockedUntil = Never], 200)

\* The answer is the same for every address; the older links it saw go.
ForgotPassword(seen, db, email, secret, now) ==
    IF Found(seen, email) = {} THEN Reply(db, 202)
    ELSE LET u == The(Found(seen, email))
         IN  IF u \notin DOMAIN db.users THEN Reply(db, 500)
             ELSE Reply([db EXCEPT !.resets =
                           {r \in @ : ~(r.user = u /\ r \in seen.resets)}
                             \cup {[user |-> u, secret |-> secret, expires |-> now + ResetMinutes * Minute]}], 202)

ResetPassword(seen, db, secret, password, now) ==
    LET links == {r \in seen.resets : r.secret = secret /\ r.expires >= now /\ r.user \in DOMAIN seen.users}
    IN  IF links = {} THEN Reply(db, 400)
        ELSE LET u     == The(links).user
                 saved == Saved(seen, db, u, [seen.users[u] EXCEPT !.password = password, !.changedAt = now,
                                                                  !.failed = 0, !.lockedUntil = Never], 200)
             IN  IF saved.status # 200 THEN saved
                 ELSE Reply([saved.db EXCEPT !.resets = {r \in @ : ~(r.user = u /\ r \in seen.resets)}], 200)

-----------------------------------------------------------------------------
(* Sessions and gates                                                      *)

\* A token has the whole second it was issued in.
WholeSecond(t) == 2 * (t \div 2)
Token(u, now)  == [user |-> u, iat |-> WholeSecond(now), exp |-> WholeSecond(now) + SessionMinutes * Minute]

CurrentUser(db, token, now) ==
    CASE token.exp < WholeSecond(now) \/ token.user \notin DOMAIN db.users -> 401
      [] OTHER -> LET user == db.users[token.user]
                  IN  IF user.changedAt # Never /\ token.iat < user.changedAt THEN 401
                      ELSE IF user.suspended THEN 403 ELSE 200

ActiveAccount(db, token, now) ==
    IF CurrentUser(db, token, now) # 200 THEN CurrentUser(db, token, now)
    ELSE IF db.users[token.user].access \/ db.open THEN 200 ELSE 402

\* adminEmail: the ADMIN_EMAIL of the environment, or none.
IsAdmin(user, adminEmail) == user.admin \/ \E e \in adminEmail : Folded(e) = Folded(user.email)

RequireAdmin(db, token, adminEmail, now) ==
    IF ActiveAccount(db, token, now) # 200 THEN ActiveAccount(db, token, now)
    ELSE IF IsAdmin(db.users[token.user], adminEmail) THEN 200 ELSE 403

\* Who gets past a router to its routes; those of an ungated one ask for a
\* user of their own where they need one.
Ungated == {"auth", "billing", "settings", "share"}
Admits(router, db, token, adminEmail, now) ==
    CASE router = "admin"    -> RequireAdmin(db, token, adminEmail, now)
      [] router \in Ungated  -> 200
      [] OTHER               -> ActiveAccount(db, token, now)

-----------------------------------------------------------------------------
(* Administration.  admin: who asks; u: of whom.                           *)

OfUser(seen, db, u, new, status) == IF u \notin DOMAIN seen.users THEN Reply(db, 404) ELSE Saved(seen, db, u, new, status)
UserOf(seen, u) == IF u \in DOMAIN seen.users THEN seen.users[u] ELSE NewUser("none", "none")

Suspend(seen, db, u)   == OfUser(seen, db, u, [UserOf(seen, u) EXCEPT !.suspended = TRUE], 200)
Unsuspend(seen, db, u) == OfUser(seen, db, u, [UserOf(seen, u) EXCEPT !.suspended = FALSE], 200)
Promote(seen, db, u)   == OfUser(seen, db, u, [UserOf(seen, u) EXCEPT !.admin = TRUE], 200)
Demote(seen, db, admin, u) ==
    IF u = admin THEN Reply(db, 400) ELSE OfUser(seen, db, u, [UserOf(seen, u) EXCEPT !.admin = FALSE], 200)

SetAccess(seen, db, u, granted, plan) ==
    LET saved == OfUser(seen, db, u, [UserOf(seen, u) EXCEPT !.access = granted,
                                                             !.source = IF granted THEN "grandfathered" ELSE "none"], 200)
        sub   == SubOf(db, u)
    IN  IF saved.status # 200 \/ plan = "none" THEN saved
        ELSE Reply([saved.db EXCEPT !.subs =
                      (u :> WithPlan(sub, plan, IF granted THEN "active" ELSE sub.status)) @@ @], 200)

\* Everything of the user goes with the account.
DeleteUser(seen, db, admin, u) ==
    CASE u = admin -> Reply(db, 400)
      [] u # admin /\ u \notin DOMAIN seen.users -> Reply(db, 404)
      [] u # admin /\ u \in DOMAIN seen.users ->
            Reply([db EXCEPT !.users = Restrict(@, DOMAIN @ \ {u}), !.subs = Restrict(@, DOMAIN @ \ {u}),
                             !.redeemed = Restrict(@, DOMAIN @ \ {u}), !.resets = {r \in @ : r.user # u}], 204)

UpdatePlatform(db, open) == Reply([db EXCEPT !.open = open], 200)
=============================================================================
