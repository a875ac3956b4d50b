----------------------------- MODULE MCAccounts -----------------------------
(* The rules of Accounts over short histories of a small platform. *)
EXTENDS Accounts, Sequences

Mail(name) == [name |-> name, upper |-> FALSE]
Code       == [name |-> "code", upper |-> TRUE]
Promo      == [plan |-> "byok", max |-> 2, expires |-> Never]

\* What happens next, at a time of its own; a request that something overtakes
\* has seen the platform as it was before that.
Do(request, seen, db, now) ==
    CASE request[1] = "register" -> Register(seen, db, request[2], Mail(request[2]), "old", request[3], now)
      [] request[1] = "login"    -> Login(seen, db, Mail(request[2]), request[3], now)
      [] request[1] = "forgot"   -> ForgotPassword(seen, db, Mail(request[2]), now, now)
      [] request[1] = "reset"    -> IF seen.resets = {} THEN Reply(db, 400)
                                    ELSE ResetPassword(seen, db, The(seen.resets).secret, "new", now)
      [] request[1] = "redeem"   -> RedeemPromo(seen, db, request[2], Folded(Code), now)
      [] request[1] = "suspend"  -> Suspend(seen, db, request[3])
      [] request[1] = "promote"  -> Promote(seen, db, request[3])
      [] request[1] = "demote"   -> Demote(seen, db, request[2], request[3])
      [] request[1] = "delete"   -> DeleteUser(seen, db, request[2], request[3])
      [] request[1] = "access"   -> SetAccess(seen, db, request[3], request[4], "none")
      [] request[1] = "open"     -> UpdatePlatform(db, request[3])

Requested == {"suspend", "promote", "demote", "delete", "access", "open"}

\* A request that needs a session is done only when it is let in.
Allowed(request, db, now) ==
    /\ request[1] \in Requested => RequireAdmin(db, Token(request[2], now), {}, now) = 200
    /\ request[1] = "redeem" => CurrentUser(db, Token(request[2], now), now) = 200

Step(request, db, now) == IF Allowed(request, db, now) THEN Do(request, db, db, now).db ELSE db

\* Every platform that n requests of a set, two minutes apart, make of one.
Histories(start, requests, n) ==
    LET dbs[i \in 0..n] == IF i = 0 THEN {start} ELSE {Step(r, db, 240 * i) : r \in requests, db \in dbs[i - 1]}
    IN  UNION {dbs[i] : i \in 0..n}

Start ==
    LET db == Do(<<"register", "ann", {}>>, Fresh, Fresh, 2).db
        two == Do(<<"register", "bob", {}>>, db, db, 4).db
    IN  CreatePromo(two, two, Folded(Code), Promo).db

AdminRequests ==
    {<<op, a, u>> : op \in {"suspend", "promote", "demote", "delete"}, a \in {"ann", "bob"}, u \in {"ann", "bob"}}
    \cup {<<"access", a, u, on>> : a \in {"ann", "bob"}, u \in {"ann", "bob"}, on \in BOOLEAN}
    \cup {<<"open", a, on>> : a \in {"ann"}, on \in BOOLEAN}

LetIn(db, u) == RequireAdmin(db, Token(u, 2000), {}, 2000) = 200

\* Whoever is refused to demote or delete himself may still suspend himself, or
\* take his own access away; but for that an administrator remains.
ASSUME AdministratorRemains ==
    \A db \in Histories(Start, AdminRequests, 3) : \A r \in AdminRequests :
        LET after == Step(r, db, 2000)
        IN  (\E u \in DOMAIN db.users : LetIn(db, u)) =>
              \/ \E u \in DOMAIN after.users : LetIn(after, u)
              \/ r[1] \in {"suspend", "access"} /\ r[2] = r[3]
              \/ r[1] = "open"

UserRequests ==
    {<<"login", "bob", "old">>, <<"login", "bob", "wrong">>, <<"forgot", "bob">>, <<"reset">>,
     <<"redeem", "bob">>, <<"suspend", "ann", "bob">>, <<"delete", "ann", "bob">>,
     <<"register", "bob", {}>>, <<"register", "cid", {Code}>>}

\* No token of before a password reset is a session, one of a later second
\* is, and none is while the account is suspended or when it is gone.
ASSUME SessionsEndWithReset ==
    \A db \in Histories(Start, UserRequests, 4) : \A issued \in UNION {{t - 2, t - 1, t, t + 1} : t \in {6, 480, 720, 960, 1200}} :
        LET answer == CurrentUser(db, Token("bob", issued), 1210)
        IN  "bob" \in DOMAIN db.users =>
              /\ issued < db.users["bob"].changedAt => answer = 401
              /\ WholeSecond(issued) >= db.users["bob"].changedAt => answer = IF db.users["bob"].suspended THEN 403 ELSE 200

\* In requests that follow one another a code is redeemed as often as it counts
\* and allows, by each user once, whichever way; and a link is the only one.
ASSUME RedeemedAsCounted ==
    \A db \in Histories(Start, (UserRequests \ {<<"delete", "ann", "bob">>}) \cup {<<"register", "dan", {Code}>>}, 4) :
        /\ db.promos[Code].count <= 2
        /\ db.promos[Code].count = Cardinality(DOMAIN db.redeemed)
        /\ \A r, q \in db.resets : r.user = q.user => r = q
        /\ \A u \in DOMAIN db.redeemed : db.users[u].access /\ db.subs[u].status = "active"

\* Requests at one time: what each has seen is the platform before the other.
Overtaking(a, b, db, now) == Do(b, db, Do(a, db, db, now).db, now)

\* Then the last redemption can be given twice and be counted once, an empty
\* deployment crown two, and two links be sent; an address stays one account's.
ASSUME RacesCountOnce ==
    LET one   == UpdatePromo(Start, Code, [max |-> 1]).db
        twice == Overtaking(<<"register", "cid", {Code}>>, <<"redeem", "bob">>, one, 100)
        crown == Overtaking(<<"register", "ann", {}>>, <<"register", "bob", {}>>, Fresh, 2)
        link  == ForgotPassword(Start, Start, Mail("bob"), 1, 100)
    IN  /\ DOMAIN twice.db.redeemed = {"bob", "cid"} /\ twice.db.promos[Code].count = 1
        /\ crown.db.users["ann"].admin /\ crown.db.users["bob"].admin
        /\ Cardinality(ForgotPassword(Start, link.db, Mail("bob"), 2, 100).db.resets) = 2
        /\ Overtaking(<<"register", "cid", {}>>, <<"register", "cid", {}>>, Start, 100).status = 500

\* Wrong passwords one after another.
Attempts(n, db, now) ==
    LET after[i \in 0..n] == IF i = 0 THEN db ELSE Do(<<"login", "bob", "wrong">>, after[i - 1], after[i - 1], now).db
    IN  after[n]

\* The tenth wrong password in a row locks the account for fifteen minutes,
\* against the right one too; when they are over the count is what it was,
\* and one wrong password locks it again.
ASSUME LockoutHolds ==
    LET answer(db, password, now) == Do(<<"login", "bob", password>>, db, db, now)
        nine == Attempts(9, Start, 100)
        ten  == Attempts(10, Start, 100)
        over == 100 + LockoutMinutes * Minute
    IN  /\ answer(nine, "old", 100).status = 200 /\ answer(nine, "old", 100).db = Start
        /\ \A p \in {"old", "wrong"} : answer(ten, p, over - 1) = Reply(ten, 403)
        /\ answer(ten, "old", over).status = 200
        /\ answer(answer(ten, "wrong", over).db, "old", over + 1).status = 403
        /\ answer(Attempts(9, answer(ten, "old", over).db, over), "old", over).status = 200
=============================================================================
