---------------------------- MODULE Canon_proofs ----------------------------
(***************************************************************************)
(* The rules who reads what, and Canon's use of them.                      *)
(*                                                                         *)
(* The SQL clauses and the Python rules of Access agree, for any set of    *)
(* users and any row; and a row narrowed by its parents or its floor is    *)
(* never wider than they are.                                              *)
(*                                                                         *)
(* Canon: of the changes that concurrent sessions apply, each proposal's   *)
(* is applied once, the history tells each Entity's fields, an unforced    *)
(* revert restores what its change found, no merge widens a row, and every *)
(* commit is one change of CanonHistory: each by an invariant of what      *)
(* sessions that are about to flush hold, for any sessions, tables, users, *)
(* requests and any length of the history.                                 *)
(***************************************************************************)
EXTENDS Canon, Projection, SequenceTheorems, TLAPS

Owners == User \cup {Nil}
Vis    == Visibility \cup {Nil}

\* An Audience's level, and whose it is.
LEMMA AudienceShape ==
    ASSUME NEW a \in Audience
    PROVE  /\ a.level \in Level
           /\ a.level = "owner" => a.user \in User
           /\ a.level # "owner" => a = [level |-> a.level, user |-> Nil]
BY AccessAssumption DEF Audience, Level

\* The named Audiences are some.
LEMMA NamedAudiences ==
    /\ Public \in Audience /\ Members \in Audience /\ GM \in Audience
    /\ \A u \in User : Owner(u) \in Audience
BY AccessAssumption DEF Audience, Level, Public, Members, GM, Owner

\* So is a stored row's.
LEMMA StoredIsAudience ==
    ASSUME NEW vis \in Vis, NEW owner \in Owners, NEW kind
    PROVE  StoredAudience(vis, owner, kind) \in Audience
BY NamedAudiences DEF StoredAudience, Owners, Vis

\* The meet of two Audiences is one, and a viewer reads it exactly when the
\* viewer reads both: what makes a conjunction of clauses the twin of
\* most_restrictive.
THEOREM MeetIsConjunction ==
    ASSUME NEW a \in Audience, NEW b \in Audience, NEW viewer \in Audience
    PROVE  /\ Meet(a, b) \in Audience
           /\ Covers(Meet(a, b), viewer) <=> Covers(a, viewer) /\ Covers(b, viewer)
<1>1. Meet(a, b) \in Audience
  BY NamedAudiences DEF Meet
<1>2. /\ a.level \in Level /\ b.level \in Level /\ viewer.level \in Level
  BY AudienceShape
<1>3. Covers(Meet(a, b), viewer) <=> Covers(a, viewer) /\ Covers(b, viewer)
  <2>1. CASE a.level = "owner" /\ b.level = "owner" /\ a.user # b.user
    <3>1. Meet(a, b) = GM
      BY <2>1 DEF Meet
    <3>2. CASE viewer.level = "owner"
      BY <2>1, <3>1, <3>2 DEF Covers, GM, Rank
    <3>3. CASE viewer.level # "owner"
      BY <1>2, <2>1, <3>1, <3>3 DEF Covers, GM, Rank, Level
    <3> QED BY <3>2, <3>3
  <2>2. CASE ~(a.level = "owner" /\ b.level = "owner" /\ a.user # b.user)
    <3>1. CASE viewer.level = "owner"
      BY <1>2, <2>2, <3>1 DEF Covers, Meet, Rank, Level
    <3>2. CASE viewer.level # "owner"
      BY <1>2, <2>2, <3>2 DEF Covers, Meet, Rank, Level
    <3> QED BY <3>1, <3>2
  <2> QED BY <2>1, <2>2
<1> QED BY <1>1, <1>3

\* Covers is an order on Audiences with GM's viewer reading everything.
THEOREM CoversIsOrder ==
    ASSUME NEW a \in Audience, NEW b \in Audience, NEW c \in Audience
    PROVE  /\ Covers(a, a)
           /\ Covers(a, b) /\ Covers(b, c) => Covers(a, c)
           /\ Covers(a, b) /\ Covers(b, a) => a = b
           /\ Covers(a, GM)
<1>1. a.level \in Level /\ b.level \in Level /\ c.level \in Level
  BY AudienceShape
<1>2. Covers(a, a) /\ Covers(a, GM)
  BY <1>1 DEF Covers, Rank, Level, GM
<1>3. Covers(a, b) /\ Covers(b, c) => Covers(a, c)
  BY <1>1 DEF Covers, Rank, Level
<1>4. Covers(a, b) /\ Covers(b, a) => a = b
  <2> SUFFICES ASSUME Covers(a, b), Covers(b, a) PROVE a = b
    OBVIOUS
  <2>1. a.level = b.level
    BY <1>1 DEF Covers, Rank, Level
  <2>2. a.user = b.user
    BY <1>1, <2>1, AudienceShape DEF Covers, Audience
  <2> QED BY <2>1, <2>2 DEF Audience
<1> QED BY <1>2, <1>3, <1>4

\* _vis_clause and stored_audience agree for every viewer but a GM, whom no
\* clause asks.
THEOREM VisClauseAgrees ==
    ASSUME NEW vis \in Vis, NEW owned \in BOOLEAN, NEW owner \in Owners,
           NEW kinded \in BOOLEAN, NEW kind \in Kind, NEW viewer \in Audience,
           viewer.level # "gm"
    PROVE  VisClause(vis, owned, owner, kinded, kind, viewer)
           <=> Covers(StoredAudience(vis, IF owned THEN owner ELSE Nil, IF kinded THEN kind ELSE Nil), viewer)
<1>1. viewer.level \in Level /\ (viewer.level = "owner" => viewer.user \in User)
  BY AudienceShape
<1>2. viewer.level = "owner" => viewer.user # Nil
  BY <1>1, AccessAssumption
<1>3. vis \in {"party", "private", "gm", Nil} /\ Nil # "party" /\ Nil # "private" /\ Nil # "gm"
  BY AccessAssumption DEF Vis, Visibility
<1>4. CASE viewer.level = "owner"
  <2> DEFINE o == IF owned THEN owner ELSE Nil
  <2>1. VisClause(vis, owned, owner, kinded, kind, viewer)
        <=> vis = "party" \/ (owned /\ vis = "private" /\ owner # Nil /\ owner = viewer.user)
    BY <1>3, <1>4 DEF VisClause, Equals
  <2>2. ASSUME NEW k, vis = "party" PROVE Covers(StoredAudience(vis, o, k), viewer)
    BY <1>4, <2>2 DEF Covers, StoredAudience, Public, Members, Rank
  <2>3. ASSUME NEW k, vis = "private" PROVE Covers(StoredAudience(vis, o, k), viewer) <=> o = viewer.user
    <3>1. CASE o = Nil
      BY <1>2, <1>4, <2>3, <3>1 DEF Covers, StoredAudience, GM, Rank
    <3>2. CASE o # Nil
      BY <1>4, <2>3, <3>2 DEF Covers, StoredAudience, Owner
    <3> QED BY <3>1, <3>2
  <2>4. ASSUME NEW k, vis # "party", vis # "private" PROVE ~Covers(StoredAudience(vis, o, k), viewer)
    BY <1>4, <2>4 DEF Covers, StoredAudience, GM, Rank
  <2>5. o = viewer.user <=> owned /\ owner # Nil /\ owner = viewer.user
    BY <1>2, <1>4
  <2> HIDE DEF o
  <2>6. VisClause(vis, owned, owner, kinded, kind, viewer)
        <=> Covers(StoredAudience(vis, o, IF kinded THEN kind ELSE Nil), viewer)
    BY <1>3, <2>1, <2>2, <2>3, <2>4, <2>5
  <2> QED BY <2>6 DEF o
<1>5. CASE viewer.level = "members"
  BY <1>1, <1>3, <1>5 DEF VisClause, Equals, Covers, StoredAudience, Public, Members, Owner, GM, Rank, Kind
<1>6. CASE viewer.level = "public"
  BY <1>1, <1>3, <1>6, AccessAssumption DEF VisClause, Equals, Covers, StoredAudience, Public, Members, Owner,
     GM, Rank, Kind
<1> QED BY <1>1, <1>4, <1>5, <1>6 DEF Level

\* Every stored row of the canon: its own Visibility, and GM once its gm_when
\* columns say it is gone.
THEOREM StoredClauseAgrees ==
    ASSUME NEW vis \in Vis, NEW owned \in BOOLEAN, NEW owner \in Owners,
           NEW kinded \in BOOLEAN, NEW kind \in Kind, NEW gone \in BOOLEAN, NEW viewer \in Audience
    PROVE  StoredClause(vis, owned, owner, kinded, kind, gone, viewer)
           <=> Covers(RowAudience(vis, IF owned THEN owner ELSE Nil, IF kinded THEN kind ELSE Nil, gone), viewer)
<1> DEFINE o == IF owned THEN owner ELSE Nil
           k == IF kinded THEN kind ELSE Nil
<1>1. viewer.level \in Level
  BY AudienceShape
<1>2. Covers(GM, viewer) <=> viewer.level = "gm"
  BY <1>1 DEF Covers, GM, Rank, Level
<1>3. CASE viewer.level = "gm"
  <2>1. RowAudience(vis, o, k, gone) \in Audience
    BY StoredIsAudience, NamedAudiences DEF RowAudience, Owners
  <2>2. RowAudience(vis, o, k, gone).level \in Level
    BY <2>1, AudienceShape
  <2> HIDE DEF o, k
  <2>3. Covers(RowAudience(vis, o, k, gone), viewer)
    BY <2>2, <1>3 DEF Covers, Rank, Level
  <2> QED BY <2>3, <1>3 DEF StoredClause, o, k
<1>4. CASE viewer.level # "gm"
  BY <1>2, <1>4, VisClauseAgrees DEF StoredClause, RowAudience
<1> QED BY <1>3, <1>4

\* What a floor lets through.
LEMMA FloorClauseAgrees ==
    ASSUME NEW floor \in Vis, NEW viewer \in Audience
    PROVE  /\ FloorAudience(floor) \in Audience
           /\ FloorClause(floor, viewer) <=> Covers(FloorAudience(floor), viewer)
<1>1. viewer.level \in Level
  BY AudienceShape
<1>2. floor \in {"party", "private", "gm", Nil} /\ Nil # "party" /\ Nil # "private" /\ Nil # "gm"
  BY AccessAssumption DEF Vis, Visibility
<1>3. FloorAudience(floor) = IF floor \in {"party", Nil} THEN Public ELSE GM
  BY <1>2 DEF FloorAudience, StoredAudience
<1> QED BY <1>1, <1>2, <1>3, NamedAudiences DEF FloorClause, Covers, Public, GM, Rank, Level

\* An alias or a Mention: its clause, inside the EXISTS of its Entity, is the
\* twin of its Audience, and the row is read by nobody its Entity is not.
THEOREM DerivedClauseAgrees ==
    ASSUME NEW parent \in Audience, NEW floor \in Vis, NEW viewer \in Audience
    PROVE  /\ DerivedClause(Covers(parent, viewer), floor, viewer) <=> Covers(DerivedAudience(parent, floor), viewer)
           /\ Covers(DerivedAudience(parent, floor), viewer) => Covers(parent, viewer)
BY FloorClauseAgrees, MeetIsConjunction DEF DerivedClause, DerivedAudience

\* An edge is read by a viewer of both its ends whom its Visibility and its
\* floor let through; its private, having no author, is GM.
THEOREM EdgeClauseAgrees ==
    ASSUME NEW vis \in Vis, NEW floor \in Vis, NEW source \in Audience, NEW target \in Audience,
           NEW viewer \in Audience
    PROVE  /\ EdgeClause(vis, floor, Covers(source, viewer), Covers(target, viewer), viewer)
              <=> Covers(EdgeAudience(vis, floor, source, target), viewer)
           /\ Covers(EdgeAudience(vis, floor, source, target), viewer)
              => Covers(source, viewer) /\ Covers(target, viewer)
<1> DEFINE own == StoredAudience(vis, Nil, Nil)
           floored == Meet(own, FloorAudience(floor))
<1>1. viewer.level \in Level
  BY AudienceShape
<1>2. own \in Audience
  BY StoredIsAudience DEF Owners
<1>3. FloorAudience(floor) \in Audience /\ (FloorClause(floor, viewer) <=> Covers(FloorAudience(floor), viewer))
  BY FloorClauseAgrees
<1> HIDE DEF own
<1>4. floored \in Audience /\ (Covers(floored, viewer) <=> Covers(own, viewer) /\ FloorClause(floor, viewer))
  BY <1>2, <1>3, MeetIsConjunction
<1> HIDE DEF floored
<1>5. /\ Meet(floored, source) \in Audience
      /\ Covers(Meet(Meet(floored, source), target), viewer)
         <=> Covers(own, viewer) /\ FloorClause(floor, viewer) /\ Covers(source, viewer) /\ Covers(target, viewer)
  BY <1>4, MeetIsConjunction
<1>6. EdgeAudience(vis, floor, source, target) = Meet(Meet(floored, source), target)
  BY DEF EdgeAudience, floored, own
<1>7. CASE viewer.level = "gm"
  <2>1. own.level \in Level /\ source.level \in Level /\ target.level \in Level
    BY <1>2, AudienceShape
  <2>2. Covers(own, viewer) /\ Covers(source, viewer) /\ Covers(target, viewer)
    BY <2>1, <1>7 DEF Covers, Rank, Level
  <2> QED BY <1>5, <1>6, <1>7, <2>2 DEF EdgeClause, FloorClause
<1>8. CASE viewer.level # "gm"
  <2>1. VisClause(vis, FALSE, Nil, FALSE, Nil, viewer) <=> VisClause(vis, FALSE, Nil, FALSE, "gm", viewer)
    BY DEF VisClause
  <2>2. Nil \in Owners /\ "gm" \in Kind /\ FALSE \in BOOLEAN
    BY DEF Owners, Kind
  <2>3. VisClause(vis, FALSE, Nil, FALSE, Nil, viewer) <=> Covers(own, viewer)
    BY <1>8, <2>1, <2>2, VisClauseAgrees DEF own
  <2> QED BY <1>5, <1>6, <1>8, <2>3 DEF EdgeClause
<1> QED BY <1>7, <1>8

\* A history row: the field it names decides, with the Visibility set for the
\* field and for the part before its dot.
THEOREM FieldClauseAgrees ==
    ASSUME NEW always \in BOOLEAN, NEW none \in BOOLEAN, NEW public \in BOOLEAN, NEW vis \in Vis,
           NEW head \in Vis, NEW owned \in BOOLEAN, NEW owner \in Owners, NEW kinded \in BOOLEAN,
           NEW kind \in Kind, NEW viewer \in Audience
    PROVE  FieldClause(always, none, public, vis, head, owned, owner, kinded, kind, viewer)
           <=> Covers(FieldAudience(always, none, public, vis, head, IF owned THEN owner ELSE Nil,
                                    IF kinded THEN kind ELSE Nil), viewer)
<1> DEFINE o == IF owned THEN owner ELSE Nil
           k == IF kinded THEN kind ELSE Nil
           Part(v) == IF v = Nil THEN Public ELSE StoredAudience(v, o, k)
<1>1. viewer.level \in Level
  BY AudienceShape
<1>2. /\ Covers(Public, viewer)
      /\ Covers(GM, viewer) <=> viewer.level = "gm"
  BY <1>1 DEF Covers, Public, GM, Rank, Level
<1>3. ASSUME NEW v \in Vis
      PROVE  /\ Part(v) \in Audience
             /\ viewer.level = "gm" => Covers(Part(v), viewer)
             /\ viewer.level # "gm" =>
                (Covers(Part(v), viewer) <=> v = Nil \/ VisClause(v, owned, owner, kinded, kind, viewer))
  <2>1. Part(v) \in Audience
    BY StoredIsAudience, NamedAudiences DEF Owners
  <2>2. ASSUME viewer.level = "gm" PROVE Covers(Part(v), viewer)
    <3>1. Part(v).level \in Level
      BY <2>1, AudienceShape
    <3> HIDE DEF Part
    <3> QED BY <2>2, <3>1 DEF Covers, Rank, Level
  <2>3. ASSUME viewer.level # "gm"
        PROVE  Covers(Part(v), viewer) <=> v = Nil \/ VisClause(v, owned, owner, kinded, kind, viewer)
    BY <1>2, <2>3, VisClauseAgrees
  <2> QED BY <2>1, <2>2, <2>3
<1>4. FieldAudience(always, none, public, vis, head, o, k) =
        IF none THEN (IF public THEN Public ELSE GM) ELSE IF always THEN GM ELSE Meet(Part(vis), Part(head))
  BY DEF FieldAudience
<1> HIDE DEF Part
<1>5. Covers(Meet(Part(vis), Part(head)), viewer) <=> Covers(Part(vis), viewer) /\ Covers(Part(head), viewer)
  BY <1>3, MeetIsConjunction
<1> HIDE DEF o, k
<1>6. CASE viewer.level = "gm"
  BY <1>2, <1>3, <1>4, <1>5, <1>6 DEF FieldClause, o, k
<1>7. CASE viewer.level # "gm"
  BY <1>2, <1>3, <1>4, <1>5, <1>7 DEF FieldClause, o, k
<1> QED BY <1>6, <1>7

\* A stored file: its sources and the user it was made for all let the viewer
\* through; a stale file, or one of an unregistered type, is GM.
THEOREM FileClauseAgrees ==
    ASSUME NEW stale \in BOOLEAN, NEW known \in BOOLEAN, NEW first \in Audience, NEW second \in Audience,
           NEW owner \in Owners, NEW viewer \in Audience
    PROVE  FileClause(stale, known, Covers(first, viewer), Covers(second, viewer), owner, viewer)
           <=> Covers(FileAudience(stale, known, first, second, owner), viewer)
<1> DEFINE for == IF owner = Nil THEN Public ELSE Owner(owner)
<1>1. viewer.level \in Level /\ first.level \in Level /\ second.level \in Level
  BY AudienceShape
<1>2. owner # Nil => owner \in User
  BY DEF Owners
<1>3. for \in Audience
  BY <1>2, NamedAudiences
<1>4. Covers(for, viewer) <=> viewer.level = "gm" \/ owner = Nil \/ (viewer.level = "owner" /\ owner = viewer.user)
  BY <1>1 DEF Covers, Public, Owner, Rank, Level
<1>5. Covers(GM, viewer) <=> viewer.level = "gm"
  BY <1>1 DEF Covers, GM, Rank, Level
<1>6. viewer.level = "gm" => Covers(first, viewer) /\ Covers(second, viewer)
  BY <1>1 DEF Covers, Rank, Level
<1>7. FileAudience(stale, known, first, second, owner) =
        IF stale \/ ~known THEN GM ELSE Meet(Meet(first, second), for)
  BY DEF FileAudience
<1> HIDE DEF for
<1>8. Covers(Meet(Meet(first, second), for), viewer)
      <=> Covers(first, viewer) /\ Covers(second, viewer) /\ Covers(for, viewer)
  BY <1>3, MeetIsConjunction
<1> QED BY <1>4, <1>5, <1>6, <1>7, <1>8 DEF FileClause

\* Rows that are their owner's alone, and rows whose parent may be gone.
THEOREM OwnedClauseAgrees ==
    ASSUME NEW owner \in Owners, NEW viewer \in Audience
    PROVE  OwnedClause(owner, viewer) <=> Covers(OwnedAudience(owner), viewer)
<1>1. viewer.level \in Level /\ (viewer.level = "owner" => viewer.user \in User)
  BY AudienceShape
<1>2. CASE owner = Nil
  BY <1>1, <1>2 DEF OwnedClause, OwnedAudience, Equals, Covers, GM, Rank, Level
<1>3. CASE owner # Nil
  BY <1>1, <1>3 DEF OwnedClause, OwnedAudience, Equals, Covers, Owner, Rank, Level
<1> QED BY <1>2, <1>3

\* A row whose Audience is its parent's.
THEOREM LinkClauseAgrees ==
    ASSUME NEW parent \in Audience \cup {Nil}, NEW viewer \in Audience, NEW exists \in BOOLEAN,
           parent # Nil => (exists <=> Covers(parent, viewer))
    PROVE  LinkClause(parent, exists, viewer) <=> Covers(LinkAudience(parent), viewer)
<1>1. viewer.level \in Level
  BY AudienceShape
<1>2. CASE parent = Nil
  BY <1>1, <1>2 DEF LinkClause, LinkAudience, Covers, GM, Rank, Level
<1>3. CASE parent # Nil
  BY <1>3 DEF LinkClause, LinkAudience
<1> QED BY <1>2, <1>3

-----------------------------------------------------------------------------
(* Projection: contexts. *)

\* A row a Mention points to has an Audience.
LEMMA TargetIsAudience ==
    ASSUME NEW target \in Target
    PROVE  TargetAudience(target) \in Audience
BY NamedAudiences DEF Target, TargetAudience

\* audience_ctx only narrows: a reduced context is one the constructor accepts,
\* writes nothing, and reads no row that the one it was made from does not.
THEOREM ReducedReadsLess ==
    ASSUME NEW ctx \in Context, WellFormed(ctx), NEW target \in Target, MayReduce(target, ctx),
           NEW row \in Audience
    PROVE  /\ WellFormed(Reduced(target, ctx))
           /\ ~MaySetVisibility(Reduced(target, ctx))
           /\ Covers(row, Reduced(target, ctx).audience) => Covers(row, ctx.audience)
<1>1. WellFormed(Reduced(target, ctx))
  BY AccessAssumption DEF WellFormed, Reduced, TargetAudience, Target
<1>2. ~MaySetVisibility(Reduced(target, ctx))
  BY DEF MaySetVisibility, Reduced
<1>3. TargetAudience(target) \in Audience /\ ctx.audience \in Audience
  BY TargetIsAudience DEF Context
<1>4. Covers(row, Reduced(target, ctx).audience) => Covers(row, ctx.audience)
  BY <1>3, CoversIsOrder DEF MayReduce, Reduced
<1> QED BY <1>1, <1>2, <1>4

\* The preview header never widens a context, and a GM who previews is let in
\* to read only: to no route that wants a GM, and with no method that writes.
THEOREM PreviewOnlyNarrows ==
    ASSUME NEW ctx \in Context, WellFormed(ctx), NEW preview \in BOOLEAN, NEW safe \in BOOLEAN,
           NEW min \in {"player", "gm", "owner"}, NEW row \in Audience
    PROVE  /\ Covers(row, NarrowForPreview(ctx, preview).audience) => Covers(row, ctx.audience)
           /\ Previews(ctx, preview) /\ Admitted(ctx, preview, safe, min)
              => safe /\ min = "player" /\ ~MaySetVisibility(NarrowForPreview(ctx, preview))
           /\ Admitted(ctx, FALSE, safe, "gm") => ctx.audience = GM
<1>1. MemberView \in Target
  BY DEF MemberView, Target
<1>2. CASE Previews(ctx, preview)
  <2>1. MayReduce(MemberView, ctx)
    BY <1>2 DEF Previews, WellFormed, MayReduce, MemberView, TargetAudience, Covers, Members, GM, Rank
  <2>2. NarrowForPreview(ctx, preview) = Reduced(MemberView, ctx)
    BY <1>2 DEF NarrowForPreview
  <2>3. Admitted(ctx, preview, safe, min) => safe /\ min = "player"
    <3> DEFINE r == Reduced(MemberView, ctx)
    <3>1. r.role = "player" /\ r.isOwner = FALSE
      BY DEF Reduced, MemberView
    <3>2. CASE min = "gm"
      <4>1. ~Meets(r, min)
        BY <3>1, <3>2 DEF Meets
      <4> QED BY <1>2, <2>2, <4>1 DEF Admitted
    <3>3. CASE min = "owner"
      <4>1. Meets(r, min) = r.isOwner
        BY <3>3 DEF Meets
      <4> QED BY <1>2, <2>2, <3>1, <4>1 DEF Admitted
    <3>4. CASE min = "player"
      BY <1>2, <3>4 DEF Admitted
    <3> QED BY <3>2, <3>3, <3>4
  <2>4. /\ ~MaySetVisibility(Reduced(MemberView, ctx))
        /\ Covers(row, Reduced(MemberView, ctx).audience) => Covers(row, ctx.audience)
    BY <1>1, <2>1, ReducedReadsLess
  <2>5. Admitted(ctx, FALSE, safe, "gm") => ctx.audience = GM
    BY <1>2 DEF Previews, WellFormed
  <2> QED BY <2>2, <2>3, <2>4, <2>5
<1>3. CASE ~Previews(ctx, preview)
  <2>1. NarrowForPreview(ctx, preview) = ctx
    BY <1>3 DEF NarrowForPreview
  <2>2. Admitted(ctx, FALSE, safe, "gm") => ctx.audience = GM
    BY DEF Admitted, NarrowForPreview, Previews, Meets, WellFormed
  <2> QED BY <1>3, <2>1, <2>2
<1> QED BY <1>2, <1>3

\* A list over several Campaigns selects a stored row exactly where the context
\* the row is then projected with may read it, in a preview too.
THEOREM SelectedAreReadable ==
    ASSUME NEW campaign \in Campaign, NEW user \in User, NEW roles \in [Campaign -> {"gm", "player"}],
           NEW preview \in BOOLEAN, NEW vis \in Vis, NEW owned \in BOOLEAN, NEW owner \in Owners,
           NEW kinded \in BOOLEAN, NEW kind \in Kind, NEW gone \in BOOLEAN
    PROVE  SelectedFrom(roles, preview, user, campaign, vis, owned, owner, kinded, kind, gone)
           <=> Covers(RowAudience(vis, IF owned THEN owner ELSE Nil, IF kinded THEN kind ELSE Nil, gone),
                      RoleCtx(campaign, user, roles[campaign], preview).audience)
<1> DEFINE audience == RoleCtx(campaign, user, roles[campaign], preview).audience
           clause(viewer) == StoredClause(vis, owned, owner, kinded, kind, gone, viewer)
<1>1. roles[campaign] \in {"gm", "player"}
  OBVIOUS
<1>2. audience = CASE roles[campaign] = "player" -> Owner(user)
                   [] roles[campaign] = "gm"     -> IF preview THEN Members ELSE GM
  BY <1>1 DEF RoleCtx, NarrowForPreview, Previews, CtxFor, StoredRole, CtxAudience, Reduced, MemberView,
     TargetAudience
<1>3. audience \in Audience
  BY <1>1, <1>2, NamedAudiences
<1>4. clause(GM)
  BY DEF StoredClause, GM
<1>5. SelectedFrom(roles, preview, user, campaign, vis, owned, owner, kinded, kind, gone) <=> clause(audience)
  BY <1>1, <1>2, <1>4 DEF SelectedFrom
<1> QED BY <1>3, <1>5, StoredClauseAgrees

\* A Mention is read by whoever reads its entry and its Entity, unless it comes
\* of an always-GM field; its clause says the same of the two EXISTS.
THEOREM MentionClauseAgrees ==
    ASSUME NEW entry \in Audience, NEW entity \in Audience, NEW always \in BOOLEAN, NEW floor \in Vis,
           NEW viewer \in Audience
    PROVE  /\ SourcedClause(Covers(entry, viewer), always, viewer) <=> Covers(FieldSourced(entry, always), viewer)
           /\ MentionClause(Covers(entry, viewer), Covers(entity, viewer), always, floor, viewer)
              <=> Covers(MentionAudience(entry, entity, always, floor), viewer)
<1> DEFINE field == IF always THEN GM ELSE Public
<1>1. field \in Audience /\ (Covers(field, viewer) <=> viewer.level = "gm" \/ ~always)
  BY AudienceShape, NamedAudiences DEF Covers, GM, Public, Rank, Level
<1>2. FieldSourced(entry, always) = Meet(entry, field)
  BY DEF FieldSourced
<1> HIDE DEF field
<1>3. /\ FieldSourced(entry, always) \in Audience
      /\ SourcedClause(Covers(entry, viewer), always, viewer) <=> Covers(FieldSourced(entry, always), viewer)
  BY <1>1, <1>2, MeetIsConjunction DEF SourcedClause
<1>4. /\ Meet(FieldSourced(entry, always), entity) \in Audience
      /\ Covers(Meet(FieldSourced(entry, always), entity), viewer)
         <=> Covers(FieldSourced(entry, always), viewer) /\ Covers(entity, viewer)
  BY <1>3, MeetIsConjunction
<1>5. FloorAudience(floor) \in Audience /\ (FloorClause(floor, viewer) <=> Covers(FloorAudience(floor), viewer))
  BY FloorClauseAgrees
<1>6. Covers(MentionAudience(entry, entity, always, floor), viewer)
      <=> Covers(Meet(FieldSourced(entry, always), entity), viewer) /\ Covers(FloorAudience(floor), viewer)
  BY <1>4, <1>5, MeetIsConjunction DEF MentionAudience
<1> QED BY <1>3, <1>4, <1>5, <1>6 DEF MentionClause

\* A tag served with an entry is one the list of the Campaign's tags has too:
\* the links' Python rule and the clause through journal_tags admit the same.
THEOREM EntryTagsAreListed ==
    ASSUME NEW ctx \in Context, WellFormed(ctx), NEW entries, NEW e \in entries,
           e.audience \in Audience, NEW tag \in DOMAIN e.links, e.links[tag] \in TagLink,
           Served(e.campaign, e.audience, ctx), tag \in EntryTags(e.audience, e.links, ctx)
    PROVE  TagListed(tag, entries, ctx)
<1>1. ctx.audience \in Audience /\ (ctx.role = "gm" => ctx.audience.level = "gm")
  BY DEF Context, WellFormed, GM
<1>2. e.links[tag].linked /\ e.links[tag].always \in BOOLEAN
  BY DEF EntryTags, TagLink
<1>3. Nil \in Vis
  BY DEF Vis
<1>4. SourcedClause(Covers(e.audience, ctx.audience), e.links[tag].always, ctx.audience)
      <=> Covers(FieldSourced(e.audience, e.links[tag].always), ctx.audience)
  BY <1>1, <1>2, <1>3, MentionClauseAgrees
<1>5. SourcedClause(Covers(e.audience, ctx.audience), e.links[tag].always, ctx.audience)
  <2>1. CASE ctx.role = "gm"
    BY <1>1, <2>1 DEF SourcedClause, Served
  <2>2. CASE ctx.role # "gm"
    BY <1>4, <2>2 DEF EntryTags
  <2> QED BY <2>1, <2>2
<1> QED BY <1>2, <1>5 DEF TagListed, Selected, Served, SourcedClause

\* Of the two checks before a file is opened, neither refuses what the other
\* lets through: file_visibility_mismatch is never logged.
THEOREM FileChecksAgree ==
    ASSUME NEW ctx \in Context, NEW stale \in BOOLEAN, NEW known \in BOOLEAN, NEW first \in Audience,
           NEW second \in Audience, NEW owner \in Owners
    PROVE  FileServed(stale, known, first, second, owner, ctx)
           <=> FileClause(stale, known, Covers(first, ctx.audience), Covers(second, ctx.audience), owner,
                          ctx.audience)
<1>1. ctx.audience \in Audience
  BY DEF Context
<1> QED BY <1>1, FileClauseAgrees DEF FileServed

\* What is served to whoever has the link, every Member may read: a row, a
\* citation, a part of an Entity.
THEOREM PublicIsForAll ==
    ASSUME NEW campaign \in Campaign, NEW ctx \in Context, ctx.campaign = campaign, NEW audience \in Audience
    PROVE  /\ WellFormed(ShareCtx(campaign)) /\ ~MaySetVisibility(ShareCtx(campaign))
           /\ Served(campaign, audience, ShareCtx(campaign)) => Served(campaign, audience, ctx)
<1>1. ctx.audience \in Audience /\ Public \in Audience
  BY NamedAudiences DEF Context
<1>2. Covers(Public, ctx.audience)
  BY <1>1, AudienceShape DEF Covers, Public, Rank, Level
<1>3. Covers(audience, Public) => Covers(audience, ctx.audience)
  BY <1>1, <1>2, CoversIsOrder
<1> QED BY <1>3, AccessAssumption DEF WellFormed, MaySetVisibility, ShareCtx, Served

-----------------------------------------------------------------------------
(* Projection: Entities, their history, citations. *)

\* The Entity as it would be if what the viewer may not see, by the registry's
\* rule, had never been set, and nothing of it were hidden.
Unset(e, viewer) ==
    [status      |-> IF FieldSeen(e, "status", viewer) THEN e.status ELSE DefaultStatus,
     description |-> IF FieldSeen(e, "description", viewer) THEN e.description ELSE Nil,
     attributes  |-> [k \in Attribute |->
        IF KeySeen(e, k, viewer) /\ (k = Stamp => FieldSeen(e, "status", viewer)) THEN e.attributes[k] ELSE Nil],
     notes |-> Nil, owner |-> e.owner,
     hide |-> [f \in Field |-> Nil], hideKey |-> [k \in Attribute |-> Nil]]

\* A reader is shown a part of an Entity exactly when nothing hides it from that
\* reader (access/projection.py and the registry's parent_field_audience).
LEMMA SeenIsNotHidden ==
    ASSUME NEW e \in Entity, NEW viewer \in Audience
    PROVE  /\ \A f \in Field : FieldSeen(e, f, viewer) <=> ~Hides(e.hide[f], e, viewer)
           /\ \A k \in Attribute : KeySeen(e, k, viewer)
                <=> ~Hides(e.hideKey[k], e, viewer) /\ ~Hides(e.hide["attributes"], e, viewer)
<1>1. Covers(Public, viewer) /\ Public \in Audience
  BY AudienceShape, NamedAudiences DEF Covers, Public, Rank, Level
<1> DEFINE part(vis) == IF vis = Nil THEN Public ELSE StoredAudience(vis, e.owner, Nil)
<1>2. ASSUME NEW vis \in Hiding
      PROVE  part(vis) \in Audience /\ (Covers(part(vis), viewer) <=> ~Hides(vis, e, viewer))
  BY <1>1, StoredIsAudience DEF Hides, Hiding, Entity, Owners, Vis
<1>3. ASSUME NEW vis \in Hiding, NEW head \in Hiding
      PROVE  Covers(FieldAudience(FALSE, FALSE, FALSE, vis, head, e.owner, Nil), viewer)
             <=> ~Hides(vis, e, viewer) /\ ~Hides(head, e, viewer)
  <2>1. FieldAudience(FALSE, FALSE, FALSE, vis, head, e.owner, Nil) = Meet(part(vis), part(head))
    BY DEF FieldAudience
  <2> HIDE DEF part
  <2> QED BY <1>2, <2>1, MeetIsConjunction
<1>4. /\ \A f \in Field : e.hide[f] \in Hiding
      /\ \A k \in Attribute : e.hideKey[k] \in Hiding
      /\ "attributes" \in Field
  BY DEF Entity, Field
<1> QED BY <1>3, <1>4 DEF FieldSeen, KeySeen

\* A reader cannot tell a hidden field from one that was never set: what is
\* served is what the Entity without it would be served as.  The projection and
\* the registry's rule for a field are two pieces of code.
THEOREM HiddenLooksUnset ==
    ASSUME NEW e \in Entity, NEW viewer \in Audience
    PROVE  PartyView(e, viewer) = PartyView(Unset(e, viewer), viewer)
<1> DEFINE u == Unset(e, viewer)
<1>1. /\ \A f \in Field : ~Hides(u.hide[f], u, viewer)
      /\ \A k \in Attribute : ~Hides(u.hideKey[k], u, viewer)
  BY DEF Unset, Hides
<1>2. "status" \in Field /\ "description" \in Field /\ "attributes" \in Field
  BY DEF Field
<1>3. PartyView(u, viewer) = [status |-> u.status, description |-> u.description,
                              attributes |-> [k \in Attribute |-> u.attributes[k]]]
  BY <1>1, <1>2 DEF PartyView
<1>4. PartyView(e, viewer).status = u.status /\ PartyView(e, viewer).description = u.description
  BY <1>2, SeenIsNotHidden DEF PartyView, Unset
<1>5. PartyView(e, viewer).attributes = [k \in Attribute |-> u.attributes[k]]
  BY <1>2, SeenIsNotHidden DEF PartyView, Unset
<1> QED BY <1>3, <1>4, <1>5 DEF PartyView

\* The history shows a non-GM nothing that the Entity hides from them now: of a
\* row that records a present value, either nothing or what the Entity shows.
THEOREM HistoryShowsNoMore ==
    ASSUME NEW e \in Entity, NEW viewer \in Audience, viewer.level # "gm", NEW row \in History,
           NEW loaded \in BOOLEAN,
           Stamp \in Attribute, RowSeen(row, e, viewer), row.stamp = e.attributes[Stamp]
    PROVE  LET view == HistoryView(row, e, loaded, viewer)  party == PartyView(e, viewer)
           IN  /\ view.journal = Nil
               /\ row.key = Nil /\ row.field = "status" =>
                     /\ row.value = e.status => view.value \in {Nil, party.status}
                     /\ view.stamp \in {Nil, party.attributes[Stamp]}
               /\ row.key = Nil /\ row.field = "description" /\ row.value = e.description =>
                     view.value \in {Nil, party.description}
               /\ row.key # Nil /\ row.value = e.attributes[row.key] =>
                     view.value \in {Nil, party.attributes[row.key]}
<1> DEFINE view == HistoryView(row, e, loaded, viewer)
           party == PartyView(e, viewer)
<1>1. /\ \A f \in Field : FieldSeen(e, f, viewer) <=> ~Hides(e.hide[f], e, viewer)
      /\ \A k \in Attribute : KeySeen(e, k, viewer)
           <=> ~Hides(e.hideKey[k], e, viewer) /\ ~Hides(e.hide["attributes"], e, viewer)
  BY SeenIsNotHidden
<1>2. "status" \in Field /\ "description" \in Field
  BY DEF Field
<1>3. /\ Stamp \in KeysHidden(e, loaded, viewer) \/ KeySeen(e, Stamp, viewer)
      /\ "journal_id" \in KeysHidden(e, loaded, viewer)
  BY DEF KeysHidden, Stamp
<1>4. /\ view.journal = Nil
      /\ view.value \in {Nil, row.value} /\ view.stamp \in {Nil, row.stamp}
      /\ ~KeySeen(e, Stamp, viewer) => view.stamp = Nil
      /\ row.key = Stamp /\ ~FieldSeen(e, "status", viewer) => view.value = Nil /\ view.stamp = Nil
  BY <1>3 DEF HistoryView, ValuesHidden
<1> HIDE DEF view
<1>5. ASSUME row.key = Nil, row.field = "status"
      PROVE  /\ row.value = e.status => view.value \in {Nil, party.status}
             /\ view.stamp \in {Nil, party.attributes[Stamp]}
  BY <1>1, <1>2, <1>4, <1>5 DEF RowSeen, PartyView
<1>6. ASSUME row.key = Nil, row.field = "description", row.value = e.description
      PROVE  view.value \in {Nil, party.description}
  BY <1>1, <1>2, <1>4, <1>6 DEF RowSeen, PartyView
<1>7. ASSUME row.key # Nil, row.value = e.attributes[row.key]
      PROVE  view.value \in {Nil, party.attributes[row.key]}
  <2>1. row.key \in Attribute
    BY <1>7 DEF History
  <2> QED BY <1>1, <1>2, <1>4, <1>7, <2>1 DEF RowSeen, PartyView
<1> QED BY <1>4, <1>5, <1>6, <1>7 DEF view

\* An Entity as a reduced context is served it has, field by field, what the
\* context it was made from is served, or what an unset field has: and no notes.
THEOREM ReducedIsServedNoMore ==
    ASSUME NEW ctx \in Context, WellFormed(ctx), NEW target \in Target, MayReduce(target, ctx),
           NEW e \in Entity, NEW campaign \in Campaign, NEW audience \in Audience,
           Served(campaign, audience, Reduced(target, ctx))
    PROVE  LET narrow == ProjectEntity(e, campaign, audience, Reduced(target, ctx))
               wide   == ProjectEntity(e, campaign, audience, ctx)
           IN  /\ Served(campaign, audience, ctx)
               /\ narrow.notes = Nil
               /\ narrow.shown.status \in {DefaultStatus, wide.shown.status}
               /\ narrow.shown.description \in {Nil, wide.shown.description}
               /\ \A k \in Attribute : narrow.shown.attributes[k] \in {Nil, wide.shown.attributes[k]}
<1> DEFINE by     == Reduced(target, ctx)
           narrow == ProjectEntity(e, campaign, audience, by)
           wide   == ProjectEntity(e, campaign, audience, ctx)
<1>1. /\ by.role # "gm" /\ by.campaign = ctx.campaign /\ by.audience = TargetAudience(target)
      /\ by.audience \in Audience /\ ctx.audience \in Audience /\ Covers(by.audience, ctx.audience)
  BY TargetIsAudience DEF Context, MayReduce, Reduced
<1> HIDE DEF by
<1>2. ASSUME NEW a \in Audience, Covers(a, by.audience) PROVE Covers(a, ctx.audience)
  BY <1>1, <1>2, CoversIsOrder
<1>3. Served(campaign, audience, ctx)
  BY <1>1, <1>2 DEF Served, by
<1>4. /\ narrow = [shown |-> PartyView(e, by.audience), notes |-> Nil]
      /\ wide.shown = PartyView(e, ctx.audience)
  BY <1>1, <1>3 DEF ProjectEntity, SchemaFor, by
<1> HIDE DEF narrow, wide
<1>5. ASSUME NEW vis \in Hiding, Hides(vis, e, ctx.audience) PROVE Hides(vis, e, by.audience)
  BY <1>2, <1>5, StoredIsAudience DEF Hides, Hiding, Entity, Owners, Vis
<1>6. /\ \A f \in Field : e.hide[f] \in Hiding
      /\ \A k \in Attribute : e.hideKey[k] \in Hiding
      /\ "status" \in Field /\ "description" \in Field /\ "attributes" \in Field
  BY DEF Entity, Field
<1>7. /\ narrow.shown.status \in {DefaultStatus, wide.shown.status}
      /\ narrow.shown.description \in {Nil, wide.shown.description}
  BY <1>4, <1>5, <1>6 DEF PartyView
<1>8. ASSUME NEW k \in Attribute PROVE narrow.shown.attributes[k] \in {Nil, wide.shown.attributes[k]}
  BY <1>4, <1>5, <1>6 DEF PartyView
<1> QED BY <1>3, <1>4, <1>7, <1>8 DEF narrow, wide, by

\* Who reads more reads every citation of who reads less.
LEMMA RefsSeenByMore ==
    ASSUME NEW wide \in Audience, NEW narrow \in Audience, Covers(narrow, wide),
           NEW ref \in Ref, RefSeen(ref, narrow)
    PROVE  RefSeen(ref, wide)
<1>1. narrow.level = "gm" => wide.level = "gm"
  BY AudienceShape DEF Covers, Rank, Level
<1>2. ref.row \in Audience /\ ref.vis \in Vis /\ ref.owner \in Owners
  BY DEF Ref, Hiding, Vis, Owners
<1>3. StoredAudience(ref.vis, ref.owner, ref.kind) \in Audience
  BY <1>2, StoredIsAudience
<1>4. \A a \in Audience : Covers(a, narrow) => Covers(a, wide)
  BY CoversIsOrder
<1> QED BY <1>1, <1>2, <1>3, <1>4 DEF RefSeen

\* Whoever reads less cites and replays less, and no message goes back into a
\* prompt that the reader would be shown redacted.
THEOREM NarrowerRepliesLess ==
    ASSUME NEW wide \in Audience, NEW narrow \in Audience, Covers(narrow, wide),
           NEW messages, \A m \in messages : m.refs = Nil \/ m.refs \subseteq Ref,
           NEW archived \in BOOLEAN
    PROVE  /\ Replayed(messages, archived, narrow) \subseteq Replayed(messages, archived, wide)
           /\ Replayed(messages, archived, narrow) \subseteq Redacted(messages, narrow)
<1>1. wide.level \in Level /\ narrow.level \in Level
  BY AudienceShape
<1>2. narrow.level = "gm" => wide.level = "gm"
  BY <1>1 DEF Covers, Rank, Level
<1>3. ASSUME NEW ref \in Ref, RefSeen(ref, narrow) PROVE RefSeen(ref, wide)
  BY <1>3, RefsSeenByMore
<1>4. Shown(messages, narrow) \subseteq Shown(messages, wide)
  BY <1>2, <1>3 DEF Shown, MessageShown
<1>5. Shown(messages, narrow) \subseteq Redacted(messages, narrow)
  BY DEF Shown, Redacted
<1> QED BY <1>4, <1>5 DEF Replayed

\* Roles after some GM Roles have become Player ones.
Demoted(less, roles) == \A c \in Campaign : less[c] = roles[c] \/ (roles[c] = "gm" /\ less[c] = "player")

\* A user who is made a Player somewhere opens no chat of his and is shown no
\* message in one without a Campaign that he was not before.  (Not so of one who
\* is removed: a Player nowhere is shown his old messages again.)
THEOREM DemotedChatsShowNoMore ==
    ASSUME NEW user \in User,
           NEW roles \in [Campaign -> {"gm", "player", Nil}], NEW less \in [Campaign -> {"gm", "player", Nil}],
           Demoted(less, roles), NEW session \in ChatSession,
           NEW cited, cited = Nil \/ cited \subseteq [ref : Ref, campaign : Campaign]
    PROVE  /\ ChatOpenFrom(session, less, user, FALSE) => ChatOpenFrom(session, roles, user, FALSE)
           /\ OwnMessageShown(cited, less, user, FALSE) => OwnMessageShown(cited, roles, user, FALSE)
<1> DEFINE was(c) == RoleCtx(c, user, roles[c], FALSE)
           is(c)  == RoleCtx(c, user, less[c], FALSE)
<1>1. PlayerNowhere(less) => PlayerNowhere(roles)
  BY DEF Demoted, PlayerNowhere
<1>2. HeldIn(less) = HeldIn(roles)
  BY AccessAssumption DEF Demoted, HeldIn, Kind
<1>3. ASSUME NEW c \in HeldIn(roles)
      PROVE  /\ is(c).user = user /\ was(c).user = user /\ is(c).campaign = c /\ was(c).campaign = c
             /\ is(c).role = "gm" => was(c).role = "gm"
             /\ is(c).audience \in Audience /\ was(c).audience \in Audience
             /\ Covers(is(c).audience, was(c).audience)
  <2>1. roles[c] \in {"gm", "player"} /\ less[c] \in {roles[c], "player"} /\ (roles[c] = "player" => less[c] = "player")
    BY DEF HeldIn, Demoted
  <2>2. \A r \in {"gm", "player"} :
          LET x == RoleCtx(c, user, r, FALSE)
          IN  x.user = user /\ x.campaign = c /\ x.role = r /\ x.audience = IF r = "gm" THEN GM ELSE Owner(user)
    BY DEF RoleCtx, NarrowForPreview, Previews, CtxFor, StoredRole, CtxAudience
  <2>3. GM \in Audience /\ Owner(user) \in Audience /\ Covers(Owner(user), GM) /\ Covers(GM, GM)
        /\ Covers(Owner(user), Owner(user))
    BY NamedAudiences, CoversIsOrder
  <2> QED BY <2>1, <2>2, <2>3
<1> HIDE DEF was, is
<1>4. ChatOpenFrom(session, less, user, FALSE) => ChatOpenFrom(session, roles, user, FALSE)
  BY <1>1, <1>2, <1>3 DEF ChatOpenFrom, ChatOpen, OwnedGet, was, is
<1>5. ASSUME NEW c \in HeldIn(roles), NEW ref \in Ref, RefSeen(ref, is(c).audience)
      PROVE  RefSeen(ref, was(c).audience)
  BY <1>3, <1>5, RefsSeenByMore
<1>6. ASSUME cited \subseteq [ref : Ref, campaign : Campaign], NEW x \in cited,
             RefSeenFrom(x.ref, x.campaign, less, user, FALSE)
      PROVE  RefSeenFrom(x.ref, x.campaign, roles, user, FALSE)
  BY <1>2, <1>5, <1>6 DEF RefSeenFrom, was, is
<1> QED BY <1>1, <1>4, <1>6 DEF OwnMessageShown

\* The list of a user's chats, which the database selects, and the check of one
\* chat in Python agree: what opens is listed, and what is listed opens, but for
\* the chats of a Campaign whose GM previews it.  A preview lists no more.
THEOREM ListedChatsOpen ==
    ASSUME NEW user \in User, NEW roles \in [Campaign -> {"gm", "player", Nil}],
           NEW session \in ChatSession, NEW preview \in BOOLEAN
    PROVE  /\ ChatReached(session, roles, user, preview, TRUE) => ChatListed(session, roles, user, preview)
           /\ /\ ChatListed(session, roles, user, preview)
              /\ preview => session.campaign = Nil \/ roles[session.campaign] = "player"
              => ChatReached(session, roles, user, preview, TRUE)
           /\ ChatListed(session, roles, user, preview) => ChatListed(session, roles, user, FALSE)
<1> DEFINE held == PreviewRoles(roles, preview)
           c == session.campaign
<1>1. user # Nil /\ Nil \notin {"gm", "player"}
  BY AccessAssumption DEF Kind
<1>2. session.campaign \in Campaign \cup {Nil} /\ session.archived \in BOOLEAN
  BY DEF ChatSession
<1>3. PreviewRoles(roles, FALSE) = roles
  BY DEF PreviewRoles
<1>4. HeldIn(held) = HeldIn(roles) /\ HeldIn(roles) \subseteq Campaign
  BY <1>1 DEF PreviewRoles, HeldIn
<1>5. ASSUME NEW d \in HeldIn(roles)
      PROVE  held[d] = IF preview THEN "player" ELSE roles[d]
  BY <1>4, <1>5 DEF PreviewRoles, HeldIn
<1>6. PlayerNowhere(held) => PlayerNowhere(roles)
  BY <1>1 DEF PreviewRoles, PlayerNowhere
<1>7. ASSUME NEW d \in HeldIn(roles)
      PROVE  /\ roles[d] \in {"gm", "player"}
             /\ RoleCtx(d, user, roles[d], preview).campaign = d
             /\ RoleCtx(d, user, roles[d], preview).user = IF preview /\ roles[d] = "gm" THEN Nil ELSE user
             /\ RoleCtx(d, user, roles[d], preview).role = IF preview /\ roles[d] = "gm" THEN "player" ELSE roles[d]
  <2>1. roles[d] \in {"gm", "player"}
    BY <1>7 DEF HeldIn
  <2> QED BY <2>1 DEF RoleCtx, NarrowForPreview, Previews, CtxFor, StoredRole, Reduced, MemberView
<1> HIDE DEF held
<1>8. CASE c = Nil
  <2>1. ChatReached(session, roles, user, preview, TRUE)
           <=> session.user = user /\ (session.archived => PlayerNowhere(held))
    BY <1>8 DEF ChatReached, ChatOpenFrom, OwnedGet, held
  <2>2. ChatListed(session, roles, user, preview)
           <=> session.user = user /\ (session.archived => PlayerNowhere(held))
    BY <1>8 DEF ChatListed, held
  <2>3. ChatListed(session, roles, user, FALSE)
           <=> session.user = user /\ (session.archived => PlayerNowhere(roles))
    BY <1>3, <1>8 DEF ChatListed
  <2> QED BY <1>6, <1>8, <2>1, <2>2, <2>3
<1>9. CASE c # Nil
  <2>1. ChatReached(session, roles, user, preview, TRUE)
           <=> c \in HeldIn(roles) /\ ChatOpen(session, RoleCtx(c, user, roles[c], preview))
    BY <1>9 DEF ChatReached, ChatOpenFrom
  <2>2. ChatListed(session, roles, user, preview)
           <=> session.user = user /\ c \in HeldIn(roles) /\ (session.archived => held[c] = "gm")
    BY <1>4, <1>9 DEF ChatListed, held
  <2>3. ChatListed(session, roles, user, FALSE)
           <=> session.user = user /\ c \in HeldIn(roles) /\ (session.archived => roles[c] = "gm")
    BY <1>3, <1>9 DEF ChatListed
  <2>4. c \in HeldIn(roles) =>
          (ChatOpen(session, RoleCtx(c, user, roles[c], preview))
             <=> /\ session.user = user /\ ~(preview /\ roles[c] = "gm")
                 /\ session.archived => roles[c] = "gm")
    BY <1>1, <1>7 DEF ChatOpen
  <2>5. CASE c \in HeldIn(roles)
    <3>1. roles[c] \in {"gm", "player"} /\ held[c] = IF preview THEN "player" ELSE roles[c]
      BY <1>5, <1>7, <2>5
    <3>2. session.archived => (held[c] = "gm" <=> (~preview /\ roles[c] = "gm"))
      BY <3>1
    <3> QED BY <1>2, <1>9, <2>1, <2>2, <2>3, <2>4, <2>5, <3>1, <3>2
  <2>6. CASE c \notin HeldIn(roles)
    BY <2>1, <2>2, <2>6
  <2> QED BY <2>5, <2>6
<1> QED BY <1>8, <1>9

-----------------------------------------------------------------------------
(* Canon: the rows a merge moves.                                          *)

\* The floor of a moved row lets through only viewers of the absorbed Entity.
LEMMA FloorCoversAbsorbed ==
    ASSUME NEW vis \in Visibility, NEW owner \in User \cup {Nil}, NEW floor \in Vis, NEW viewer \in Audience,
           Covers(FloorAudience(Floored(vis, floor)), viewer)
    PROVE  /\ Covers(StoredAudience(vis, owner, Nil), viewer)
           /\ Covers(FloorAudience(floor), viewer)
<1>1. viewer.level \in Level
  BY AudienceShape
<1>2. Nil # "party" /\ Nil # "private" /\ Nil # "gm"
  BY AccessAssumption DEF Visibility
<1>3. floor \in {"party", "private", "gm", Nil} /\ vis \in {"party", "private", "gm"}
  BY DEF Vis, Visibility
<1>4. ASSUME NEW f \in Vis
      PROVE  FloorAudience(f) = IF f \in {"party", Nil} THEN Public ELSE GM
  BY <1>2, <1>4 DEF FloorAudience, StoredAudience, Vis, Visibility
<1>5. Floored(vis, floor) \in Vis
  BY DEF Floored, Vis
<1>6. Covers(Public, viewer) /\ (Covers(GM, viewer) <=> viewer.level = "gm")
  BY <1>1 DEF Covers, Public, GM, Rank, Level
<1>7. CASE viewer.level = "gm"
  <2>1. StoredAudience(vis, owner, Nil) \in Audience /\ FloorAudience(floor) \in Audience
    BY StoredIsAudience, FloorClauseAgrees DEF Owners, Vis
  <2>2. StoredAudience(vis, owner, Nil).level \in Level /\ FloorAudience(floor).level \in Level
    BY <2>1, AudienceShape
  <2> QED BY <2>2, <1>7 DEF Covers, Rank, Level
<1>8. CASE viewer.level # "gm"
  <2>1. Floored(vis, floor) \in {"party", Nil}
    BY <1>4, <1>5, <1>6, <1>8
  <2>2. vis = "party" /\ floor \in {"party", Nil}
    BY <1>2, <1>3, <2>1 DEF Floored
  <2>3. StoredAudience(vis, owner, Nil) = Public
    BY <2>2 DEF StoredAudience
  <2> QED BY <1>4, <1>6, <2>2, <2>3
<1> QED BY <1>7, <1>8

\* An alias or a Mention a merge moves is read after it only by viewers who
\* could read it under the absorbed Entity.
THEOREM MovedRowNotWider ==
    ASSUME NEW vis \in Visibility, NEW owner \in User \cup {Nil}, NEW floor \in Vis, NEW survivor \in Audience,
           NEW viewer \in Audience,
           Covers(DerivedAudience(survivor, Floored(vis, floor)), viewer)
    PROVE  Covers(DerivedAudience(StoredAudience(vis, owner, Nil), floor), viewer)
<1>1. Floored(vis, floor) \in Vis
  BY DEF Floored, Vis
<1>2. StoredAudience(vis, owner, Nil) \in Audience
  BY StoredIsAudience DEF Owners, Vis
<1>3. FloorAudience(Floored(vis, floor)) \in Audience /\ FloorAudience(floor) \in Audience
  BY <1>1, FloorClauseAgrees
<1>4. Covers(FloorAudience(Floored(vis, floor)), viewer)
  BY <1>3, MeetIsConjunction DEF DerivedAudience
<1>5. Covers(StoredAudience(vis, owner, Nil), viewer) /\ Covers(FloorAudience(floor), viewer)
  BY <1>4, FloorCoversAbsorbed
<1> QED BY <1>2, <1>3, <1>5, MeetIsConjunction DEF DerivedAudience

\* So is an edge, whichever end was absorbed: Meet is blind to their order.
THEOREM MovedEdgeNotWider ==
    ASSUME NEW edgeVis \in Visibility, NEW vis \in Visibility, NEW owner \in User \cup {Nil}, NEW floor \in Vis,
           NEW survivor \in Audience, NEW other \in Audience, NEW viewer \in Audience
    PROVE  LET absorbed == StoredAudience(vis, owner, Nil) IN
           /\ Covers(EdgeAudience(edgeVis, Floored(vis, floor), survivor, other), viewer)
                 => Covers(EdgeAudience(edgeVis, floor, absorbed, other), viewer)
           /\ Covers(EdgeAudience(edgeVis, Floored(vis, floor), other, survivor), viewer)
                 => Covers(EdgeAudience(edgeVis, floor, other, absorbed), viewer)
<1> DEFINE absorbed == StoredAudience(vis, owner, Nil)
           own == StoredAudience(edgeVis, Nil, Nil)
<1>1. Floored(vis, floor) \in Vis
  BY DEF Floored, Vis
<1>2. absorbed \in Audience /\ own \in Audience
  BY StoredIsAudience DEF Owners, Vis
<1>3. FloorAudience(Floored(vis, floor)) \in Audience /\ FloorAudience(floor) \in Audience
  BY <1>1, FloorClauseAgrees
<1>4. Covers(FloorAudience(Floored(vis, floor)), viewer)
      => Covers(absorbed, viewer) /\ Covers(FloorAudience(floor), viewer)
  BY FloorCoversAbsorbed
<1> HIDE DEF absorbed, own
<1>5. ASSUME NEW f \in Audience, NEW a \in Audience, NEW b \in Audience
      PROVE  Covers(Meet(Meet(Meet(own, f), a), b), viewer)
             <=> Covers(own, viewer) /\ Covers(f, viewer) /\ Covers(a, viewer) /\ Covers(b, viewer)
  <2>1. Meet(own, f) \in Audience /\ (Covers(Meet(own, f), viewer) <=> Covers(own, viewer) /\ Covers(f, viewer))
    BY <1>2, MeetIsConjunction
  <2>2. /\ Meet(Meet(own, f), a) \in Audience
        /\ Covers(Meet(Meet(own, f), a), viewer) <=> Covers(Meet(own, f), viewer) /\ Covers(a, viewer)
    BY <2>1, MeetIsConjunction
  <2> QED BY <2>1, <2>2, MeetIsConjunction
<1>6. ASSUME NEW f, NEW a, NEW b
      PROVE  EdgeAudience(edgeVis, f, a, b) = Meet(Meet(Meet(own, FloorAudience(f)), a), b)
  BY DEF EdgeAudience, own
<1>7. /\ Covers(EdgeAudience(edgeVis, Floored(vis, floor), survivor, other), viewer)
         => Covers(EdgeAudience(edgeVis, floor, absorbed, other), viewer)
      /\ Covers(EdgeAudience(edgeVis, Floored(vis, floor), other, survivor), viewer)
         => Covers(EdgeAudience(edgeVis, floor, other, absorbed), viewer)
  BY <1>2, <1>3, <1>4, <1>5, <1>6
<1> QED BY <1>7 DEF absorbed
-----------------------------------------------------------------------------
(* A proposal's change is applied once                                     *)

\* The history row of a change is of its op and its proposal.
LEMMA EffectRow ==
    ASSUME NEW r
    PROVE  Effect(r).row.op = r.op /\ Effect(r).row.proposal = r.proposal
<1>1. \A x, cols : Change(r, x, cols).row.op = r.op /\ Change(r, x, cols).row.proposal = r.proposal
  BY DEF Change, Row
<1>2. \A x, row, shown : Addition(r, x, row, shown).row.op = r.op /\ Addition(r, x, row, shown).row.proposal = r.proposal
  BY DEF Addition, Row
<1>3. \A x : Removal(r, x).row.op = r.op /\ Removal(r, x).row.proposal = r.proposal
  BY DEF Removal, Row
<1>4. Created(r).row.op = r.op /\ Created(r).row.proposal = r.proposal
  BY DEF Created, Row
<1>5. Merged(r).row.op = r.op /\ Merged(r).row.proposal = r.proposal
  BY DEF Merged, Row
<1>6. Reverted(r).row.op = r.op /\ Reverted(r).row.proposal = r.proposal
  BY <1>1, <1>2, <1>3 DEF Reverted
<1>7. CASE r.op = "note"
  BY <1>7 DEF Effect, Row
<1>8. CASE r.op # "note"
  BY <1>1, <1>2, <1>3, <1>4, <1>5, <1>6, <1>8 DEF Effect
<1>9. QED
  BY <1>7, <1>8

\* What _repeat looks for is there whenever the history has the change already.
LEMMA SameIsRepeat ==
    ASSUME NEW r \in Requests, NEW i \in DOMAIN changes, SameChange(changes[i], Effect(r).row)
    PROVE  Repeats(r)
<1> DEFINE c == changes[i]
           row == Effect(r).row
<1>1. /\ row.op = r.op /\ row.proposal = r.proposal
      /\ c.proposal = r.proposal /\ c.op = r.op /\ r.proposal # Nil /\ r.op # "add_mention"
      /\ Payload(c) = Payload(row)
      /\ IF r.op = "create" THEN ~ChoosesId(r.proposal) ELSE c.entity = row.entity
  BY EffectRow DEF SameChange
<1>2. r.op = "create" => r.id = Nil
  BY <1>1 DEF ChoosesId
<1>3. r.op # "create" => row.entity = About(r)
  <2>1. \A x, cols : Change(r, x, cols).row.entity = About(r)
    BY DEF Change, Row
  <2>2. \A x, new, shown : Addition(r, x, new, shown).row.entity = About(r)
    BY DEF Addition, Row
  <2>3. \A x : Removal(r, x).row.entity = About(r)
    BY DEF Removal, Row
  <2>4. r.op = "merge" => Merged(r).row.entity = About(r)
    <3>1. Merged(r).row.entity = r.arg.survivor
      BY DEF Merged, Row
    <3>2. QED
      BY <3>1 DEF About
  <2>5. Reverted(r).row.entity = About(r)
    BY <2>1, <2>2, <2>3 DEF Reverted
  <2>6. CASE r.op = "note"
    <3>1. r.id \in Entities
      BY <2>6, CanonAssumption DEF Asked
    <3>2. About(r) = r.id
      BY <2>6, <3>1, CanonAssumption DEF About, Subject
    <3>3. QED
      BY <2>6, <3>2 DEF Effect, Row
  <2>7. CASE r.op \notin {"note", "create"}
    BY <2>1, <2>2, <2>3, <2>4, <2>5, <2>7 DEF Effect
  <2>8. QED
    BY <2>6, <2>7
<1>4. SamePayload(r, c) /\ (r.op = "set" => DOMAIN c.new = FieldOf(r))
  <2>1. CASE r.op = "create"
    <3>1. row = Created(r).row
      BY <2>1 DEF Effect
    <3>2. row.new.name = r.arg.name
      BY <3>1 DEF Created, Row, Only
    <3>3. QED
      BY <1>1, <2>1, <3>2 DEF Payload, SamePayload
  <2>2. CASE r.op = "set"
    <3> DEFINE cols == IF "status" \in DOMAIN r.arg
                       THEN [status |-> r.arg.status, stamp |-> Stamped(r.id, r.arg.status)] ELSE r.arg
    <3>1. row.new = cols
      BY <2>2 DEF Effect, Change, Row
    <3>2. DOMAIN r.arg \in {{"name"}, {"status"}, {"stamp"}}
      BY <2>2, CanonAssumption DEF Asked
    <3>3. DOMAIN cols = FieldOf(r) /\ \A f \in DOMAIN r.arg : f \in DOMAIN cols /\ cols[f] = r.arg[f]
      BY <3>2 DEF FieldOf
    <3>4. c.new = cols
      BY <1>1, <2>2, <3>1 DEF Payload
    <3>5. QED
      BY <2>2, <3>3, <3>4 DEF SamePayload
  <2>3. CASE r.op \in {"add_step", "note", "delete"}
    BY <2>3 DEF SamePayload
  <2>4. CASE r.op = "add_relationship"
    <3>1. row.new.dst = r.arg.target
      BY <2>4 DEF Effect, Addition, Row
    <3>2. QED
      BY <1>1, <2>4, <3>1 DEF Payload, SamePayload
  <2>5. CASE r.op = "revert"
    <3>1. Reverted(r).row.reverts = r.id
      <4>1. \A x, new : Change(r, x, new).row.reverts = r.id
        BY <2>5 DEF Change, Row
      <4>2. \A x, new, shown : Addition(r, x, new, shown).row.reverts = r.id
        BY <2>5 DEF Addition, Row
      <4>3. \A x : Removal(r, x).row.reverts = r.id
        BY <2>5 DEF Removal, Row
      <4>4. QED
        BY ONLY <4>1, <4>2, <4>3 DEF Reverted
    <3>2. row = Reverted(r).row
      BY <2>5 DEF Effect
    <3>3. QED
      BY <1>1, <2>5, <3>1, <3>2 DEF Payload, SamePayload
  <2>6. CASE r.op \in {"add_alias", "remove_alias"}
    <3>1. row.on = <<r.id, r.arg.key>>
      BY <2>6 DEF Effect, Addition, Removal, Row
    <3>2. QED
      BY <1>1, <2>6, <3>1 DEF Payload, SamePayload
  <2>7. CASE r.op \notin {"create", "set", "add_step", "note", "delete", "add_relationship", "revert", "add_alias", "remove_alias"}
    <3>1. row.on = r.id
      BY <1>1, <2>7 DEF Effect, Merged, Change, Addition, Removal, Row
    <3>2. QED
      BY <1>1, <2>7, <3>1 DEF Payload, SamePayload
  <2>8. QED
    BY <2>1, <2>2, <2>3, <2>4, <2>5, <2>6, <2>7
<1>5. QED
  BY <1>1, <1>2, <1>3, <1>4 DEF Repeats

\* LookupLocks is a sequence, so the proposal's lock is the first a change takes.
LEMMA ProposalIsFirst ==
    ASSUME NEW r, r.proposal # Nil
    PROVE  1 \in DOMAIN LockOrder(r) /\ LockOrder(r)[1] = r.proposal
<1> DEFINE c == changes[r.id]
           base == {r.id, r.arg.target, r.arg.survivor, c.entity, c.on, r.proposal}
           S == base \cup {world[x].src : x \in base} \cup {world[x].dst : x \in base}
                \cup {world[x].quest : x \in base} \cup {world[x].entity : x \in base}
<1>1. \A x \in base : RowLocks(x) \in Seq(S)
  <2> SUFFICES ASSUME NEW x \in base PROVE RowLocks(x) \in Seq(S)
    OBVIOUS
  <2> HIDE DEF base
  <2>1. x \in S /\ world[x].src \in S /\ world[x].dst \in S /\ world[x].quest \in S /\ world[x].entity \in S
    OBVIOUS
  <2> HIDE DEF S
  <2>2. QED
    BY <2>1 DEF RowLocks
<1>2. r.id \in base /\ r.arg.target \in base /\ r.arg.survivor \in base /\ c.entity \in base /\ c.on \in base
  OBVIOUS
<1> HIDE DEF base, S, c
<1>3. LookupLocks(r) \in Seq(S)
  BY <1>1, <1>2 DEF LookupLocks, c
<1>4. <<r.proposal>> \in Seq(S)
  BY DEF S, base
<1>5. LockOrder(r) = <<r.proposal>> \o LookupLocks(r)
  BY DEF LockOrder, ProposalLock
<1>6. QED
  BY <1>3, <1>4, <1>5, ConcatProperties

\* The history grows by a row at its end.
LEMMA HistoryGrows ==
    ASSUME changes \in Seq({changes[i] : i \in DOMAIN changes}), NEW c, changes' = Append(changes, c)
    PROVE  /\ DOMAIN changes' = DOMAIN changes \cup {Len(changes) + 1} /\ Len(changes) + 1 \notin DOMAIN changes
           /\ DOMAIN changes = 1..Len(changes) /\ Len(changes) \in Nat
           /\ changes'[Len(changes) + 1] = c
           /\ \A i \in DOMAIN changes : changes'[i] = changes[i]
           /\ changes' \in Seq({changes'[i] : i \in DOMAIN changes'})
<1> DEFINE S == {changes[i] : i \in DOMAIN changes} \cup {c}
<1>1. changes \in Seq(S) /\ c \in S
  BY SeqMonotonic
<1>2. /\ changes' \in Seq(S) /\ Len(changes') = Len(changes) + 1
      /\ \A i \in 1..Len(changes) : changes'[i] = changes[i]
      /\ changes'[Len(changes) + 1] = c
  BY <1>1, AppendProperties
<1>3. DOMAIN changes = 1..Len(changes) /\ Len(changes) \in Nat /\ DOMAIN changes' = 1..(Len(changes) + 1)
  BY <1>1, <1>2, LenProperties
<1>4. changes' \in Seq({changes'[i] : i \in DOMAIN changes'})
  BY <1>2, <1>3
<1>5. QED
  BY <1>2, <1>3, <1>4

\* Of what a session ends with, only its own place, plan and locks change.
LEMMA EndEnds ==
    ASSUME NEW s \in Session, End(s), ShapesOK
    PROVE  /\ pc' = [pc EXCEPT ![s] = "idle"]
           /\ \A t \in Session \ {s} : pc'[t] = pc[t] /\ req'[t] = req[t] /\ plan'[t] = plan[t]
           /\ \A x \in Id \cup Proposal, t \in Session \ {s} : locks[x] = t => locks'[x] = t
           /\ req' = [t \in Session |-> req'[t]] /\ plan' = [t \in Session |-> plan'[t]]
           /\ locks' \in [Id \cup Proposal -> Session \cup {Nil}]
           /\ \A x \in Id \cup Proposal : locks'[x] # s
           /\ \A x \in Id \cup Proposal, t \in Session : locks'[x] = t => locks[x] = t
<1>n. Nil \notin Session
  BY CanonAssumption
<1>1. locks' = [x \in Id \cup Proposal |-> IF locks[x] = s THEN Nil ELSE locks[x]]
  BY DEF End, Ends, ShapesOK
<1>2. /\ pc' = [pc EXCEPT ![s] = "idle"]
      /\ \A t \in Session \ {s} : pc'[t] = pc[t] /\ req'[t] = req[t] /\ plan'[t] = plan[t]
      /\ req' = [t \in Session |-> req'[t]] /\ plan' = [t \in Session |-> plan'[t]]
  BY DEF End, Ends, ShapesOK
<1>3. /\ locks' \in [Id \cup Proposal -> Session \cup {Nil}]
      /\ \A x \in Id \cup Proposal : locks'[x] # s
      /\ \A x \in Id \cup Proposal, t \in Session \ {s} : locks'[x] = t <=> locks[x] = t
  BY <1>n, <1>1 DEF ShapesOK
<1>4. QED
  BY <1>2, <1>3

\* The end of a transaction leaves well-formed states.
LEMMA EndKeepsShapes ==
    ASSUME NEW s \in Session, End(s), ShapesOK, UNCHANGED changes
    PROVE  ShapesOK'
<1>1. changes' \in Seq({changes'[i] : i \in DOMAIN changes'}) /\ pc' \in [Session -> {"idle", "lock", "flush"}]
  BY EndEnds DEF ShapesOK
<1>2. \A t \in Session : pc'[t] # "idle" => t # s /\ pc[t] # "idle" /\ req'[t] = req[t]
  BY EndEnds DEF ShapesOK
<1>3. \A t \in Session : pc'[t] # "idle" => req'[t] \in Requests
  BY <1>2 DEF ShapesOK
<1>4. \A t \in Session : pc'[t] = "idle" => t = s \/ pc[t] = "idle"
  BY EndEnds DEF ShapesOK
<1>5. \A t \in Session : pc'[t] = "idle" => \A x \in Id \cup Proposal : locks'[x] # t
  BY <1>4, EndEnds DEF ShapesOK
<1>6. QED
  BY <1>1, <1>3, <1>5, EndEnds DEF ShapesOK

\* A session goes from its handler to its flush, with the proposal's lock and
\* with a change the history does not have; or it stays where it was, and the
\* history grows by nothing but the row of a session that ends.
LEMMA AppliedStep == ShapesOK /\ ProposalsHeld /\ NotYetApplied /\ AppliedOnce /\ [Next]_vars => AppliedInv'
<1> SUFFICES ASSUME ShapesOK, ProposalsHeld, NotYetApplied, AppliedOnce, [Next]_vars PROVE AppliedInv'
  OBVIOUS
<1>n. Nil \notin Session
  BY CanonAssumption
<1>1. ASSUME NEW s \in Session, NEW r \in Requests, Begin(s, r) PROVE AppliedInv'
  <2>1. ShapesOK'
    BY <1>1 DEF Begin, ShapesOK
  <2>2. \A t \in Session : pc'[t] = "flush" => pc[t] = "flush"
    BY <1>1 DEF Begin, ShapesOK
  <2>3. UNCHANGED <<changes, plan, locks>>
    BY <1>1 DEF Begin
  <2>4. QED
    BY <2>1, <2>2, <2>3 DEF AppliedInv, ProposalsHeld, NotYetApplied, AppliedOnce, SameChange, Payload
<1>2. ASSUME NEW s \in Session, Lock(s) \/ FlushRow(s) PROVE AppliedInv'
  <2>1. PICK x : locks[x] = Nil /\ locks' = [locks EXCEPT ![x] = s]
    BY <1>2 DEF Lock, FlushRow
  <2>2. UNCHANGED <<changes, pc, req, plan>> /\ pc[s] # "idle"
    BY <1>2 DEF Lock, FlushRow
  <2>3. ShapesOK'
    <3>1. locks' \in [Id \cup Proposal -> Session \cup {Nil}] /\ \A y \in Id \cup Proposal : locks'[y] \in {locks[y], s}
      BY <2>1 DEF ShapesOK
    <3>2. \A t \in Session : pc'[t] = "idle" => t # s /\ pc[t] = "idle"
      BY <2>2
    <3>3. \A t \in Session : pc'[t] = "idle" => \A y \in Id \cup Proposal : locks'[y] # t
      BY <3>1, <3>2 DEF ShapesOK
    <3>4. QED
      BY <2>2, <3>1, <3>3 DEF ShapesOK
  <2>4. \A p \in Proposal, t \in Session : locks[p] = t => locks'[p] = t
    BY <1>n, <2>1 DEF ShapesOK
  <2>5. QED
    BY <2>2, <2>3, <2>4 DEF AppliedInv, ProposalsHeld, NotYetApplied, AppliedOnce, SameChange, Payload
\* The session's transaction is over and wrote nothing.
<1>e. ASSUME NEW s \in Session, End(s), UNCHANGED changes PROVE AppliedInv'
  <2>1. ShapesOK'
    BY <1>e, EndKeepsShapes
  <2>2. \A t \in Session : pc'[t] = "flush" => t # s /\ pc[t] = "flush"
    BY <1>e, EndEnds DEF ShapesOK
  <2>3. ProposalsHeld'
    BY <1>e, <2>2, EndEnds DEF ProposalsHeld
  <2>4. QED
    BY <1>e, <2>1, <2>2, <2>3, EndEnds DEF AppliedInv, NotYetApplied, AppliedOnce, SameChange, Payload
<1>3. ASSUME NEW s \in Session, Apply(s) PROVE AppliedInv'
  <2>1. CASE ~Applies(req[s])
    BY <1>3, <1>e, <2>1 DEF Apply
  <2>2. CASE Applies(req[s])
    <3>1. /\ plan' = [plan EXCEPT ![s] = Effect(req[s])] /\ pc' = [pc EXCEPT ![s] = "flush"]
          /\ UNCHANGED <<changes, req, locks>> /\ pc[s] = "lock" /\ Wanted(s) = {}
      BY <1>3, <2>2 DEF Apply
    <3>2. req[s] \in Requests /\ plan'[s] = Effect(req[s])
      BY <3>1 DEF ShapesOK
    <3>3. ~Repeats(req[s])
      BY <2>2 DEF Applies
    <3>4. req[s].proposal # Nil => req[s].proposal \in Proposal /\ locks[req[s].proposal] = s
      BY <3>1, <3>2, ProposalIsFirst, CanonAssumption DEF Wanted
    <3>5. plan'[s].row.proposal = req[s].proposal
      BY <3>2, EffectRow
    <3>6. \A i \in DOMAIN changes : ~SameChange(changes[i], plan'[s].row)
      BY <3>2, <3>3, SameIsRepeat
    <3>7. \A t \in Session \ {s} : pc'[t] = pc[t] /\ plan'[t] = plan[t]
      BY <3>1 DEF ShapesOK
    <3>8. ShapesOK'
      BY <3>1, <3>2 DEF ShapesOK
    <3>9. ProposalsHeld'
      BY <3>1, <3>4, <3>5, <3>7 DEF ProposalsHeld
    <3>10. NotYetApplied'
      BY <3>1, <3>6, <3>7 DEF NotYetApplied, SameChange, Payload
    <3>11. QED
      BY <3>1, <3>8, <3>9, <3>10 DEF AppliedInv, AppliedOnce, SameChange, Payload
  <2>3. QED
    BY <2>1, <2>2
<1>4. ASSUME NEW s \in Session, Commit(s) PROVE AppliedInv'
  <2>1. CASE UNCHANGED changes
    BY <1>4, <1>e, <2>1 DEF Commit
  <2>2. CASE ~UNCHANGED changes
    <3> DEFINE c == plan[s].row
               n == Len(changes) + 1
    <3>1. changes' = Append(changes, c) /\ End(s) /\ pc[s] = "flush"
      BY <1>4, <2>2 DEF Commit
    <3> HIDE DEF c
    <3>2. /\ DOMAIN changes' = DOMAIN changes \cup {n} /\ n \notin DOMAIN changes
          /\ DOMAIN changes = 1..Len(changes) /\ Len(changes) \in Nat
          /\ changes'[n] = c /\ \A i \in DOMAIN changes : changes'[i] = changes[i]
          /\ changes' \in Seq({changes'[i] : i \in DOMAIN changes'})
      BY <3>1, HistoryGrows DEF ShapesOK
    <3>3. \A t \in Session : pc'[t] = "flush" => t # s /\ pc[t] = "flush" /\ plan'[t] = plan[t]
      BY <3>1, EndEnds DEF ShapesOK
    <3>4. ShapesOK'
      <4>1. pc' \in [Session -> {"idle", "lock", "flush"}] /\ \A t \in Session \ {s} : pc'[t] = pc[t] /\ req'[t] = req[t]
        BY <3>1, EndEnds DEF ShapesOK
      <4>2. pc'[s] = "idle" /\ \A x \in Id \cup Proposal : locks'[x] # s
        BY <3>1, EndEnds DEF ShapesOK
      <4>3. \A t \in Session \ {s} : pc[t] = "idle" => \A x \in Id \cup Proposal : locks'[x] # t
        BY <3>1, EndEnds DEF ShapesOK
      <4>4. \A t \in Session : pc'[t] # "idle" => req'[t] \in Requests
        BY <4>1, <4>2 DEF ShapesOK
      <4>5. \A t \in Session : pc'[t] = "idle" => \A x \in Id \cup Proposal : locks'[x] # t
        BY <4>1, <4>2, <4>3
      <4>6. QED
        BY <3>1, <3>2, <4>1, <4>4, <4>5, EndEnds DEF ShapesOK
    <3>5. ProposalsHeld'
      BY <3>1, <3>3, EndEnds DEF ProposalsHeld
    <3>6. ASSUME NEW t \in Session, pc'[t] = "flush" PROVE ~SameChange(c, plan[t].row)
      <4>1. SUFFICES ASSUME c.proposal # Nil, c.proposal = plan[t].row.proposal PROVE FALSE
        BY DEF SameChange
      <4>2. locks[c.proposal] = s /\ locks[c.proposal] = t
        BY <3>1, <3>3, <3>6, <4>1 DEF ProposalsHeld, c
      <4>3. QED
        BY <3>3, <3>6, <4>2
    <3>7. NotYetApplied'
      <4> SUFFICES ASSUME NEW t \in Session, pc'[t] = "flush", NEW i \in DOMAIN changes'
                   PROVE  ~SameChange(changes'[i], plan'[t].row)
        BY DEF NotYetApplied, SameChange, Payload
      <4>1. QED
        BY <3>2, <3>3, <3>6 DEF NotYetApplied
    <3>8. AppliedOnce'
      <4>1. \A i \in DOMAIN changes : ~SameChange(changes[i], c)
        BY <3>1 DEF NotYetApplied, c
      <4> SUFFICES ASSUME NEW i \in DOMAIN changes', NEW j \in DOMAIN changes', i < j
                   PROVE  ~SameChange(changes'[i], changes'[j])
        BY DEF AppliedOnce, SameChange, Payload
      <4>2. i \in DOMAIN changes
        BY <3>2
      <4>3. QED
        BY <3>2, <4>1, <4>2 DEF AppliedOnce
    <3>9. QED
      BY <3>4, <3>5, <3>7, <3>8 DEF AppliedInv
  <2>3. QED
    BY <2>1, <2>2
<1>5. ASSUME NEW s \in Session, RollBack(s) PROVE AppliedInv'
  BY <1>5, <1>e DEF RollBack
<1>6. CASE UNCHANGED vars
  BY <1>6 DEF vars, AppliedInv, ShapesOK, ProposalsHeld, NotYetApplied, AppliedOnce, SameChange, Payload
<1>7. QED
  BY <1>1, <1>2, <1>3, <1>4, <1>5, <1>6 DEF Next

\* From the look at the history to the commit, a change holds its proposal's lock.
LEMMA AppliedHolds == Spec => []AppliedInv
<1>1. Init => AppliedInv
  <2> SUFFICES ASSUME Init PROVE AppliedInv
    OBVIOUS
  <2>1. DOMAIN changes = {} /\ changes \in Seq({changes[i] : i \in DOMAIN changes})
    BY DEF Init
  <2>2. QED
    BY <2>1, CanonAssumption DEF Init, AppliedInv, ShapesOK, ProposalsHeld, NotYetApplied, AppliedOnce
<1>2. AppliedInv /\ [Next]_vars => AppliedInv'
  BY AppliedStep DEF AppliedInv
<1>3. QED
  BY <1>1, <1>2, PTL DEF Spec

\* No two history rows are of the same proposal, op, Entity, field and payload,
\* however many sessions apply the proposal at once: apply_change's advisory
\* lock is held from before _repeat's look until the commit.
THEOREM AppliedOnceHolds == Spec => []AppliedOnce
<1>1. AppliedInv => AppliedOnce
  BY DEF AppliedInv
<1>2. QED
  BY <1>1, AppliedHolds, PTL

-----------------------------------------------------------------------------
(* The steps of Canon, as the tables and the other sessions see them       *)

\* A step that writes nothing: no session begins its flush, and those in it
\* keep their plans and locks.
Quiet ==
    /\ UNCHANGED <<world, changes>>
    /\ \A t \in Session : pc'[t] = "flush" => pc[t] = "flush" /\ plan'[t] = plan[t] /\ req'[t] = req[t]
    /\ \A t \in Session, x \in Id \cup Proposal : pc'[t] = "flush" /\ locks[x] = t => locks'[x] = t

\* s has locked what it looks up, and its change applies.
Ready(s) == /\ pc[s] = "lock" /\ Wanted(s) = {} /\ req[s] \in Requests
            /\ Applies(req[s]) /\ IdsLeft(req[s])
Plans(s) ==
    /\ Ready(s)
    /\ UNCHANGED <<world, changes, locks, req>>
    /\ \A t \in Session : pc'[t] = "flush" => t = s \/ (pc[t] = "flush" /\ plan'[t] = plan[t])
    /\ plan'[s] = Effect(req[s])

Commits(s) ==
    /\ pc[s] = "flush" /\ ~Conflicts(plan[s].writes)
    /\ \A x \in DOMAIN plan[s].writes : locks[x] = s
    /\ world' = After(plan[s].writes)
    /\ changes' = Append(changes, plan[s].row)
    /\ \A t \in Session : pc'[t] = "flush" => t # s /\ pc[t] = "flush" /\ plan'[t] = plan[t] /\ req'[t] = req[t]
    /\ \A t \in Session, x \in Id \cup Proposal : pc'[t] = "flush" /\ locks[x] = t => locks'[x] = t

\* Of every step, the tables and the other sessions see one of these three.
LEMMA StepIs ==
    ASSUME ShapesOK, [Next]_vars
    PROVE  Quiet \/ \E s \in Session : Plans(s) \/ Commits(s)
<1>n. Nil \notin Session
  BY CanonAssumption
<1>1. ASSUME NEW s \in Session, NEW r \in Requests, Begin(s, r) PROVE Quiet
  BY <1>1 DEF Begin, Quiet, ShapesOK
<1>2. ASSUME NEW s \in Session, Lock(s) \/ FlushRow(s) PROVE Quiet
  <2>1. PICK x : locks[x] = Nil /\ locks' = [locks EXCEPT ![x] = s]
    BY <1>2 DEF Lock, FlushRow
  <2>2. UNCHANGED <<world, changes, pc, req, plan>>
    BY <1>2 DEF Lock, FlushRow
  <2>3. \A t \in Session, y \in Id \cup Proposal : locks[y] = t => locks'[y] = t
    BY <1>n, <2>1 DEF ShapesOK
  <2>4. QED
    BY <2>2, <2>3 DEF Quiet
<1>e. ASSUME NEW s \in Session, End(s)
      PROVE  /\ \A t \in Session : pc'[t] = "flush" => t # s /\ pc[t] = "flush" /\ plan'[t] = plan[t] /\ req'[t] = req[t]
             /\ \A t \in Session, x \in Id \cup Proposal : pc'[t] = "flush" /\ locks[x] = t => locks'[x] = t
  <2>1. \A t \in Session : pc'[t] = "flush" => t # s /\ pc[t] = "flush"
    BY <1>e, EndEnds DEF ShapesOK
  <2>2. QED
    BY <1>e, <2>1, EndEnds
<1>3. ASSUME NEW s \in Session, Apply(s) PROVE Quiet \/ Plans(s)
  <2>1. CASE ~Applies(req[s])
    BY <1>3, <1>e, <2>1 DEF Apply, Quiet
  <2>2. CASE Applies(req[s])
    <3>1. /\ plan' = [plan EXCEPT ![s] = Effect(req[s])] /\ pc' = [pc EXCEPT ![s] = "flush"]
          /\ UNCHANGED <<world, changes, req, locks>> /\ pc[s] = "lock" /\ Wanted(s) = {} /\ IdsLeft(req[s])
      BY <1>3, <2>2 DEF Apply
    <3>2. req[s] \in Requests /\ plan'[s] = Effect(req[s])
      BY <3>1 DEF ShapesOK
    <3>3. \A t \in Session \ {s} : pc'[t] = pc[t] /\ plan'[t] = plan[t]
      BY <3>1 DEF ShapesOK
    <3>4. \A t \in Session : pc'[t] = "flush" => t = s \/ (pc[t] = "flush" /\ plan'[t] = plan[t])
      BY <3>3
    <3>5. Ready(s)
      BY <2>2, <3>1, <3>2 DEF Ready
    <3>6. QED
      BY <3>1, <3>2, <3>4, <3>5 DEF Plans
  <2>3. QED
    BY <2>1, <2>2
<1>4. ASSUME NEW s \in Session, Commit(s) PROVE Quiet \/ Commits(s)
  BY <1>4, <1>e DEF Commit, Quiet, Commits
<1>5. ASSUME NEW s \in Session, RollBack(s) PROVE Quiet
  BY <1>5, <1>e DEF RollBack, Quiet
<1>6. CASE UNCHANGED vars
  BY <1>6 DEF vars, Quiet
<1>7. QED
  BY <1>1, <1>2, <1>3, <1>4, <1>5, <1>6 DEF Next

-----------------------------------------------------------------------------
(* Rows and columns                                                        *)

\* An id is of one table, ...
LEMMA Kinds ==
    ASSUME NEW x \in Id
    PROVE  /\ x \in Entities => RowOf(x) = EntityRow /\ SetsOf(x) = EntitySets
           /\ x \in Edges => RowOf(x) = EdgeRow /\ SetsOf(x) = EdgeSets \cup EdgeMoves
           /\ x \in Steps => RowOf(x) = StepRow /\ SetsOf(x) = StepSets
           /\ x \in Mentions => RowOf(x) = MentionRow /\ SetsOf(x) = MentionSets
           /\ x \in Entities \X Key => RowOf(x) = AliasRow /\ SetsOf(x) = {}
BY CanonAssumption DEF RowOf, SetsOf

\* What is set in a row leaves it a row of its table.
LEMMA OverFits ==
    ASSUME NEW x \in Id, NEW row \in RowOf(x), NEW cols \in SetsOf(x)
    PROVE  Over(cols, row) \in RowOf(x)
<1>1. CASE x \in Entities
  <2>1. row \in EntityRow /\ cols \in EntitySets /\ RowOf(x) = EntityRow
    BY <1>1, Kinds
  <2>2. Over(cols, row) \in EntityRow
    BY <2>1 DEF EntityRow, EntitySets, FieldCols, Over
  <2>3. QED
    BY <2>1, <2>2
<1>2. CASE x \in Edges
  <2>1. row \in EdgeRow /\ cols \in EdgeSets \cup EdgeMoves /\ RowOf(x) = EdgeRow
    BY <1>2, Kinds
  <2>2. Over(cols, row) \in EdgeRow
    BY <2>1 DEF EdgeRow, EdgeSets, EdgeMoves, GmFloor, Floor, Over
  <2>3. QED
    BY <2>1, <2>2
<1>3. CASE x \in Steps
  <2>1. row \in StepRow /\ cols \in StepSets /\ RowOf(x) = StepRow
    BY <1>3, Kinds
  <2>2. Over(cols, row) \in StepRow
    BY <2>1 DEF StepRow, StepSets, Over
  <2>3. QED
    BY <2>1, <2>2
<1>4. CASE x \in Mentions
  <2>1. row \in MentionRow /\ cols \in MentionSets /\ RowOf(x) = MentionRow
    BY <1>4, Kinds
  <2>2. Over(cols, row) \in MentionRow
    BY <2>1 DEF MentionRow, MentionSets, GmFloor, Floor, Over
  <2>3. QED
    BY <2>1, <2>2
<1>5. CASE x \in Entities \X Key
  BY <1>5, Kinds
<1>6. QED
  BY <1>1, <1>2, <1>3, <1>4, <1>5 DEF Id

\* It names no Entity but those it sets and those the row named.
LEMMA OverRefs ==
    ASSUME NEW x, NEW row, NEW cols
    PROVE  Refs(x, Over(cols, row)) \subseteq Refs(x, cols) \cup Refs(x, row)
BY DEF Refs, Over

\* What a commit makes of the tables.
LEMMA CommitWrites ==
    ASSUME WorldOK, PlansOK, NEW s \in Session, Commits(s)
    PROVE  LET w == plan[s].writes IN
           /\ PlanOK(plan[s]) /\ DOMAIN world' = Id
           /\ \A x \in Id : x \notin DOMAIN w => world'[x] = world[x]
           /\ \A x \in DOMAIN w :
                 /\ x \in Id /\ locks[x] = s
                 /\ w[x].how = "insert" => ~Exists(x) /\ world'[x] = w[x].cols /\ world'[x] \in RowOf(x) /\ world'[x] # Nil
                 /\ w[x].how = "update" => /\ Exists(x) /\ world'[x] = Over(w[x].cols, world[x])
                                           /\ world'[x] \in RowOf(x) /\ world'[x] # Nil
                 /\ w[x].how = "delete" => world'[x] = Nil /\ x \notin Entities
                 /\ w[x].how \in {"insert", "update", "delete"}
           /\ \A e \in Entities : Exists(e) => world'[e] # Nil
<1> DEFINE w == plan[s].writes
<1>1. PlanOK(plan[s])
  BY DEF Commits, PlansOK
<1>2. DOMAIN w \subseteq Id /\ \A x \in DOMAIN w : WriteOK(x, w[x])
  BY <1>1 DEF PlanOK
<1>3. \A x \in DOMAIN w : (w[x].how = "insert" => ~Exists(x)) /\ (w[x].how = "update" => Exists(x))
  BY DEF Commits, Conflicts
<1>4. DOMAIN world' = Id /\ \A x \in Id : x \notin DOMAIN w => world'[x] = world[x]
  BY DEF Commits, After
<1>5. \A x \in DOMAIN w : w[x].how \in {"insert", "update", "delete"}
  BY <1>2 DEF WriteOK
<1>6. ASSUME NEW x \in DOMAIN w, w[x].how = "insert"
      PROVE  world'[x] = w[x].cols /\ world'[x] \in RowOf(x) /\ world'[x] # Nil
  <2>1. world'[x] = w[x].cols
    BY <1>2, <1>6 DEF Commits, After
  <2>2. w[x].cols \in RowOf(x)
    BY <1>2, <1>6 DEF WriteOK
  <2>3. QED
    BY <1>2, <2>1, <2>2, CanonAssumption
<1>7. ASSUME NEW x \in DOMAIN w, w[x].how = "update"
      PROVE  world'[x] = Over(w[x].cols, world[x]) /\ world'[x] \in RowOf(x) /\ world'[x] # Nil
  <2>1. world'[x] = Over(w[x].cols, world[x])
    BY <1>2, <1>7 DEF Commits, After
  <2>2. w[x].cols \in SetsOf(x) /\ world[x] \in RowOf(x)
    BY <1>2, <1>3, <1>7 DEF WriteOK, WorldOK
  <2>3. QED
    BY <1>2, <2>1, <2>2, OverFits, CanonAssumption
<1>8. ASSUME NEW x \in DOMAIN w, w[x].how = "delete" PROVE world'[x] = Nil /\ x \notin Entities
  BY <1>2, <1>8 DEF Commits, After, WriteOK
<1>9. \A e \in Entities : Exists(e) => world'[e] # Nil
  <2> SUFFICES ASSUME NEW e \in Entities, Exists(e) PROVE world'[e] # Nil
    OBVIOUS
  <2>1. CASE e \notin DOMAIN w
    BY <1>4, <2>1 DEF Exists, Id
  <2>2. CASE e \in DOMAIN w
    BY <1>5, <1>6, <1>7, <1>8, <2>2
  <2>3. QED
    BY <2>1, <2>2
<1>10. \A x \in DOMAIN w : x \in Id /\ locks[x] = s
  BY <1>2 DEF Commits
<1>11. QED
  BY <1>1, <1>3, <1>4, <1>5, <1>6, <1>7, <1>8, <1>9, <1>10

-----------------------------------------------------------------------------
(* What a change has locked                                                *)

\* s has the row and the Entities it hangs on.
Held(s, x) == Exists(x) => locks[x] = s /\ \A e \in Hosts(x) : locks[e] = s

HasAll(s, seq) == \A i \in DOMAIN seq : locks[seq[i]] = s

\* Who has locked what RowLocks names has the row and the Entities it hangs on.
LEMMA RowLocked ==
    ASSUME NEW s, NEW x, HasAll(s, RowLocks(x))
    PROVE  Held(s, x)
<1> SUFFICES ASSUME Exists(x) PROVE locks[x] = s /\ \A e \in Hosts(x) : locks[e] = s
  BY DEF Held
<1>1. CASE x \in Edges
  <2>1. RowLocks(x) = <<x, world[x].src, world[x].dst>>
    BY <1>1, CanonAssumption DEF RowLocks
  <2>2. Hosts(x) = {world[x].src, world[x].dst}
    BY <1>1, CanonAssumption DEF Hosts
  <2>3. QED
    BY <2>1, <2>2 DEF HasAll
<1>2. CASE x \notin Edges /\ x \in Steps
  <2>1. RowLocks(x) = <<x, world[x].quest>> /\ Hosts(x) = {world[x].quest}
    BY <1>2, CanonAssumption DEF RowLocks, Hosts
  <2>2. QED
    BY <2>1 DEF HasAll
<1>3. CASE x \notin Edges /\ x \notin Steps /\ x \in Mentions
  <2>1. RowLocks(x) = <<x, world[x].entity>> /\ Hosts(x) = {world[x].entity}
    BY <1>3 DEF RowLocks, Hosts
  <2>2. QED
    BY <2>1 DEF HasAll
<1>4. CASE x \notin Edges \cup Steps \cup Mentions
  <2>1. RowLocks(x) = <<x>> /\ Hosts(x) = {x}
    BY <1>4 DEF RowLocks, Hosts
  <2>2. QED
    BY <2>1 DEF HasAll
<1>5. QED
  BY <1>1, <1>2, <1>3, <1>4

\* The locks of a few rows are sequences over one set.
LEMMA RowLocksSeq == \A B : \E S : \A x \in B : RowLocks(x) \in Seq(S)
<1> SUFFICES ASSUME NEW B PROVE \E S : \A x \in B : RowLocks(x) \in Seq(S)
  OBVIOUS
<1> DEFINE S == B \cup {world[x].src : x \in B} \cup {world[x].dst : x \in B}
                \cup {world[x].quest : x \in B} \cup {world[x].entity : x \in B}
<1>1. ASSUME NEW x \in B PROVE RowLocks(x) \in Seq(S)
  <2>1. x \in S /\ world[x].src \in S /\ world[x].dst \in S /\ world[x].quest \in S /\ world[x].entity \in S
    OBVIOUS
  <2> HIDE DEF S
  <2>2. QED
    BY <2>1 DEF RowLocks
<1>2. QED
  BY <1>1

\* Who has the locks of two lookups has those of each.
LEMMA HasBoth ==
    ASSUME NEW S, NEW A \in Seq(S), NEW B \in Seq(S), NEW s, HasAll(s, A \o B)
    PROVE  HasAll(s, A) /\ HasAll(s, B)
<1>1. /\ Len(A \o B) = Len(A) + Len(B)
      /\ \A i \in 1..Len(A) : (A \o B)[i] = A[i]
      /\ \A i \in 1..Len(B) : (A \o B)[Len(A) + i] = B[i]
  OBVIOUS
<1>2. DOMAIN A = 1..Len(A) /\ DOMAIN B = 1..Len(B) /\ DOMAIN (A \o B) = 1..(Len(A) + Len(B))
  BY <1>1
<1>3. Len(A) \in Nat /\ Len(B) \in Nat
  OBVIOUS
<1>4. ASSUME NEW i \in DOMAIN A PROVE locks[A[i]] = s
  BY <1>1, <1>2, <1>3 DEF HasAll
<1>5. ASSUME NEW i \in DOMAIN B PROVE locks[B[i]] = s
  <2>1. Len(A) + i \in DOMAIN (A \o B)
    BY <1>2, <1>3
  <2>2. QED
    BY <1>1, <1>2, <2>1 DEF HasAll
<1>6. QED
  BY <1>4, <1>5 DEF HasAll

Rereads == {"update_relationship", "end_relationship", "update_step", "confirm_mention"}

\* Each lookup of the change has its rows.
LEMMA LookedUp ==
    ASSUME NEW s \in Session, Wanted(s) = {}, NEW r, r = req[s]
    PROVE  /\ r.op \notin {"create", "revert"} => Held(s, r.id)
           /\ r.op = "add_relationship" => Held(s, r.arg.target)
           /\ r.op = "merge" => Held(s, r.arg.survivor)
           /\ r.op = "revert" => LET c == changes[r.id] IN Held(s, c.entity) /\ (c.op \in Rereads => Held(s, c.on))
<1> DEFINE c == changes[r.id]
           B == {r.id, r.arg.target, r.arg.survivor, c.entity, c.on}
<1>1. PICK T : \A x \in B : RowLocks(x) \in Seq(T)
  BY RowLocksSeq
<1> DEFINE S == T \cup {r.proposal}
<1>2. \A x \in B : RowLocks(x) \in Seq(S)
  BY <1>1, SeqMonotonic
<1>3. /\ RowLocks(r.id) \in Seq(S) /\ RowLocks(r.arg.target) \in Seq(S) /\ RowLocks(r.arg.survivor) \in Seq(S)
      /\ RowLocks(c.entity) \in Seq(S) /\ RowLocks(c.on) \in Seq(S)
  BY <1>2
<1>p. r.proposal \in S
  OBVIOUS
<1> HIDE DEF S, B
<1>5. << >> \in Seq(S)
  OBVIOUS
<1>4. ProposalLock(r) \in Seq(S)
  <2>1. <<r.proposal>> \in Seq(S)
    BY <1>p
  <2>2. QED
    BY <1>5, <2>1 DEF ProposalLock
<1>6. LookupLocks(r) \in Seq(S)
  BY <1>3, <1>5 DEF LookupLocks, c
<1>7. HasAll(s, LockOrder(r))
  BY DEF Wanted, HasAll
<1>8. HasAll(s, LookupLocks(r))
  BY <1>4, <1>6, <1>7, HasBoth DEF LockOrder
<1>9. CASE r.op = "add_relationship"
  <2>1. LookupLocks(r) = RowLocks(r.id) \o RowLocks(r.arg.target)
    BY <1>9 DEF LookupLocks
  <2>2. QED
    BY <1>3, <1>8, <1>9, <2>1, HasBoth, RowLocked
<1>10. CASE r.op = "merge"
  <2>1. LookupLocks(r) = RowLocks(r.id) \o RowLocks(r.arg.survivor)
    BY <1>10 DEF LookupLocks
  <2>2. QED
    BY <1>3, <1>8, <1>10, <2>1, HasBoth, RowLocked
<1>11. CASE r.op = "revert"
  <2> DEFINE rest == IF c.op \in Rereads THEN RowLocks(c.on) ELSE << >>
  <2>1. LookupLocks(r) = RowLocks(c.entity) \o rest
    BY <1>11 DEF LookupLocks, Rereads, c
  <2>2. rest \in Seq(S)
    BY <1>3, <1>5
  <2> HIDE DEF rest
  <2>3. HasAll(s, RowLocks(c.entity)) /\ HasAll(s, rest)
    BY <1>3, <1>8, <2>1, <2>2, HasBoth
  <2>4. Held(s, c.entity)
    BY <2>3, RowLocked
  <2>5. c.op \in Rereads => Held(s, c.on)
    BY <2>3, RowLocked DEF rest
  <2>6. QED
    BY <1>11, <2>4, <2>5 DEF c
<1>12. CASE r.op \notin {"create", "revert", "merge", "add_relationship"}
  <2>1. LookupLocks(r) = RowLocks(r.id)
    BY <1>12 DEF LookupLocks
  <2>2. QED
    BY <1>8, <1>12, <2>1, RowLocked
<1>13. CASE r.op = "create"
  BY <1>13
<1>14. QED
  BY <1>9, <1>10, <1>11, <1>12, <1>13

-----------------------------------------------------------------------------
(* What a change will flush                                                *)

\* A row's columns, and the Entities it hangs on, which are there.
LEMMA RowIs ==
    ASSUME WorldOK, NEW x \in Id, Exists(x)
    PROVE  /\ x \in Entities => world[x] \in EntityRow /\ Subject(x) = x /\ Hosts(x) = {x}
           /\ x \in Edges => /\ world[x] \in EdgeRow /\ Subject(x) = world[x].src /\ Hosts(x) = {world[x].src, world[x].dst}
                             /\ Exists(world[x].dst)
           /\ x \in Steps => world[x] \in StepRow /\ Subject(x) = world[x].quest /\ Hosts(x) = {world[x].quest}
           /\ x \in Mentions => world[x] \in MentionRow /\ Subject(x) = world[x].entity /\ Hosts(x) = {world[x].entity}
           /\ x \in Entities \X Key => world[x] \in AliasRow
           /\ x \notin Entities \X Key => Subject(x) \in Entities /\ Exists(Subject(x)) /\ Subject(x) \in Hosts(x)
           /\ \A e \in Entities : x \in {e} \X Key => Exists(e)
<1>1. world[x] \in RowOf(x) /\ \A e \in Refs(x, world[x]) : Exists(e)
  BY DEF WorldOK
<1>2. CASE x \in Entities
  <2>1. world[x] \in EntityRow /\ Subject(x) = x /\ Hosts(x) = {x}
    BY <1>1, <1>2, Kinds, CanonAssumption DEF Subject, Hosts
  <2>2. QED
    BY <1>2, <2>1, CanonAssumption
<1>3. CASE x \in Edges
  <2>1. world[x] \in EdgeRow /\ Subject(x) = world[x].src /\ Hosts(x) = {world[x].src, world[x].dst}
    BY <1>1, <1>3, Kinds, CanonAssumption DEF Subject, Hosts
  <2>2. world[x].src \in Refs(x, world[x]) /\ world[x].dst \in Refs(x, world[x])
    BY <2>1 DEF Refs, EdgeRow
  <2>3. world[x].src \in Entities
    BY <2>1 DEF EdgeRow
  <2>4. QED
    BY <1>1, <1>3, <2>1, <2>2, <2>3, CanonAssumption
<1>4. CASE x \in Steps
  <2>1. world[x] \in StepRow /\ Subject(x) = world[x].quest /\ Hosts(x) = {world[x].quest}
    BY <1>1, <1>4, Kinds, CanonAssumption DEF Subject, Hosts
  <2>2. world[x].quest \in Refs(x, world[x])
    BY <2>1 DEF Refs, StepRow
  <2>3. world[x].quest \in Entities
    BY <2>1 DEF StepRow
  <2>4. QED
    BY <1>1, <1>4, <2>1, <2>2, <2>3, CanonAssumption
<1>5. CASE x \in Mentions
  <2>1. world[x] \in MentionRow /\ Subject(x) = world[x].entity /\ Hosts(x) = {world[x].entity}
    BY <1>1, <1>5, Kinds, CanonAssumption DEF Subject, Hosts
  <2>2. world[x].entity \in Refs(x, world[x])
    BY <2>1 DEF Refs, MentionRow
  <2>3. world[x].entity \in Entities
    BY <2>1 DEF MentionRow
  <2>4. QED
    BY <1>1, <1>5, <2>1, <2>2, <2>3, CanonAssumption
<1>6. CASE x \in Entities \X Key
  <2>1. world[x] \in AliasRow
    BY <1>1, <1>6, Kinds
  <2>2. \A e \in Entities : x \in {e} \X Key => e \in Refs(x, world[x])
    BY DEF Refs
  <2>3. QED
    BY <1>1, <1>6, <2>1, <2>2, CanonAssumption
<1>7. QED
  BY <1>2, <1>3, <1>4, <1>5, <1>6 DEF Id

\* All that a session's plan is to be, for the invariants of its flush.
Founded(s, p) ==
    /\ PlanOK(p) /\ FieldsBy(s, p) /\ HomesBy(s, p) /\ NewBy(s, p) /\ InsertsBy(p) /\ MergesBy(s, p)
    /\ p.row.op = "remove_mention" => Exists(p.row.on) /\ p.row.entity = Subject(p.row.on)
    /\ \A x \in DOMAIN p.writes :
          \/ Exists(x) \/ x \in Entities \cup (Entities \X Key)
          \/ \E i \in DOMAIN changes : changes[i].on = x
          \/ \A t \in Session \ {s} : Flushing(t) => x \notin DOMAIN plan[t].writes

Plain == {"set", "delete", "update_relationship", "end_relationship", "update_step", "confirm_mention",
          "set_visibility", "revert"}

\* An update of one row the session holds, ...
LEMMA ChangeIs ==
    ASSUME WorldOK, NEW s \in Session, NEW r, r.op \in Plain,
           NEW x \in Id, Exists(x), locks[x] = s, x \in Steps \cup Mentions => locks[Subject(x)] = s,
           NEW cols,
           x \in Entities => cols \in FieldCols \cup [vis : Visibility] \cup [deleted : Time],
           x \in Entities /\ cols \in FieldCols => r.op \in {"set", "revert"},
           x \in Edges => cols \in EdgeSets,
           x \in Steps => cols \in [done : BOOLEAN],
           x \in Mentions => cols \in [confirmed : BOOLEAN],
           x \notin Entities \X Key,
           HistoryRow(Change(r, x, cols).row), Exists(About(r))
    PROVE  Founded(s, Change(r, x, cols))
<1> DEFINE p == Change(r, x, cols)
<1>1. /\ DOMAIN p.writes = {x} /\ p.writes[x] = Update(cols)
      /\ p.row.op = r.op /\ p.row.on = x /\ p.row.old = Only(world[x], DOMAIN cols) /\ p.row.new = cols
      /\ p.row.entity = About(r)
  BY DEF Change, Row
<1>2. p.writes[x].how = "update" /\ p.writes[x].cols = cols
  BY <1>1 DEF Update
<1>h. HistoryRow(p.row)
  OBVIOUS
<1> HIDE DEF p
<1>3. /\ x \in Entities \cup Edges \cup Steps \cup Mentions
      /\ x \in Entities => x \notin Edges \cup Steps \cup Mentions
      /\ x \in Edges => x \notin Steps \cup Mentions
      /\ x \in Steps => x \notin Mentions
      /\ \A e \in Entities : x \notin {e} \X Key
  BY CanonAssumption DEF Id
<1>4. cols \in SetsOf(x)
  <2>1. x \in Entities => cols \in EntitySets
    BY DEF EntitySets
  <2>2. x \in Steps => cols \in StepSets
    BY DEF StepSets
  <2>3. x \in Mentions => cols \in MentionSets
    BY DEF MentionSets
  <2>4. QED
    BY <1>3, <2>1, <2>2, <2>3, Kinds
<1>5. DOMAIN cols \cap {"src", "dst", "quest", "entity"} = {}
  <2>1. x \in Entities => DOMAIN cols \in {{"name"}, {"status", "stamp"}, {"stamp"}, {"vis"}, {"deleted"}}
    BY DEF FieldCols
  <2>2. x \in Edges => DOMAIN cols \in {{"note"}, {"ended"}, {"vis"}}
    BY DEF EdgeSets
  <2>3. (x \in Steps => DOMAIN cols = {"done"}) /\ (x \in Mentions => DOMAIN cols = {"confirmed"})
    OBVIOUS
  <2>4. QED
    BY <1>3, <2>1, <2>2, <2>3
<1>6. Refs(x, cols) = {}
  BY <1>3, <1>5 DEF Refs
<1>7. PlanOK(p)
  BY <1>1, <1>2, <1>4, <1>6, <1>h DEF PlanOK, WriteOK
<1>8. FieldsBy(s, p)
  <2> SUFFICES ASSUME x \in Entities
               PROVE  \/ IsFieldRow(p.row) /\ locks[x] = s /\ Exists(x) /\ p.row.old = Only(world[x], DOMAIN p.row.new)
                      \/ p.row.op # "create" /\ ~IsFieldRow(p.row) /\ DOMAIN cols \cap Tracked = {}
    BY <1>1, <1>2 DEF FieldsBy
  <2>1. CASE cols \in FieldCols
    <3>1. DOMAIN cols \in Fields
      BY <2>1 DEF FieldCols, Fields
    <3>2. cols # Nil
      BY <2>1, CanonAssumption
    <3>3. QED
      BY <1>1, <2>1, <3>1, <3>2 DEF IsFieldRow
  <2>2. CASE cols \notin FieldCols
    <3>1. DOMAIN cols \in {{"vis"}, {"deleted"}}
      BY <2>2
    <3>2. DOMAIN cols \notin Fields /\ DOMAIN cols \cap Tracked = {}
      BY <3>1 DEF Fields, Tracked
    <3>3. QED
      BY <1>1, <3>2 DEF IsFieldRow, Plain
  <2>3. QED
    BY <2>1, <2>2
<1>9. HomesBy(s, p)
  BY <1>1, <1>2, <1>3, <1>5 DEF HomesBy
<1>10. NewBy(s, p) /\ InsertsBy(p)
  BY <1>1, <1>2 DEF NewBy, InsertsBy, Additions, Plain
<1>11. MergesBy(s, p)
  BY <1>1, <1>2 DEF MergesBy, Plain
<1>12. QED
  BY <1>1, <1>7, <1>8, <1>9, <1>10, <1>11 DEF Founded, Plain, p

\* ... a row taken away, ...
LEMMA RemovalIs ==
    ASSUME NEW s \in Session, NEW r, r.op \in {"remove_alias", "remove_mention", "revert"},
           NEW x \in Id, Exists(x), x \notin Entities, x \in Steps \cup Mentions => locks[Subject(x)] = s,
           \A e \in Entities : x \in {e} \X Key => locks[e] = s,
           HistoryRow(Removal(r, x).row), Exists(About(r)), r.op = "remove_mention" => About(r) = Subject(x)
    PROVE  Founded(s, Removal(r, x))
<1> DEFINE p == Removal(r, x)
<1>1. DOMAIN p.writes = {x} /\ p.writes[x] = Delete /\ p.row.op = r.op /\ p.row.on = x /\ p.row.entity = About(r)
  BY DEF Removal, Row
<1>2. p.writes[x].how = "delete"
  BY <1>1 DEF Delete
<1>h. HistoryRow(p.row)
  OBVIOUS
<1> HIDE DEF p
<1>3. PlanOK(p)
  BY <1>1, <1>2, <1>h DEF PlanOK, WriteOK
<1>4. FieldsBy(s, p)
  BY <1>1 DEF FieldsBy
<1>5. HomesBy(s, p)
  BY <1>1, <1>2 DEF HomesBy
<1>6. NewBy(s, p) /\ InsertsBy(p) /\ MergesBy(s, p)
  BY <1>1, <1>2 DEF NewBy, InsertsBy, MergesBy, Additions
<1>7. QED
  BY <1>1, <1>3, <1>4, <1>5, <1>6 DEF Founded, p

\* ... or one that is made: anew, or by its key, or again.
LEMMA AdditionIs ==
    ASSUME NEW s \in Session, NEW r, NEW x \in Id, ~Exists(x), x \notin Entities,
           NEW row \in RowOf(x), \A e \in Refs(x, row) : Exists(e), NEW shown,
           HistoryRow(Addition(r, x, row, shown).row), Exists(About(r)),
           \A e \in Entities : x \in {e} \X Key => locks[e] = s,
           \/ x \in Entities \X Key /\ r.op \in {"add_alias", "revert"}
           \/ /\ x \in Mentions /\ r.op = "revert"
              /\ \E i \in DOMAIN changes : changes[i].op = "remove_mention" /\ changes[i].on = x /\ row.entity = changes[i].entity
           \/ /\ r.op \in Additions /\ \A i \in DOMAIN changes : changes[i].on # x
              /\ \A t \in Session \ {s} : Flushing(t) => x \notin DOMAIN plan[t].writes
              /\ r.op = "add_step" => row.quest = About(r)
              /\ r.op = "add_mention" => row.entity = About(r)
    PROVE  Founded(s, Addition(r, x, row, shown))
<1> DEFINE p == Addition(r, x, row, shown)
<1>1. /\ DOMAIN p.writes = {x} /\ p.writes[x] = Insert(row)
      /\ p.row.op = r.op /\ p.row.on = x /\ p.row.entity = About(r)
  BY DEF Addition, Row
<1>2. p.writes[x].how = "insert" /\ p.writes[x].cols = row
  BY <1>1 DEF Insert
<1>h. HistoryRow(p.row)
  OBVIOUS
<1> HIDE DEF p
<1>3. PlanOK(p)
  BY <1>1, <1>2, <1>h DEF PlanOK, WriteOK
<1>4. FieldsBy(s, p)
  BY <1>1 DEF FieldsBy
<1>5. HomesBy(s, p)
  BY <1>1, <1>2 DEF HomesBy
<1>6. MergesBy(s, p)
  BY <1>1, <1>2 DEF MergesBy, Additions
<1>7. NewBy(s, p)
  BY <1>1, <1>2 DEF NewBy, Additions
<1>8. InsertsBy(p)
  <2>1. /\ p.row.op = "add_step" => x \in Steps
        /\ p.row.op = "add_relationship" => x \in Edges
    BY <1>1, <1>h DEF HistoryRow
  <2>2. x \in Mentions => x \notin Edges \cup Steps \cup (Entities \X Key)
    BY CanonAssumption
  <2>3. x \in Edges \cup Steps => x \notin Mentions \cup (Entities \X Key)
    BY CanonAssumption
  <2>4. ASSUME x \in Edges \cup Steps PROVE p.row.op \in Additions /\ p.row.on = x
    BY <1>1, <2>3, <2>4
  <2>5. ASSUME x \in Mentions
        PROVE  /\ p.row.on = x
               /\ \/ p.row.op = "add_mention"
                  \/ p.row.op = "revert" /\ \E i \in DOMAIN changes :
                        /\ changes[i].op = "remove_mention" /\ changes[i].on = x
                        /\ p.writes[x].cols.entity = changes[i].entity
    BY <1>1, <1>2, <2>1, <2>2, <2>5 DEF Additions
  <2>6. QED
    BY <1>1, <2>4, <2>5 DEF InsertsBy
<1>9. QED
  BY <1>1, <1>3, <1>4, <1>5, <1>6, <1>7, <1>8 DEF Founded, Additions, p

\* A new Entity, ...
LEMMA CreatedIs ==
    ASSUME NEW s \in Session, NEW r, r.op = "create", NEW e \in Entities, r.arg.name \in Key, r.arg.actor \in User,
           e = IF r.id = Nil THEN Fresh(Entities) ELSE r.id
    PROVE  Founded(s, Created(r))
<1> DEFINE p == Created(r)
           row == [name |-> r.arg.name, status |-> "open", stamp |-> Nil, vis |-> "gm", owner |-> r.arg.actor,
                   deleted |-> Nil, merged |-> Nil]
<1>1. /\ DOMAIN p.writes = {e} /\ p.writes[e] = Insert(row)
      /\ p.row.op = "create" /\ p.row.on = e /\ p.row.entity = e /\ p.row.new = Only(row, {"name", "status", "stamp"})
  BY DEF Created, Row
<1>2. p.writes[e].how = "insert" /\ p.writes[e].cols = row
  BY <1>1 DEF Insert
<1>3. row \in EntityRow
  BY DEF EntityRow, Visibility, Status, Time
<1>4. Refs(e, row) = {}
  BY CanonAssumption DEF Refs
<1>5. p.row.new \in [name : Key, status : Status, stamp : Time]
  <2>1. p.row.new = [name |-> r.arg.name, status |-> "open", stamp |-> Nil]
    BY <1>1 DEF Only
  <2>2. QED
    BY <2>1 DEF Status, Time
<1> HIDE DEF p, row
<1>6. PlanOK(p)
  <2>1. HistoryRow(p.row)
    BY <1>1, <1>5 DEF HistoryRow
  <2>2. e \in Id /\ row \in RowOf(e)
    BY <1>3, Kinds DEF Id
  <2>3. WriteOK(e, p.writes[e])
    BY <1>2, <1>4, <2>2 DEF WriteOK
  <2>4. QED
    BY <1>1, <2>1, <2>2, <2>3 DEF PlanOK
<1>7. FieldsBy(s, p)
  BY <1>1, <1>2 DEF FieldsBy, Tracked
<1>8. HomesBy(s, p) /\ InsertsBy(p)
  BY <1>1, <1>2, CanonAssumption DEF HomesBy, InsertsBy
<1>9. NewBy(s, p) /\ MergesBy(s, p)
  BY <1>1, <1>2 DEF NewBy, MergesBy, Additions
<1>10. QED
  BY <1>1, <1>6, <1>7, <1>8, <1>9 DEF Founded, p

\* The floor a merge sets, if any.
Raised(vis, floor) == IF Floored(vis, floor) = floor THEN << >> ELSE [floor |-> Floored(vis, floor)]

\* A merge's floor, of a row that had one or none, fits FloorSet.
LEMMA RaisedIs ==
    ASSUME NEW vis \in Visibility, NEW floor \in Floor
    PROVE  /\ Raised(vis, floor) = << >> \/ (Raised(vis, floor) \in [floor : GmFloor])
           /\ FloorSet(vis, floor, Raised(vis, floor))
           /\ DOMAIN Raised(vis, floor) \in {{}, {"floor"}}
<1>1. Nil \notin Visibility
  BY AccessAssumption
<1>2. CASE Floored(vis, floor) = floor
  <2>1. Raised(vis, floor) = << >> /\ DOMAIN Raised(vis, floor) = {}
    BY <1>2 DEF Raised
  <2>2. vis # "party" => floor \in GmFloor
    BY <1>1, <1>2 DEF Floored, Floor, GmFloor, Visibility
  <2>3. QED
    BY <2>1, <2>2 DEF FloorSet
<1>3. CASE Floored(vis, floor) # floor
  <2>1. vis # "party" /\ Floored(vis, floor) = vis
    BY <1>3 DEF Floored
  <2>2. Raised(vis, floor) = [floor |-> vis] /\ vis \in GmFloor
    BY <1>3, <2>1 DEF Raised, GmFloor
  <2>3. QED
    BY <2>1, <2>2 DEF FloorSet
<1>4. QED
  BY <1>2, <1>3

\* What a merge of a into e writes of each kind of row.
EdgeMoved(w, a, e, x) ==
    /\ x \in Edges /\ Exists(x)
    /\ \/ w[x] = Delete
       \/ \E c \in {"src", "dst"} :
             world[x][c] = a /\ w[x] = Update(Over([d \in {c} |-> e], Raised(world[a].vis, world[x].floor)))
MentionMoved(w, a, e, x) ==
    /\ x \in Mentions /\ Exists(x) /\ world[x].entity = a
    /\ w[x] = Update(Over([entity |-> e], Raised(world[a].vis, world[x].floor)))
StepMoved(w, a, e, x) == x \in Steps /\ Exists(x) /\ world[x].quest = a /\ w[x] = Update([quest |-> e])
AliasGone(w, a, x) == \E k \in Key : x = <<a, k>> /\ Exists(x) /\ w[x] = Delete
AliasMade(w, a, e, x) ==
    \E k \in Key :
        /\ x = <<e, k>>
        /\ \/ Exists(<<a, k>>) /\ w[x] = Insert([floor |-> Floored(world[a].vis, world[<<a, k>>].floor)])
           \/ world[a].name = k /\ w[x] = Insert([floor |-> Floored(world[a].vis, Nil)])
MergeWrites(p, a, e) ==
    /\ p.row.op = "merge" /\ p.row.on = a /\ p.row.entity = e /\ p.row.new = [absorbed |-> a]
    /\ a \in DOMAIN p.writes /\ p.writes[a] = Update([merged |-> e])
    /\ \A x \in DOMAIN p.writes :
          \/ x = a \/ EdgeMoved(p.writes, a, e, x) \/ MentionMoved(p.writes, a, e, x) \/ StepMoved(p.writes, a, e, x)
          \/ AliasGone(p.writes, a, x) \/ AliasMade(p.writes, a, e, x)

\* Each row that Merged writes is of one of these kinds, and of each kind it writes
\* every row that hangs on the absorbed Entity, and no other; ...
LEMMA MergedWrites ==
    ASSUME WorldOK, NEW r, NEW a \in Entities, NEW e \in Entities, a = r.id, e = r.arg.survivor, r.op = "merge",
           a # e, Live(a), Live(e)
    PROVE  MergeWrites(Merged(r), a, e) /\ AbsorbsBy(Merged(r))
<1> DEFINE p == Merged(r)
           w == p.writes
           vis == world[a].vis
           end(y) == IF y = a THEN e ELSE y
           has(k) == Exists(<<e, k>>)
           aliases == {k \in Key : Exists(<<a, k>>)}
           named == {world[a].name} \ ({world[e].name} \cup aliases \cup {k \in Key : has(k)})
           edges == {x \in Edges : Exists(x) /\ a \in {world[x].src, world[x].dst}}
           loops == {x \in edges : end(world[x].src) = end(world[x].dst)}
           mentions == {m \in Mentions : Exists(m) /\ world[m].entity = a}
           steps == {x \in Steps : Exists(x) /\ world[x].quest = a /\ (vis = "party" \/ world[e].vis # "party")}
           raised(x) == IF Floored(vis, world[x].floor) = world[x].floor THEN << >>
                        ELSE [floor |-> Floored(vis, world[x].floor)]
           repoint(x) == Over([c \in {c \in {"src", "dst"} : world[x][c] = a} |-> e], raised(x))
           gone  == {<<a, k>> : k \in aliases} \cup loops
           moved == {<<e, k>> : k \in {k \in aliases : ~has(k)}}
           write(x) == CASE x \in gone          -> Delete
                         [] x \in moved         -> Insert([floor |-> Floored(vis, world[<<a, x[2]>>].floor)])
                         [] x \in edges \ loops -> Update(repoint(x))
                         [] x \in mentions      -> Update(Over([entity |-> e], raised(x)))
                         [] x \in steps         -> Update([quest |-> e])
                         [] x = a               -> Update([merged |-> e])
                         [] OTHER               -> Insert([floor |-> Floored(vis, Nil)])
           W == gone \cup moved \cup {<<e, k>> : k \in named} \cup edges \cup mentions \cup steps \cup {a}
<1>1. p = [writes |-> [x \in W |-> write(x)], row |-> Row(r, e, a, Nil, [absorbed |-> a])]
  BY DEF Merged
<1> HIDE DEF p, W, write
<1>2. /\ p.row.op = "merge" /\ p.row.on = a /\ p.row.entity = e /\ p.row.new = [absorbed |-> a]
      /\ DOMAIN w = W /\ \A x \in W : w[x] = write(x)
  BY <1>1 DEF Row
<1> USE DEF W, write
<1>n. world[a].name \in Key
  BY RowIs DEF Live, Id, EntityRow
<1>d. /\ Edges \cap (Steps \cup Mentions) = {} /\ Steps \cap Mentions = {}
      /\ Entities \cap (Edges \cup Steps \cup Mentions) = {}
      /\ \A f \in Entities, k \in Key : <<f, k>> \notin Entities \cup Edges \cup Steps \cup Mentions
  BY CanonAssumption
<1>k. /\ gone \subseteq Edges \cup {<<a, k>> : k \in Key} /\ moved \subseteq {<<e, k>> : k \in Key}
      /\ loops \subseteq edges /\ edges \subseteq Edges /\ mentions \subseteq Mentions /\ steps \subseteq Steps
      /\ {<<e, k>> : k \in named} \subseteq {<<e, k>> : k \in Key}
  BY <1>n
<1>3. ASSUME NEW x \in edges PROVE EdgeMoved(w, a, e, x)
  <2>1. x \in Edges /\ Exists(x) /\ w[x] = write(x) /\ a \in {world[x].src, world[x].dst}
    BY <1>2
  <2>2. x \notin loops => end(world[x].src) # end(world[x].dst)
    OBVIOUS
  <2>3. x \in gone <=> x \in loops
    BY <1>d, <2>1, ZenonT(40)
  <2> HIDE DEF moved, mentions, steps, gone, edges, loops, aliases, named, W, has
  <2>4. x \notin moved /\ x \notin mentions /\ x \notin steps /\ x # a
    BY <1>d, <1>k, <2>1
  <2>5. CASE x \in loops
    <3>1. write(x) = Delete
      BY <2>3, <2>4, <2>5
    <3>2. QED
      BY <2>1, <3>1 DEF EdgeMoved
  <2>6. CASE x \notin loops
    <3>1. write(x) = Update(repoint(x))
      BY <2>3, <2>4, <2>6
    <3>2. \E c \in {"src", "dst"} : {d \in {"src", "dst"} : world[x][d] = a} = {c}
      BY <2>1, <2>2, <2>6
    <3>3. PICK c \in {"src", "dst"} : {d \in {"src", "dst"} : world[x][d] = a} = {c}
      BY <3>2
    <3>4. world[x][c] = a
      BY <3>3
    <3>5. repoint(x) = Over([d \in {c} |-> e], Raised(vis, world[x].floor))
      BY <3>3 DEF Raised
    <3>6. QED
      BY <2>1, <3>1, <3>4, <3>5 DEF EdgeMoved
  <2>7. QED
    BY <2>5, <2>6
<1>4. ASSUME NEW x \in mentions PROVE MentionMoved(w, a, e, x)
  <2>1. x \in Mentions /\ Exists(x) /\ world[x].entity = a /\ w[x] = write(x)
    BY <1>2
  <2> HIDE DEF moved, mentions, steps, gone, edges, loops, aliases, named, W, has
  <2>2. x \notin gone /\ x \notin moved /\ x \notin edges /\ x \notin steps /\ x # a
    BY <1>d, <1>k, <2>1
  <2>3. write(x) = Update(Over([entity |-> e], raised(x)))
    BY <2>2
  <2>4. QED
    BY <2>1, <2>3 DEF Raised, MentionMoved
<1>5. ASSUME NEW x \in steps PROVE StepMoved(w, a, e, x)
  <2>1. x \in Steps /\ Exists(x) /\ world[x].quest = a /\ w[x] = write(x)
    BY <1>2
  <2> HIDE DEF moved, mentions, steps, gone, edges, loops, aliases, named, W, has
  <2>2. x \notin gone /\ x \notin moved /\ x \notin edges /\ x \notin mentions /\ x # a
    BY <1>d, <1>k, <2>1
  <2>3. QED
    BY <2>1, <2>2 DEF StepMoved
<1>6. ASSUME NEW k \in aliases PROVE AliasGone(w, a, <<a, k>>)
  <2>1. k \in Key /\ Exists(<<a, k>>) /\ <<a, k>> \in gone /\ w[<<a, k>>] = write(<<a, k>>)
    BY <1>2
  <2> HIDE DEF moved, mentions, steps, gone, edges, loops, aliases, named, W, has
  <2>2. <<a, k>> \notin moved /\ <<a, k>> \notin edges /\ <<a, k>> \notin mentions /\ <<a, k>> \notin steps /\ <<a, k>> # a
    BY <1>d, <1>k, <2>1
  <2>3. write(<<a, k>>) = Delete
    BY <2>1, <2>2
  <2>4. QED
    BY <2>1, <2>3 DEF AliasGone
<1>7. ASSUME NEW k \in aliases, ~has(k) PROVE AliasMade(w, a, e, <<e, k>>)
  <2>1. k \in Key /\ Exists(<<a, k>>) /\ <<e, k>> \in moved /\ w[<<e, k>>] = write(<<e, k>>)
    BY <1>2, <1>7
  <2> HIDE DEF moved, mentions, steps, gone, edges, loops, aliases, named, W, has
  <2>2. <<e, k>> \notin gone /\ <<e, k>> \notin edges /\ <<e, k>> \notin mentions /\ <<e, k>> \notin steps /\ <<e, k>> # a
    BY <1>d, <1>k, <2>1
  <2>3. write(<<e, k>>) = Insert([floor |-> Floored(vis, world[<<a, k>>].floor)])
    BY <2>1, <2>2
  <2>4. QED
    BY <2>1, <2>3 DEF AliasMade
<1>8. ASSUME NEW k \in named PROVE AliasMade(w, a, e, <<e, k>>)
  <2>1. k \in Key /\ world[a].name = k /\ <<e, k>> \in W
    BY <1>n
  <2>2. <<e, k>> \notin moved
    OBVIOUS
  <2>3. w[<<e, k>>] = write(<<e, k>>)
    BY <1>2, <2>1
  <2> HIDE DEF moved, mentions, steps, gone, edges, loops, aliases, named, W, has
  <2>4. /\ <<e, k>> \notin gone /\ <<e, k>> \notin edges /\ <<e, k>> \notin mentions /\ <<e, k>> \notin steps
        /\ <<e, k>> # a
    BY <1>d, <1>k, <2>1
  <2>5. write(<<e, k>>) = Insert([floor |-> Floored(vis, Nil)])
    BY <2>2, <2>4
  <2>6. QED
    BY <2>1, <2>3, <2>5 DEF AliasMade
\* Of each kind it writes every row that hangs on a, and no other.
<1>e. ASSUME NEW x \in Edges, Exists(x)
      PROVE  /\ x \in W <=> a \in {world[x].src, world[x].dst}
             /\ a \in {world[x].src, world[x].dst} =>
                    IF {world[x].src, world[x].dst} \subseteq {a, e} THEN w[x] = Delete
                    ELSE w[x].how = "update" /\ DOMAIN w[x].cols \ {"floor"} = {c \in {"src", "dst"} : world[x][c] = a}
  <2>1. x \in edges <=> a \in {world[x].src, world[x].dst}
    BY <1>e
  <2>2. x \in loops <=> x \in edges /\ {world[x].src, world[x].dst} \subseteq {a, e}
    OBVIOUS
  <2>3. x \in gone <=> x \in loops
    BY <1>d
  <2> HIDE DEF moved, mentions, steps, gone, edges, loops, aliases, named, has
  <2>4. x \notin moved /\ x \notin mentions /\ x \notin steps /\ x # a
    BY <1>d, <1>k
  <2>5. x \notin {<<e, k>> : k \in named}
    BY <1>d, <1>k
  <2>6. x \in W <=> x \in edges
    BY <2>2, <2>3, <2>4, <2>5
  <2>7. x \in edges => w[x] = write(x)
    BY <1>2, <2>6
  <2> HIDE DEF W
  <2>8. x \in loops => write(x) = Delete
    BY <2>3, <2>4
  <2>9. x \in edges /\ x \notin loops => write(x) = Update(repoint(x))
    BY <2>3, <2>4
  <2>10. DOMAIN repoint(x) \ {"floor"} = {c \in {"src", "dst"} : world[x][c] = a}
    <3>1. DOMAIN raised(x) \subseteq {"floor"}
      OBVIOUS
    <3>2. DOMAIN repoint(x) = {c \in {"src", "dst"} : world[x][c] = a} \cup DOMAIN raised(x)
      BY DEF Over
    <3> HIDE DEF repoint, raised
    <3>3. QED
      BY <3>1, <3>2
  <2> HIDE DEF repoint
  <2>11. QED
    BY <2>1, <2>2, <2>6, <2>7, <2>8, <2>9, <2>10 DEF Update
<1>m. ASSUME NEW x \in Mentions PROVE x \in W <=> Exists(x) /\ world[x].entity = a
  <2>1. x \in mentions <=> Exists(x) /\ world[x].entity = a
    OBVIOUS
  <2> HIDE DEF moved, mentions, steps, gone, edges, loops, aliases, named, has
  <2>2. x \notin gone /\ x \notin moved /\ x \notin edges /\ x \notin steps /\ x # a /\ x \notin {<<e, k>> : k \in named}
    BY <1>d, <1>k
  <2>3. QED
    BY <2>1, <2>2
<1>s. ASSUME NEW x \in Steps
      PROVE  /\ x \in W <=> Exists(x) /\ world[x].quest = a /\ Serial!MoveStep(x, a, e)
             /\ x \in W => w[x] = Update([quest |-> e])
  <2>1. x \in steps <=> Exists(x) /\ world[x].quest = a /\ Serial!MoveStep(x, a, e)
    BY DEF Serial!MoveStep
  <2> HIDE DEF moved, mentions, steps, gone, edges, loops, aliases, named, has, vis
  <2>2. x \notin gone /\ x \notin moved /\ x \notin edges /\ x \notin mentions /\ x # a /\ x \notin {<<e, k>> : k \in named}
    BY <1>d, <1>k
  <2>3. x \in W <=> x \in steps
    BY <2>2
  <2>4. x \in steps => w[x] = write(x)
    BY <1>2, <2>3
  <2>5. x \in steps => write(x) = Update([quest |-> e])
    BY <2>2
  <2>6. QED
    BY <2>1, <2>3, <2>4, <2>5
<1>f. ASSUME NEW f \in Entities, NEW k \in Key
      PROVE  /\ f = a => (<<f, k>> \in W <=> Exists(<<f, k>>)) /\ (<<f, k>> \in W => w[<<f, k>>] = Delete)
             /\ f = e => /\ <<f, k>> \in W <=> ~Exists(<<e, k>>) /\ Serial!Named(a, k)
                                                /\ (Exists(<<a, k>>) \/ world[e].name # k)
                         /\ <<f, k>> \in W => w[<<f, k>>].how = "insert"
             /\ f \notin {a, e} => <<f, k>> \notin W
  <2>1. <<f, k>> \notin edges /\ <<f, k>> \notin mentions /\ <<f, k>> \notin steps /\ <<f, k>> # a
    <3> HIDE DEF gone, moved, loops, edges, mentions, steps, named
    <3>1. QED
      BY <1>d, <1>k
  <2>e. <<f, k>> \notin loops
    BY <2>1
  <2>2. <<f, k>> \in gone <=> f = a /\ Exists(<<a, k>>)
    <3> HIDE DEF loops
    <3>1. QED
      BY <2>e
  <2>3. <<f, k>> \in moved <=> f = e /\ Exists(<<a, k>>) /\ ~Exists(<<e, k>>)
    OBVIOUS
  <2>4. <<f, k>> \in {<<e, q>> : q \in named} <=> f = e /\ world[a].name = k /\ world[e].name # k /\ ~Exists(<<a, k>>) /\ ~Exists(<<e, k>>)
    BY <1>n
  <2>5. <<f, k>> \in W <=> \/ <<f, k>> \in gone \/ <<f, k>> \in moved \/ <<f, k>> \in {<<e, q>> : q \in named}
    BY <2>1
  <2>6. <<f, k>> \in W => w[<<f, k>>] = write(<<f, k>>)
    BY <1>2
  <2> HIDE DEF moved, mentions, steps, gone, edges, loops, aliases, named, W, has
  <2>7. <<f, k>> \in gone => write(<<f, k>>) = Delete
    BY <2>1, <2>2, <2>3
  <2>8. <<f, k>> \notin gone => \E row : write(<<f, k>>) = Insert(row)
    BY <2>1
  <2> HIDE DEF write
  <2>9. \A row : Insert(row).how = "insert"
    BY DEF Insert
  <2>10. f = a => (<<f, k>> \in W <=> <<f, k>> \in gone)
    BY <2>3, <2>4, <2>5
  <2>11. f = e => /\ <<f, k>> \in W <=> ~Exists(<<e, k>>) /\ Serial!Named(a, k) /\ (Exists(<<a, k>>) \/ world[e].name # k)
                  /\ <<f, k>> \notin gone
    <3>1. Serial!Named(a, k) <=> world[a].name = k \/ Exists(<<a, k>>)
      BY DEF Serial!Named, Serial!Exists, Exists
    <3>2. QED
      BY <2>2, <2>3, <2>4, <2>5, <3>1
  <2>12. QED
    BY <2>2, <2>3, <2>4, <2>5, <2>6, <2>7, <2>8, <2>9, <2>10, <2>11
<1>9. a \in W /\ w[a] = Update([merged |-> e])
  <2>1. a \in W
    OBVIOUS
  <2> HIDE DEF moved, mentions, steps, gone, edges, loops, aliases, named, W, has
  <2>2. a \notin gone /\ a \notin moved /\ a \notin edges /\ a \notin mentions /\ a \notin steps
    BY <1>d, <1>k
  <2>3. QED
    BY <1>2, <2>1, <2>2
<1>10. \A x \in W : \/ x = a \/ x \in edges \/ x \in mentions \/ x \in steps
                    \/ \E k \in aliases : x = <<a, k>>
                    \/ \E k \in aliases : ~has(k) /\ x = <<e, k>>
                    \/ \E k \in named : x = <<e, k>>
  OBVIOUS
<1> HIDE DEF w, W, vis, aliases, named, edges, loops, mentions, steps, gone, moved, write, raised, repoint, has, end
<1>11. \A x \in W : \/ x = a \/ EdgeMoved(w, a, e, x) \/ MentionMoved(w, a, e, x) \/ StepMoved(w, a, e, x)
                    \/ AliasGone(w, a, x) \/ AliasMade(w, a, e, x)
  BY <1>3, <1>4, <1>5, <1>6, <1>7, <1>8, <1>10
<1>12. MergeWrites(p, a, e)
  BY <1>2, <1>9, <1>11 DEF MergeWrites, w
<1>13. AbsorbsBy(p)
  BY <1>2, <1>9, <1>e, <1>m, <1>s, <1>f DEF AbsorbsBy, w
<1>14. QED
  BY <1>12, <1>13 DEF p

\* ... so that a merge is founded on the two Entities it holds.
LEMMA MergedIs ==
    ASSUME WorldOK, NEW s \in Session, NEW r, NEW a \in Entities, NEW e \in Entities, a = r.id, e = r.arg.survivor,
           r.op = "merge", a # e, Live(a), Live(e), locks[a] = s, locks[e] = s
    PROVE  Founded(s, Merged(r))
<1> DEFINE p == Merged(r)
           w == p.writes
           vis == world[a].vis
<1>1. MergeWrites(p, a, e)
  BY MergedWrites
<1> HIDE DEF p
<1>w. /\ p.row.op = "merge" /\ p.row.on = a /\ p.row.entity = e /\ p.row.new = [absorbed |-> a]
      /\ a \in DOMAIN w /\ w[a] = Update([merged |-> e])
      /\ \A x \in DOMAIN w : \/ x = a \/ EdgeMoved(w, a, e, x) \/ MentionMoved(w, a, e, x) \/ StepMoved(w, a, e, x)
                            \/ AliasGone(w, a, x) \/ AliasMade(w, a, e, x)
  BY <1>1 DEF MergeWrites
<1> HIDE DEF w
<1>2. Exists(a) /\ Exists(e) /\ world[a] \in EntityRow /\ vis \in Visibility
  BY RowIs DEF Live, Id, EntityRow
<1>d. /\ Edges \cap (Steps \cup Mentions) = {} /\ Steps \cap Mentions = {}
      /\ Entities \cap (Edges \cup Steps \cup Mentions) = {}
      /\ \A f \in Entities, k \in Key : <<f, k>> \notin Entities \cup Edges \cup Steps \cup Mentions
  BY CanonAssumption
<1> HIDE DEF vis
<1>x. ASSUME NEW x \in DOMAIN w
      PROVE  /\ x \in Id
             /\ x \in Entities => x = a
             /\ x \in Edges => EdgeMoved(w, a, e, x)
             /\ x \in Mentions => MentionMoved(w, a, e, x)
             /\ x \in Steps => StepMoved(w, a, e, x)
             /\ x \in Entities \X Key => AliasGone(w, a, x) \/ AliasMade(w, a, e, x)
             /\ x = a \/ x \in Edges \/ x \in Mentions \/ x \in Steps \/ \E k \in Key, q \in Entities : x = <<q, k>>
  <2>1. EdgeMoved(w, a, e, x) => x \in Edges
    BY DEF EdgeMoved
  <2>2. MentionMoved(w, a, e, x) => x \in Mentions
    BY DEF MentionMoved
  <2>3. StepMoved(w, a, e, x) => x \in Steps
    BY DEF StepMoved
  <2>4. AliasGone(w, a, x) \/ AliasMade(w, a, e, x) => \E k \in Key, q \in Entities : x = <<q, k>>
    BY DEF AliasGone, AliasMade
  <2>5. (\E k \in Key, q \in Entities : x = <<q, k>>) <=> x \in Entities \X Key
    OBVIOUS
  <2>6. QED
    BY <1>w, <1>d, <2>1, <2>2, <2>3, <2>4, <2>5 DEF Id
\* Each kind of row it writes.
<1>3. ASSUME NEW x \in DOMAIN w, x \in Edges
      PROVE  /\ Exists(x) /\ world[x] \in EdgeRow
             /\ \/ w[x] = Delete
                \/ /\ w[x].how = "update" /\ w[x].cols \in EdgeMoves
                   /\ \A c \in DOMAIN w[x].cols \ {"floor"} : w[x].cols[c] = e /\ world[x][c] = a
                   /\ FloorSet(vis, world[x].floor, w[x].cols)
  <2>1. Exists(x) /\ world[x] \in EdgeRow /\ world[x].floor \in Floor
    BY <1>x, <1>3, RowIs DEF EdgeMoved, EdgeRow
  <2>2. SUFFICES ASSUME w[x] # Delete
                 PROVE /\ w[x].how = "update" /\ w[x].cols \in EdgeMoves
                       /\ \A c \in DOMAIN w[x].cols \ {"floor"} : w[x].cols[c] = e /\ world[x][c] = a
                       /\ FloorSet(vis, world[x].floor, w[x].cols)
    BY <2>1
  <2> DEFINE raise == Raised(vis, world[x].floor)
  <2>3. PICK c \in {"src", "dst"} : world[x][c] = a /\ w[x] = Update(Over([d \in {c} |-> e], raise))
    BY <1>x, <1>3, <2>2 DEF EdgeMoved, vis
  <2>4. w[x].how = "update" /\ w[x].cols = Over([d \in {c} |-> e], raise)
    BY <2>3 DEF Update
  <2>5. (raise = << >> \/ raise \in [floor : GmFloor]) /\ FloorSet(vis, world[x].floor, raise) /\ DOMAIN raise \in {{}, {"floor"}}
    BY <1>2, <2>1, RaisedIs
  <2> HIDE DEF raise
  <2>6. DOMAIN w[x].cols \in {{c}, {c, "floor"}} /\ w[x].cols[c] = e /\ ("floor" \in DOMAIN w[x].cols <=> "floor" \in DOMAIN raise)
    BY <2>4, <2>5 DEF Over
  <2>7. w[x].cols \in EdgeMoves
    <3>1. CASE raise = << >>
      <4>1. w[x].cols = [d \in {c} |-> e]
        BY <2>4, <3>1 DEF Over
      <4>2. c = "src" \/ c = "dst"
        OBVIOUS
      <4>3. QED
        BY <4>1, <4>2 DEF EdgeMoves
    <3>2. CASE raise \in [floor : GmFloor]
      <4>1. w[x].cols = [d \in {c, "floor"} |-> IF d = c THEN e ELSE raise.floor]
        BY <2>4, <3>2 DEF Over
      <4>2. c = "src" \/ c = "dst"
        OBVIOUS
      <4>3. QED
        BY <3>2, <4>1, <4>2 DEF EdgeMoves
    <3>3. QED
      BY <2>5, <3>1, <3>2
  <2>8. FloorSet(vis, world[x].floor, w[x].cols)
    BY <2>5, <2>6 DEF FloorSet
  <2>9. QED
    BY <2>3, <2>4, <2>6, <2>7, <2>8
<1>4. ASSUME NEW x \in DOMAIN w, x \in Mentions
      PROVE  /\ Exists(x) /\ world[x].entity = a /\ w[x].how = "update" /\ w[x].cols \in MentionSets /\ w[x].cols.entity = e
             /\ w[x].cols \notin [confirmed : BOOLEAN] /\ DOMAIN w[x].cols \in {{"entity"}, {"entity", "floor"}}
             /\ FloorSet(vis, world[x].floor, w[x].cols)
  <2> DEFINE raise == Raised(vis, world[x].floor)
  <2>1. /\ Exists(x) /\ world[x].entity = a /\ w[x] = Update(Over([entity |-> e], raise))
        /\ world[x].floor \in Floor
    BY <1>x, <1>4, RowIs DEF MentionMoved, MentionRow, vis
  <2>2. w[x].how = "update" /\ w[x].cols = Over([entity |-> e], raise)
    BY <2>1 DEF Update
  <2>3. (raise = << >> \/ raise \in [floor : GmFloor]) /\ FloorSet(vis, world[x].floor, raise) /\ DOMAIN raise \in {{}, {"floor"}}
    BY <1>2, <2>1, RaisedIs
  <2> HIDE DEF raise
  <2>4. /\ DOMAIN w[x].cols \in {{"entity"}, {"entity", "floor"}} /\ w[x].cols.entity = e
        /\ "floor" \in DOMAIN w[x].cols <=> "floor" \in DOMAIN raise
    BY <2>2, <2>3 DEF Over
  <2>5. w[x].cols \in MentionSets
    <3>1. CASE raise = << >>
      <4>1. w[x].cols = [entity |-> e]
        BY <2>2, <3>1 DEF Over
      <4>2. QED
        BY <4>1 DEF MentionSets
    <3>2. CASE raise \in [floor : GmFloor]
      <4>1. w[x].cols = [entity |-> e, floor |-> raise.floor]
        BY <2>2, <3>2 DEF Over
      <4>2. QED
        BY <3>2, <4>1 DEF MentionSets
    <3>3. QED
      BY <2>3, <3>1, <3>2
  <2>6. FloorSet(vis, world[x].floor, w[x].cols)
    BY <2>3, <2>4 DEF FloorSet
  <2>7. w[x].cols \notin [confirmed : BOOLEAN]
    BY <2>4
  <2>8. QED
    BY <2>1, <2>2, <2>4, <2>5, <2>6, <2>7
<1>5. ASSUME NEW x \in DOMAIN w, x \in Steps
      PROVE  Exists(x) /\ world[x].quest = a /\ w[x].how = "update" /\ w[x].cols = [quest |-> e]
  BY <1>x, <1>5 DEF StepMoved, Update
<1>6. ASSUME NEW x \in DOMAIN w, x \in Entities PROVE x = a
  BY <1>x, <1>6
<1>7. ASSUME NEW x \in DOMAIN w, NEW k \in Key, NEW q \in Entities, x = <<q, k>>
      PROVE  \/ q = a /\ Exists(x) /\ w[x].how = "delete"
             \/ /\ q = e /\ w[x].how = "insert" /\ w[x].cols \in AliasRow
                /\ \/ Exists(<<a, k>>) /\ w[x].cols.floor = Floored(vis, world[<<a, k>>].floor)
                   \/ world[a].name = k /\ w[x].cols.floor = Floored(vis, Nil)
  <2>1. \/ x = <<a, k>> /\ Exists(x) /\ w[x] = Delete
        \/ /\ x = <<e, k>>
           /\ \/ Exists(<<a, k>>) /\ w[x] = Insert([floor |-> Floored(vis, world[<<a, k>>].floor)])
              \/ world[a].name = k /\ w[x] = Insert([floor |-> Floored(vis, Nil)])
    BY <1>x, <1>7 DEF AliasGone, AliasMade, vis
  <2>2. Exists(<<a, k>>) => world[<<a, k>>] \in AliasRow
    BY RowIs DEF Id
  <2>3. Exists(<<a, k>>) => Floored(vis, world[<<a, k>>].floor) \in Floor
    BY <1>2, <2>2 DEF AliasRow, Floor, Floored
  <2>4. Floored(vis, Nil) \in Floor
    BY <1>2 DEF Floor, Floored
  <2>5. CASE x = <<a, k>> /\ Exists(x) /\ w[x] = Delete
    BY <1>7, <2>5 DEF Delete
  <2>6. CASE x = <<e, k>> /\ Exists(<<a, k>>) /\ w[x] = Insert([floor |-> Floored(vis, world[<<a, k>>].floor)])
    BY <1>7, <2>3, <2>6 DEF Insert, AliasRow
  <2>7. CASE x = <<e, k>> /\ world[a].name = k /\ w[x] = Insert([floor |-> Floored(vis, Nil)])
    BY <1>7, <2>4, <2>7 DEF Insert, AliasRow
  <2>8. QED
    BY <2>1, <2>5, <2>6, <2>7
<1>8. \A x \in DOMAIN w : x \in Id /\ (x = a \/ x \in Edges \/ x \in Mentions \/ x \in Steps
                                        \/ \E k \in Key, q \in Entities : x = <<q, k>>)
  BY <1>x
<1>9. w[a].how = "update" /\ w[a].cols = [merged |-> e]
  BY <1>w DEF Update
<1>10. PlanOK(p)
  <2>1. HistoryRow(p.row)
    BY <1>w DEF HistoryRow
  <2>2. ASSUME NEW x \in DOMAIN w PROVE WriteOK(x, w[x])
    <3>1. CASE x = a
      <4>1. [merged |-> e] \in SetsOf(a)
        BY Kinds DEF EntitySets, Id
      <4>2. Refs(a, [merged |-> e]) = {}
        BY <1>d DEF Refs
      <4>3. QED
        BY <1>9, <3>1, <4>1, <4>2 DEF WriteOK
    <3>2. CASE x \in Edges
      <4>1. CASE w[x] = Delete
        BY <1>d, <3>2, <4>1 DEF WriteOK, Delete
      <4>2. CASE w[x] # Delete
        <5>1. w[x].cols \in EdgeMoves /\ w[x].how = "update" /\ \A c \in DOMAIN w[x].cols \ {"floor"} : w[x].cols[c] = e
          BY <1>3, <3>2, <4>2
        <5>2. w[x].cols \in SetsOf(x)
          BY <5>1, <3>2, Kinds DEF Id
        <5>3. Refs(x, w[x].cols) \subseteq {e}
          BY <1>d, <3>2, <5>1 DEF Refs
        <5>4. QED
          BY <1>2, <5>1, <5>2, <5>3 DEF WriteOK
      <4>3. QED
        BY <4>1, <4>2
    <3>3. CASE x \in Mentions
      <4>1. w[x].cols \in SetsOf(x)
        BY <1>4, <3>3, Kinds DEF Id
      <4>2. Refs(x, w[x].cols) \subseteq {e}
        BY <1>4, <1>d, <3>3 DEF Refs
      <4>3. QED
        BY <1>2, <1>4, <3>3, <4>1, <4>2 DEF WriteOK
    <3>4. CASE x \in Steps
      <4>1. w[x].cols \in SetsOf(x)
        BY <1>5, <3>4, Kinds DEF Id, StepSets
      <4>2. Refs(x, w[x].cols) \subseteq {e}
        BY <1>5, <1>d, <3>4 DEF Refs
      <4>3. QED
        BY <1>2, <1>5, <3>4, <4>1, <4>2 DEF WriteOK
    <3>5. ASSUME NEW k \in Key, NEW q \in Entities, x = <<q, k>> PROVE WriteOK(x, w[x])
      <4>1. CASE w[x].how = "delete"
        BY <1>d, <3>5, <4>1 DEF WriteOK
      <4>2. CASE w[x].how # "delete"
        <5>1. q = e /\ w[x].how = "insert" /\ w[x].cols \in AliasRow
          BY <1>7, <3>5, <4>2, ZenonT(40)
        <5>2. w[x].cols \in RowOf(x)
          BY <3>5, <5>1, Kinds DEF Id
        <5>3. Refs(x, w[x].cols) \subseteq {e}
          BY <3>5, <5>1 DEF Refs, AliasRow
        <5>4. QED
          BY <1>2, <5>1, <5>2, <5>3 DEF WriteOK
      <4>3. QED
        BY <4>1, <4>2
    <3>6. QED
      BY <1>8, <3>1, <3>2, <3>3, <3>4, <3>5
  <2>3. QED
    BY <1>w, <1>2, <1>8, <2>1, <2>2 DEF PlanOK, w
<1>11. FieldsBy(s, p)
  BY <1>w, <1>2, <1>6, <1>9 DEF FieldsBy, IsFieldRow, Tracked, w
<1>12. HomesBy(s, p)
  <2>1. ASSUME NEW x \in DOMAIN w, x \in Steps \cup Mentions PROVE Exists(x) /\ Subject(x) = a
    BY <1>4, <1>5, <1>8, <2>1, RowIs
  <2>2. ASSUME NEW x \in DOMAIN w, NEW q \in Entities, x \in {q} \X Key PROVE locks[q] = s
    <3>1. PICK k \in Key : x = <<q, k>>
      BY <2>2
    <3>2. AliasGone(w, a, x) \/ AliasMade(w, a, e, x)
      BY <1>x, <3>1
    <3>3. q = a \/ q = e
      BY <3>1, <3>2 DEF AliasGone, AliasMade
    <3>4. QED
      BY <3>3
  <2>3. QED
    BY <1>w, <1>9, <2>1, <2>2 DEF HomesBy, w
<1>13. NewBy(s, p)
  BY <1>w DEF NewBy, Additions
<1>14. InsertsBy(p)
  <2>1. \A x \in DOMAIN w : x \in Edges \cup Steps \cup Mentions => w[x].how # "insert"
    BY <1>3, <1>4, <1>5 DEF Delete
  <2>2. QED
    BY <2>1 DEF InsertsBy, w
<1>15. MergesBy(s, p)
  <2>1. ASSUME NEW x \in DOMAIN w PROVE
          /\ x \in Entities => x = a /\ w[x] = Update([merged |-> e])
          /\ x \in Edges /\ w[x].how # "delete" =>
                /\ w[x].how = "update" /\ w[x].cols \in EdgeMoves
                /\ \A c \in DOMAIN w[x].cols \ {"floor"} : w[x].cols[c] = e /\ (Exists(x) => world[x][c] = a)
                /\ Exists(x) => FloorSet(world[a].vis, world[x].floor, w[x].cols)
          /\ x \in Mentions =>
                /\ w[x].how = "update" /\ world[x].entity = a /\ w[x].cols.entity = e
                /\ w[x].cols \notin [confirmed : BOOLEAN]
                /\ FloorSet(world[a].vis, world[x].floor, w[x].cols)
          /\ \A k \in Key, q \in Entities : x = <<q, k>> /\ w[x].how # "delete" =>
                /\ w[x].how = "insert" /\ q = e
                /\ \/ Exists(<<a, k>>) /\ w[x].cols.floor = Floored(world[a].vis, world[<<a, k>>].floor)
                   \/ world[a].name = k /\ w[x].cols.floor = Floored(world[a].vis, Nil)
    <3>1. x \in Entities => x = a /\ w[x] = Update([merged |-> e])
      BY <1>w, <1>6 DEF w
    <3>2. x \in Edges /\ w[x].how # "delete" =>
                /\ w[x].how = "update" /\ w[x].cols \in EdgeMoves
                /\ \A c \in DOMAIN w[x].cols \ {"floor"} : w[x].cols[c] = e /\ (Exists(x) => world[x][c] = a)
                /\ Exists(x) => FloorSet(world[a].vis, world[x].floor, w[x].cols)
      BY <1>3 DEF vis, Delete
    <3>3. x \in Mentions =>
                /\ w[x].how = "update" /\ world[x].entity = a /\ w[x].cols.entity = e
                /\ w[x].cols \notin [confirmed : BOOLEAN]
                /\ FloorSet(world[a].vis, world[x].floor, w[x].cols)
      BY <1>4 DEF vis
    <3>4. \A k \in Key, q \in Entities : x = <<q, k>> /\ w[x].how # "delete" =>
                /\ w[x].how = "insert" /\ q = e
                /\ \/ Exists(<<a, k>>) /\ w[x].cols.floor = Floored(world[a].vis, world[<<a, k>>].floor)
                   \/ world[a].name = k /\ w[x].cols.floor = Floored(world[a].vis, Nil)
      BY <1>7 DEF vis
    <3>5. QED
      BY <3>1, <3>2, <3>3, <3>4
  <2>2. p.row.op = "merge" /\ p.row.on = a /\ p.row.entity = e
    BY <1>w
  <2>3. QED
    BY <2>1, <2>2 DEF MergesBy, w
<1>16. \A x \in DOMAIN w : Exists(x) \/ x \in Entities \cup (Entities \X Key)
  BY <1>3, <1>4, <1>5, <1>8
<1>17. QED
  BY <1>w, <1>10, <1>11, <1>12, <1>13, <1>14, <1>15, <1>16 DEF Founded, p, w

\* What an Entity's change compares and restores is a part of its row.
LEMMA OldOf ==
    ASSUME NEW row
    PROVE  /\ row \in EntityRow => /\ \A cols \in FieldCols : Only(row, DOMAIN cols) \in FieldCols
                                   /\ \A cols \in [deleted : Time] : Only(row, DOMAIN cols) \in [deleted : Time]
                                   /\ \A cols \in [vis : Visibility] : Only(row, DOMAIN cols) \in [vis : Visibility]
           /\ row \in EdgeRow => /\ \A cols \in [note : Notes] : Only(row, DOMAIN cols) \in [note : Notes]
                                 /\ \A cols \in [ended : Time] : Only(row, DOMAIN cols) \in [ended : Time]
                                 /\ \A cols \in [vis : Visibility] : Only(row, DOMAIN cols) \in [vis : Visibility]
           /\ row \in StepRow => \A cols \in [done : BOOLEAN] : Only(row, DOMAIN cols) \in [done : BOOLEAN]
<1>1. ASSUME row \in EntityRow, NEW cols \in FieldCols PROVE Only(row, DOMAIN cols) \in FieldCols
  <2>1. CASE cols \in [name : Key]
    <3>1. Only(row, DOMAIN cols) = [name |-> row.name]
      BY <2>1 DEF Only
    <3>2. QED
      BY <1>1, <3>1 DEF FieldCols, EntityRow
  <2>2. CASE cols \in [status : Status, stamp : Time]
    <3>1. Only(row, DOMAIN cols) = [status |-> row.status, stamp |-> row.stamp]
      BY <2>2 DEF Only
    <3>2. QED
      BY <1>1, <3>1 DEF FieldCols, EntityRow
  <2>3. CASE cols \in [stamp : Time]
    <3>1. Only(row, DOMAIN cols) = [stamp |-> row.stamp]
      BY <2>3 DEF Only
    <3>2. QED
      BY <1>1, <3>1 DEF FieldCols, EntityRow
  <2>4. QED
    BY <1>1, <2>1, <2>2, <2>3 DEF FieldCols
<1>2. ASSUME row \in EntityRow, NEW cols \in [deleted : Time] PROVE Only(row, DOMAIN cols) \in [deleted : Time]
  <2>1. Only(row, DOMAIN cols) = [deleted |-> row.deleted]
    BY <1>2 DEF Only
  <2>2. QED
    BY <1>2, <2>1 DEF EntityRow
<1>3. ASSUME row \in EntityRow \/ row \in EdgeRow, NEW cols \in [vis : Visibility]
      PROVE  Only(row, DOMAIN cols) \in [vis : Visibility]
  <2>1. Only(row, DOMAIN cols) = [vis |-> row.vis]
    BY <1>3 DEF Only
  <2>2. QED
    BY <1>3, <2>1 DEF EntityRow, EdgeRow
<1>4. ASSUME row \in EdgeRow, NEW cols \in [note : Notes] PROVE Only(row, DOMAIN cols) \in [note : Notes]
  <2>1. Only(row, DOMAIN cols) = [note |-> row.note]
    BY <1>4 DEF Only
  <2>2. QED
    BY <1>4, <2>1 DEF EdgeRow
<1>5. ASSUME row \in EdgeRow, NEW cols \in [ended : Time] PROVE Only(row, DOMAIN cols) \in [ended : Time]
  <2>1. Only(row, DOMAIN cols) = [ended |-> row.ended]
    BY <1>5 DEF Only
  <2>2. QED
    BY <1>5, <2>1 DEF EdgeRow
<1>6. ASSUME row \in StepRow, NEW cols \in [done : BOOLEAN] PROVE Only(row, DOMAIN cols) \in [done : BOOLEAN]
  <2>1. Only(row, DOMAIN cols) = [done |-> row.done]
    BY <1>6 DEF Only
  <2>2. QED
    BY <1>6, <2>1 DEF StepRow
<1>7. QED
  BY <1>1, <1>2, <1>3, <1>4, <1>5, <1>6

\* What a session in its handler has locked and found.
LEMMA TargetIs ==
    ASSUME TypeOK, NEW s \in Session, Ready(s), NEW r, r = req[s], r.op \notin {"create", "revert"}
    PROVE  /\ r.id \in Id /\ r.id \notin Entities \X Key /\ Exists(r.id) /\ locks[r.id] = s
           /\ Subject(r.id) \in Entities /\ Exists(Subject(r.id)) /\ locks[Subject(r.id)] = s
           /\ r.op # "merge" => About(r) = Subject(r.id)
           /\ r.id \in Entities => Subject(r.id) = r.id
<1>0. r \in Requests /\ Found(r)
  BY DEF Ready, Applies
<1>1. Asked(r) /\ Found(r)
  BY <1>0, CanonAssumption
<1>2. r.id \in Entities \cup Edges \cup Steps \cup Mentions
  BY <1>1 DEF Asked
<1>3. r.id \in Id /\ r.id \notin Entities \X Key
  BY <1>2, CanonAssumption DEF Id
<1>4. Exists(r.id)
  BY <1>1 DEF Found, Usable, Live
<1>5. Held(s, r.id)
  BY LookedUp DEF Ready
<1>6. locks[r.id] = s /\ \A e \in Hosts(r.id) : locks[e] = s
  BY <1>4, <1>5 DEF Held
<1>7. QED
  <2>1. WorldOK
    BY DEF TypeOK
  <2>2. Subject(r.id) \in Entities /\ Exists(Subject(r.id)) /\ Subject(r.id) \in Hosts(r.id)
    BY <1>3, <1>4, <2>1, RowIs
  <2>3. r.id \in Entities => Subject(r.id) = r.id
    BY <1>3, <1>4, <2>1, RowIs
  <2>4. r.op # "merge" => About(r) = Subject(r.id)
    BY DEF About
  <2>5. QED
    BY <1>3, <1>4, <1>6, <2>2, <2>3, <2>4

\* What a revert that applies has found: the history row, its Entity, and the row where it rereads it.
LEMMA RevertTargetIs ==
    ASSUME TypeOK, NEW s \in Session, Ready(s), NEW r, r = req[s], r.op = "revert"
    PROVE  LET c == changes[r.id] IN
           /\ r.id \in DOMAIN changes /\ HistoryRow(c) /\ c.entity \in Entities
           /\ Exists(c.entity) /\ locks[c.entity] = s /\ world[c.entity].merged = Nil
           /\ About(r) = c.entity
           /\ ~NotRevertible(c)
           /\ c.op \in Rereads => Exists(c.on) /\ Held(s, c.on)
<1> DEFINE c == changes[r.id]
<1>1. r.id \in DOMAIN changes
  BY DEF Ready, TypeOK, AskedOK
<1>2. HistoryRow(c) /\ Exists(c.entity)
  BY <1>1 DEF TypeOK, HistoryOK
<1>3. c.entity \in Entities
  BY <1>2 DEF HistoryRow
<1>4. Found(r)
  BY DEF Ready, Applies
<1>5. ~NotRevertible(c) /\ world[c.entity].merged = Nil /\ (c.op \in Rereads => Usable(c.on))
  BY <1>4 DEF Found, Rereads
<1>6. Held(s, c.entity) /\ (c.op \in Rereads => Held(s, c.on))
  BY LookedUp DEF Ready
<1>7. locks[c.entity] = s
  BY <1>2, <1>6 DEF Held
<1>8. About(r) = c.entity
  BY DEF About
<1>9. QED
  BY <1>1, <1>2, <1>3, <1>5, <1>6, <1>7, <1>8 DEF Usable

\* Every change but a revert is founded on the rows it holds.
LEMMA EffectIs ==
    ASSUME TypeOK, NEW s \in Session, Ready(s), req[s].op # "revert"
    PROVE  Founded(s, Effect(req[s]))
<1> DEFINE r == req[s]
           p == Effect(r)
           x == r.id
<1>1. r \in Requests /\ Asked(r) /\ Found(r) /\ Fits(r) /\ IdsLeft(r) /\ WorldOK
  BY CanonAssumption DEF Ready, Applies, TypeOK
<1>n. Now \in Nat /\ Now \in Time /\ Nil \in Time
  BY HistoryGrows DEF Now, Time, TypeOK, ShapesOK
<1> HIDE DEF r, x
<1>t. r.op # "create" =>
        /\ x \in Id /\ x \notin Entities \X Key /\ Exists(x) /\ locks[x] = s
        /\ Subject(x) \in Entities /\ Exists(Subject(x)) /\ locks[Subject(x)] = s
        /\ r.op # "merge" => About(r) = Subject(x)
        /\ x \in Entities => Subject(x) = x
  BY TargetIs DEF r, x
<1>d. /\ Entities \cap (Edges \cup Steps \cup Mentions) = {} /\ Edges \cap (Steps \cup Mentions) = {} /\ Steps \cap Mentions = {}
      /\ (Entities \cup Edges \cup Steps \cup Mentions) \cap (Entities \X Key) = {}
  BY CanonAssumption
<1>c. \A y, cols : LET q == Change(r, y, cols) IN
        /\ q.row.op = r.op /\ q.row.entity = About(r) /\ q.row.on = y /\ q.row.new = cols
        /\ q.row.old = Only(world[y], DOMAIN cols) /\ DOMAIN q.row.old = DOMAIN cols
  BY DEF Change, Row, Only
<1>a. \A y, row, shown : LET q == Addition(r, y, row, shown) IN
        q.row.op = r.op /\ q.row.entity = About(r) /\ q.row.on = y /\ q.row.new = shown
  BY DEF Addition, Row
<1>r. \A y : LET q == Removal(r, y) IN q.row.op = r.op /\ q.row.entity = About(r) /\ q.row.on = y /\ q.row.old = world[y]
  BY DEF Removal, Row
<1>w. /\ x \in Entities /\ r.op # "create" => world[x] \in EntityRow
      /\ x \in Edges /\ r.op # "create" => world[x] \in EdgeRow
      /\ x \in Steps /\ r.op # "create" => world[x] \in StepRow
      /\ x \in Mentions /\ r.op # "create" => world[x] \in MentionRow
  BY <1>1, <1>t, RowIs
<1>2. CASE r.op = "create"
  <2>1. x \in Entities \cup {Nil} /\ r.arg.name \in Key /\ r.arg.actor \in User
    BY <1>1, <1>2 DEF Asked, x
  <2>2. x = Nil => Fresh(Entities) \in Entities
    BY <1>1, <1>2 DEF IdsLeft, Fresh, Unused, x
  <2> DEFINE e == IF r.id = Nil THEN Fresh(Entities) ELSE r.id
  <2>3. e \in Entities
    BY <2>1, <2>2 DEF x
  <2>4. Founded(s, Created(r))
    BY <1>2, <2>1, <2>3, CreatedIs
  <2>5. QED
    BY <1>2, <2>4 DEF Effect, r
<1>3. CASE r.op = "set"
  <2> DEFINE cols == IF "status" \in DOMAIN r.arg
                     THEN [status |-> r.arg.status, stamp |-> Stamped(r.id, r.arg.status)] ELSE r.arg
  <2>1. x \in Entities /\ r.arg \in [name : Key] \cup [status : Status] \cup [stamp : Time]
    BY <1>1, <1>3 DEF Asked, x
  <2>2. Stamped(x, r.arg.status) \in Time
    BY <1>3, <1>n, <1>w, <2>1 DEF Stamped, EntityRow
  <2>3. cols \in FieldCols
    BY <2>1, <2>2 DEF FieldCols, x
  <2>4. p = Change(r, x, cols)
    BY <1>3 DEF Effect, x
  <2> HIDE DEF cols
  <2>5. Only(world[x], DOMAIN cols) \in FieldCols
    BY <1>3, <1>w, <2>1, <2>3, OldOf
  <2>6. HistoryRow(Change(r, x, cols).row)
    BY <1>3, <1>c, <1>t, <2>1, <2>3, <2>5 DEF HistoryRow, Both
  <2>7. Founded(s, Change(r, x, cols))
    BY <1>1, <1>3, <1>d, <1>t, <2>1, <2>3, <2>6, ChangeIs DEF Plain
  <2>8. QED
    BY <2>4, <2>7 DEF p, r
<1>4. CASE r.op = "delete"
  <2> DEFINE cols == [deleted |-> Now]
  <2>1. x \in Entities /\ cols \in [deleted : Time] /\ cols \notin FieldCols
    BY <1>1, <1>4, <1>n DEF Asked, x, FieldCols
  <2>2. p = Change(r, x, cols)
    BY <1>4 DEF Effect, x
  <2> HIDE DEF cols
  <2>3. Only(world[x], DOMAIN cols) \in [deleted : Time]
    BY <1>4, <1>w, <2>1, OldOf
  <2>4. HistoryRow(Change(r, x, cols).row)
    BY <1>4, <1>c, <1>t, <2>1, <2>3 DEF HistoryRow, Both
  <2>5. Founded(s, Change(r, x, cols))
    BY <1>1, <1>4, <1>d, <1>t, <2>1, <2>4, ChangeIs DEF Plain
  <2>6. QED
    BY <2>2, <2>5 DEF p, r
<1>5. CASE r.op = "update_relationship"
  <2> DEFINE cols == r.arg
  <2>1. x \in Edges /\ cols \in [note : Notes]
    BY <1>1, <1>5 DEF Asked, x
  <2>2. p = Change(r, x, cols)
    BY <1>5 DEF Effect, x
  <2> HIDE DEF cols
  <2>3. Only(world[x], DOMAIN cols) \in [note : Notes]
    BY <1>5, <1>w, <2>1, OldOf
  <2>4. HistoryRow(Change(r, x, cols).row)
    BY <1>5, <1>c, <1>t, <2>1, <2>3 DEF HistoryRow, Both
  <2>5. Founded(s, Change(r, x, cols))
    BY <1>1, <1>5, <1>d, <1>t, <2>1, <2>4, ChangeIs DEF Plain, EdgeSets
  <2>6. QED
    BY <2>2, <2>5 DEF p, r
<1>6. CASE r.op = "end_relationship"
  <2> DEFINE cols == [ended |-> Now]
  <2>1. x \in Edges /\ cols \in [ended : Time]
    BY <1>1, <1>6, <1>n DEF Asked, x
  <2>2. p = Change(r, x, cols)
    BY <1>6 DEF Effect, x
  <2> HIDE DEF cols
  <2>3. Only(world[x], DOMAIN cols) \in [ended : Time]
    BY <1>6, <1>w, <2>1, OldOf
  <2>4. HistoryRow(Change(r, x, cols).row)
    BY <1>6, <1>c, <1>t, <2>1, <2>3 DEF HistoryRow, Both
  <2>5. Founded(s, Change(r, x, cols))
    BY <1>1, <1>6, <1>d, <1>t, <2>1, <2>4, ChangeIs DEF Plain, EdgeSets
  <2>6. QED
    BY <2>2, <2>5 DEF p, r
<1>7. CASE r.op = "update_step"
  <2> DEFINE cols == r.arg
  <2>1. x \in Steps /\ cols \in [done : BOOLEAN]
    BY <1>1, <1>7 DEF Asked, x
  <2>2. p = Change(r, x, cols)
    BY <1>7 DEF Effect, x
  <2> HIDE DEF cols
  <2>3. Only(world[x], DOMAIN cols) \in [done : BOOLEAN]
    BY <1>7, <1>w, <2>1, OldOf
  <2>4. HistoryRow(Change(r, x, cols).row)
    BY <1>7, <1>c, <1>t, <2>1, <2>3 DEF HistoryRow, Both
  <2>5. Founded(s, Change(r, x, cols))
    BY <1>1, <1>7, <1>d, <1>t, <2>1, <2>4, ChangeIs DEF Plain
  <2>6. QED
    BY <2>2, <2>5 DEF p, r
<1>8. CASE r.op = "confirm_mention"
  <2> DEFINE cols == [confirmed |-> TRUE]
  <2>1. x \in Mentions /\ cols \in [confirmed : BOOLEAN] /\ world[x].confirmed = FALSE
    BY <1>1, <1>8, <1>w DEF Asked, Fits, x, MentionRow
  <2>2. p = Change(r, x, cols)
    BY <1>8 DEF Effect, x
  <2>3. Only(world[x], DOMAIN cols) = [confirmed |-> FALSE]
    <3>1. cols \in [confirmed : BOOLEAN]
      OBVIOUS
    <3> HIDE DEF cols
    <3>2. Only(world[x], DOMAIN cols) = [confirmed |-> world[x].confirmed]
      BY <3>1 DEF Only
    <3>3. world[x].confirmed = FALSE
      BY <2>1
    <3>4. QED
      BY <3>2, <3>3, Zenon
  <2>4. HistoryRow(Change(r, x, cols).row)
    BY <1>8, <1>c, <1>t, <2>1, <2>3 DEF HistoryRow
  <2> HIDE DEF cols
  <2>5. Founded(s, Change(r, x, cols))
    BY <1>1, <1>8, <1>d, <1>t, <2>1, <2>4, ChangeIs DEF Plain
  <2>6. QED
    BY <2>2, <2>5 DEF p, r
<1>9. CASE r.op = "set_visibility"
  <2> DEFINE cols == r.arg
  <2>1. x \in Entities \cup Edges /\ cols \in [vis : Visibility] /\ cols \notin FieldCols
    BY <1>1, <1>9 DEF Asked, x, FieldCols
  <2>2. p = Change(r, x, cols)
    BY <1>9 DEF Effect, x
  <2> HIDE DEF cols
  <2>3. Only(world[x], DOMAIN cols) \in [vis : Visibility]
    BY <1>9, <1>w, <2>1, OldOf
  <2>4. HistoryRow(Change(r, x, cols).row)
    BY <1>9, <1>c, <1>t, <2>1, <2>3 DEF HistoryRow, Both
  <2>5. Founded(s, Change(r, x, cols))
    BY <1>1, <1>9, <1>d, <1>t, <2>1, <2>4, ChangeIs DEF Plain, EdgeSets
  <2>6. QED
    BY <2>2, <2>5 DEF p, r
<1>10. CASE r.op = "remove_mention"
  <2>1. x \in Mentions /\ p = Removal(r, x)
    BY <1>1, <1>10 DEF Asked, Effect, x
  <2>2. HistoryRow(Removal(r, x).row)
    BY <1>10, <1>r, <1>t, <1>w, <2>1 DEF HistoryRow
  <2>3. Founded(s, Removal(r, x))
    BY <1>10, <1>d, <1>t, <2>1, <2>2, RemovalIs
  <2>4. QED
    BY <2>1, <2>3 DEF p, r
<1>11. CASE r.op \in {"add_alias", "remove_alias"}
  <2> DEFINE y == <<r.id, r.arg.key>>
  <2>1. x \in Entities /\ r.arg.key \in Key
    BY <1>1, <1>11 DEF Asked, x
  <2>2. y \in Id /\ y \in {x} \X Key /\ y \in Entities \X Key /\ \A e \in Entities : y \in {e} \X Key => e = x
    BY <2>1 DEF Id, x
  <2>3. CASE r.op = "add_alias"
    <3> DEFINE row == [floor |-> Nil]
    <3>1. ~Exists(y) /\ p = Addition(r, y, row, row)
      BY <1>1, <2>3 DEF Fits, Effect
    <3>2. row \in AliasRow /\ RowOf(y) = AliasRow
      BY <2>2, Kinds DEF AliasRow, Floor
    <3>3. Refs(y, row) \subseteq {x}
      BY <2>2 DEF Refs
    <3> HIDE DEF y, row
    <3>4. HistoryRow(Addition(r, y, row, row).row)
      BY <1>a, <1>t, <2>1, <2>2, <2>3, <3>2 DEF HistoryRow
    <3>5. y \notin Entities
      BY <1>d, <2>2
    <3>6. Exists(About(r)) /\ \A e \in Refs(y, row) : Exists(e)
      BY <1>t, <2>3, <3>3
    <3>7. \A e \in Entities : y \in {e} \X Key => locks[e] = s
      BY <1>t, <2>2, <2>3
    <3>8. Founded(s, Addition(r, y, row, row))
      BY <2>2, <2>3, <3>1, <3>2, <3>4, <3>5, <3>6, <3>7, AdditionIs
    <3>9. QED
      BY <3>1, <3>8 DEF p, r
  <2>4. CASE r.op = "remove_alias"
    <3>1. Exists(y) /\ p = Removal(r, y)
      BY <1>1, <2>4 DEF Fits, Effect
    <3> HIDE DEF y
    <3>2. world[y] \in AliasRow
      BY <1>1, <2>2, <3>1, RowIs
    <3>3. HistoryRow(Removal(r, y).row)
      BY <1>r, <1>t, <2>1, <2>2, <2>4, <3>2 DEF HistoryRow
    <3>4. y \notin Entities /\ y \notin Steps \cup Mentions
      BY <1>d, <2>2
    <3>5. Exists(About(r)) /\ \A e \in Entities : y \in {e} \X Key => locks[e] = s
      BY <1>t, <2>2, <2>4
    <3>6. Founded(s, Removal(r, y))
      BY <2>2, <2>4, <3>1, <3>3, <3>4, <3>5, RemovalIs
    <3>7. QED
      BY <3>1, <3>6 DEF p, r
  <2>5. QED
    BY <1>11, <2>3, <2>4
<1>12. CASE r.op = "add_relationship"
  <2> DEFINE y == Fresh(Edges)
             row == [src |-> r.id, dst |-> r.arg.target, note |-> Nil, ended |-> Nil, vis |-> "gm", floor |-> Nil]
             shown == [dst |-> r.arg.target, note |-> Nil]
  <2>1. x \in Entities /\ r.arg.target \in Entities /\ Exists(r.arg.target)
    BY <1>1, <1>12 DEF Asked, Found, Live, x
  <2>2. y \in Unused(Edges)
    BY <1>1, <1>12 DEF IdsLeft, Fresh
  <2>3. y \in Edges /\ ~Exists(y) /\ y \in Id /\ y \notin Entities /\ y \notin Entities \X Key
        /\ (\A i \in DOMAIN changes : changes[i].on # y)
        /\ (\A t \in Session \ {s} : Flushing(t) => y \notin DOMAIN plan[t].writes)
    BY <2>2, <1>d DEF Unused, Id, Flushing
  <2>4. p = Addition(r, y, row, shown)
    BY <1>12 DEF Effect
  <2>5. row \in EdgeRow /\ RowOf(y) = EdgeRow
    BY <1>n, <2>1, <2>3, Kinds DEF EdgeRow, Floor, Visibility, Notes, x
  <2>6. Refs(y, row) \subseteq {x, r.arg.target}
    BY <2>3 DEF Refs, x
  <2>7. shown \in [dst : Entities, note : Notes]
    BY <2>1 DEF Notes
  <2> HIDE DEF y, row, shown
  <2>8. HistoryRow(Addition(r, y, row, shown).row)
    BY <1>12, <1>a, <1>t, <2>1, <2>3, <2>7 DEF HistoryRow
  <2>9. Exists(About(r)) /\ \A e \in Refs(y, row) : Exists(e)
    BY <1>t, <1>12, <2>1, <2>6
  <2>10. Founded(s, Addition(r, y, row, shown))
    BY <1>12, <2>3, <2>5, <2>8, <2>9, AdditionIs DEF Additions
  <2>11. QED
    BY <2>4, <2>10 DEF p, r
<1>13. CASE r.op = "add_step"
  <2> DEFINE y == Fresh(Steps)
             row == [quest |-> r.id, done |-> FALSE]
             shown == [done |-> FALSE]
  <2>1. x \in Entities
    BY <1>1, <1>13 DEF Asked, x
  <2>2. y \in Unused(Steps)
    BY <1>1, <1>13 DEF IdsLeft, Fresh
  <2>3. y \in Steps /\ ~Exists(y) /\ y \in Id /\ y \notin Entities /\ y \notin Entities \X Key
        /\ (\A i \in DOMAIN changes : changes[i].on # y)
        /\ (\A t \in Session \ {s} : Flushing(t) => y \notin DOMAIN plan[t].writes)
    BY <2>2, <1>d DEF Unused, Id, Flushing
  <2>4. p = Addition(r, y, row, shown)
    BY <1>13 DEF Effect
  <2>5. row \in StepRow /\ RowOf(y) = StepRow /\ row.quest = x
    BY <2>1, <2>3, Kinds DEF StepRow, x
  <2>6. Refs(y, row) \subseteq {x}
    BY <2>3 DEF Refs, x
  <2>7. shown \in [done : BOOLEAN]
    OBVIOUS
  <2> HIDE DEF y, row, shown
  <2>8. HistoryRow(Addition(r, y, row, shown).row)
    BY <1>13, <1>a, <1>t, <2>1, <2>3, <2>7 DEF HistoryRow
  <2>9. Exists(About(r)) /\ About(r) = x /\ \A e \in Refs(y, row) : Exists(e)
    BY <1>t, <1>13, <2>1, <2>6
  <2>10. Founded(s, Addition(r, y, row, shown))
    BY <1>13, <2>3, <2>5, <2>8, <2>9, AdditionIs DEF Additions
  <2>11. QED
    BY <2>4, <2>10 DEF p, r
<1>14. CASE r.op = "add_mention"
  <2> DEFINE y == Fresh(Mentions)
             row == [entity |-> r.id, confirmed |-> FALSE, floor |-> Nil]
             shown == [confirmed |-> FALSE]
  <2>1. x \in Entities
    BY <1>1, <1>14 DEF Asked, x
  <2>2. y \in Unused(Mentions)
    BY <1>1, <1>14 DEF IdsLeft, Fresh
  <2>3. y \in Mentions /\ ~Exists(y) /\ y \in Id /\ y \notin Entities /\ y \notin Entities \X Key
        /\ (\A i \in DOMAIN changes : changes[i].on # y)
        /\ (\A t \in Session \ {s} : Flushing(t) => y \notin DOMAIN plan[t].writes)
    BY <2>2, <1>d DEF Unused, Id, Flushing
  <2>4. p = Addition(r, y, row, shown)
    BY <1>14 DEF Effect
  <2>5. row \in MentionRow /\ RowOf(y) = MentionRow /\ row.entity = x
    BY <2>1, <2>3, Kinds DEF MentionRow, x, Floor
  <2>6. Refs(y, row) \subseteq {x}
    BY <2>3 DEF Refs, x
  <2>7. shown \in [confirmed : BOOLEAN]
    OBVIOUS
  <2> HIDE DEF y, row, shown
  <2>8. HistoryRow(Addition(r, y, row, shown).row)
    BY <1>14, <1>a, <1>t, <2>1, <2>3, <2>7 DEF HistoryRow
  <2>9. Exists(About(r)) /\ About(r) = x /\ \A e \in Refs(y, row) : Exists(e)
    BY <1>t, <1>14, <2>1, <2>6
  <2>10. Founded(s, Addition(r, y, row, shown))
    BY <1>14, <2>3, <2>5, <2>8, <2>9, AdditionIs DEF Additions
  <2>11. QED
    BY <2>4, <2>10 DEF p, r
<1>15. CASE r.op = "merge"
  <2> DEFINE e == r.arg.survivor
  <2>1. x \in Entities /\ e \in Entities /\ x # e /\ Live(x) /\ Live(e)
    BY <1>1, <1>15 DEF Asked, Found, Fits, x
  <2>2. Held(s, e)
    BY <1>15, LookedUp DEF Ready, r
  <2>3. locks[x] = s /\ locks[e] = s
    BY <1>15, <1>t, <2>1, <2>2 DEF Held, Live
  <2>4. p = Merged(r)
    BY <1>15 DEF Effect
  <2> HIDE DEF e
  <2>5. Founded(s, Merged(r))
    BY <1>1, <1>15, <2>1, <2>3, MergedIs DEF e, x
  <2>6. QED
    BY <2>4, <2>5 DEF p, r
<1>16. CASE r.op = "note"
  <2>1. p.writes = << >> /\ p.row.op = "note" /\ p.row.entity = x /\ p.row.on = x /\ p.row.new = Nil /\ x \in Entities
    BY <1>1, <1>16 DEF Effect, Row, Asked, x
  <2>2. DOMAIN p.writes = {}
    BY <2>1
  <2> HIDE DEF p
  <2>3. HistoryRow(p.row)
    BY <2>1 DEF HistoryRow
  <2>4. PlanOK(p)
    BY <1>16, <1>t, <2>1, <2>2, <2>3 DEF PlanOK
  <2>5. FieldsBy(s, p) /\ HomesBy(s, p) /\ NewBy(s, p) /\ InsertsBy(p) /\ MergesBy(s, p)
    BY <2>1, <2>2 DEF FieldsBy, HomesBy, NewBy, InsertsBy, MergesBy, Additions
  <2>6. Founded(s, p)
    BY <2>1, <2>2, <2>4, <2>5 DEF Founded
  <2>7. QED
    BY <2>6 DEF p, r
<1>17. r.op # "revert"
  BY DEF r
<1>18. QED
  <2>1. Asked(r)
    BY <1>1
  <2>2. r.op \in {"create", "set", "add_alias", "remove_alias", "add_relationship", "update_relationship", "end_relationship",
                  "update_step", "confirm_mention", "remove_mention", "add_step", "add_mention", "delete", "note", "merge",
                  "set_visibility"}
    BY <1>17, <2>1 DEF Asked
  <2>3. QED
    BY <1>2, <1>3, <1>4, <1>5, <1>6, <1>7, <1>8, <1>9, <1>10, <1>11, <1>12, <1>13, <1>14, <1>15, <1>16, <2>2

\* A revert writes the one row, and it found what the change had left there.
LEMMA RevertedIs ==
    ASSUME TypeOK, HomesKept, NEW s \in Session, Ready(s), req[s].op = "revert"
    PROVE  Founded(s, Effect(req[s])) /\ RevertsBy(s, Effect(req[s]))
<1> DEFINE r == req[s]
           c == changes[r.id]
           p == Effect(r)
<1>1. Fits(r) /\ WorldOK
  BY DEF Ready, Applies, TypeOK
<1>n. Now \in Nat /\ Now \in Time /\ Nil \in Time
  BY HistoryGrows DEF Now, Time, TypeOK, ShapesOK
<1>2. r.op = "revert"
  OBVIOUS
<1>t. /\ r.id \in DOMAIN changes /\ HistoryRow(c) /\ c.entity \in Entities
      /\ Exists(c.entity) /\ locks[c.entity] = s /\ world[c.entity].merged = Nil
      /\ About(r) = c.entity
      /\ ~NotRevertible(c)
      /\ c.op \in Rereads => Exists(c.on) /\ Held(s, c.on)
  BY RevertTargetIs DEF r, c
<1>3. p = Reverted(r)
  BY <1>2 DEF Effect
<1> HIDE DEF r
<1>d. /\ Entities \cap (Edges \cup Steps \cup Mentions) = {} /\ Edges \cap (Steps \cup Mentions) = {} /\ Steps \cap Mentions = {}
      /\ (Entities \cup Edges \cup Steps \cup Mentions) \cap (Entities \X Key) = {}
  BY CanonAssumption
<1>c. \A y, cols : LET q == Change(r, y, cols) IN
        /\ q.row.op = "revert" /\ q.row.entity = c.entity /\ q.row.on = y /\ q.row.new = cols
        /\ q.row.old = Only(world[y], DOMAIN cols) /\ DOMAIN q.row.old = DOMAIN cols
        /\ DOMAIN q.writes = {y} /\ q.writes[y] = Update(cols)
  BY <1>2, <1>t DEF Change, Row, Only
<1>a. \A y, row, shown : LET q == Addition(r, y, row, shown) IN
        /\ q.row.op = "revert" /\ q.row.entity = c.entity /\ q.row.on = y /\ q.row.new = shown
        /\ DOMAIN q.writes = {y} /\ q.writes[y] = Insert(row)
  BY <1>2, <1>t DEF Addition, Row
<1>r. \A y : LET q == Removal(r, y) IN
        /\ q.row.op = "revert" /\ q.row.entity = c.entity /\ q.row.on = y
        /\ DOMAIN q.writes = {y} /\ q.writes[y] = Delete
  BY <1>2, <1>t DEF Removal, Row
<1> HIDE DEF c
<1>fits. (CASE c.op = "create"                           -> world[c.on].deleted = Nil
           [] c.op = "delete"                           -> world[c.on].deleted # Nil
           [] c.op \in {"remove_alias", "remove_mention"} -> ~Exists(c.on)
           [] c.op = "add_alias"                        -> Exists(c.on)
           [] c.op = "confirm_mention"                  -> world[c.on].confirmed
           [] OTHER                                     -> Exists(c.on) /\ (r.arg.force \/ Unchanged(c)))
  BY <1>1, <1>2 DEF Fits, c
\* The row of a reverted change of a row that is no Entity's.
<1>4. ASSUME NEW q, q.row.op = "revert", q.row.entity = c.entity, q.row.on \in Id, q.row.on \notin Entities
      PROVE  HistoryRow(q.row)
  BY <1>4, <1>t DEF HistoryRow
<1>5. ASSUME NEW cols, cols \in FieldCols \/ cols \in [deleted : Time]
      PROVE  HistoryRow(Change(r, c.entity, cols).row) /\ Founded(s, Change(r, c.entity, cols))
  <2>1. c.entity \in Id /\ world[c.entity] \in EntityRow
    BY <1>1, <1>t, RowIs DEF Id
  <2>2. Only(world[c.entity], DOMAIN cols) \in FieldCols \cup [deleted : Time]
    BY <1>5, <2>1, OldOf
  <2>3. HistoryRow(Change(r, c.entity, cols).row)
    BY <1>5, <1>c, <1>t, <2>1, <2>2 DEF HistoryRow, Both
  <2>4. c.entity \notin Edges \cup Steps \cup Mentions /\ c.entity \notin Entities \X Key
    BY <1>d, <1>t
  <2>5. QED
    BY <1>1, <1>2, <1>5, <1>t, <2>1, <2>3, <2>4, ChangeIs DEF Plain
<1>6. CASE c.op = "create"
  <2>1. c.on = c.entity /\ p = Change(r, c.entity, [deleted |-> Now])
    BY <1>3, <1>6, <1>t DEF HistoryRow, Reverted, c
  <2>2. [deleted |-> Now] \in [deleted : Time]
    BY <1>n
  <2>3. Founded(s, p)
    BY <1>5, <2>1, <2>2
  <2>4. RevertsBy(s, p)
    BY <1>6, <1>t DEF RevertsBy, c, r
  <2>5. QED
    BY <2>3, <2>4 DEF p, r
<1>7. CASE c.op \in {"set", "delete", "revert"}
  <2>1. c.on = c.entity /\ (c.old \in FieldCols \/ c.old \in [deleted : Time])
    <3>1. c.op = "revert" => c.on \in Entities
      BY <1>t DEF NotRevertible, IsFieldRow
    <3>2. QED
      BY <1>7, <1>t, <3>1 DEF HistoryRow, Both
  <2>2. p = Change(r, c.on, c.old)
    BY <1>3, <1>7 DEF Reverted, c
  <2>3. Founded(s, p)
    BY <1>5, <2>1, <2>2
  <2>4. RevertsBy(s, p)
    <3>1. CASE c.op = "delete"
      BY <1>t, <3>1 DEF RevertsBy, c, r
    <3>2. CASE c.op # "delete"
      <4>1. Exists(c.on) /\ (r.arg.force \/ Unchanged(c))
        BY <1>7, <1>fits, <3>2
      <4>2. Unchanged(c) => Only(world[c.on], DOMAIN c.new) = c.new
        BY <1>7 DEF Unchanged
      <4>3. DOMAIN p.writes = {c.on} /\ p.writes[c.on] = Update(c.old) /\ locks[c.on] = s
        BY <1>c, <1>t, <2>1, <2>2
      <4> HIDE DEF p
      <4>4. QED
        BY <1>7, <1>t, <3>2, <4>1, <4>2, <4>3 DEF RevertsBy, c, r
    <3>3. QED
      BY <3>1, <3>2
  <2>5. QED
    BY <2>3, <2>4 DEF p, r
<1>8. CASE c.op \in {"update_relationship", "end_relationship", "update_step", "confirm_mention"}
  <2>1. Exists(c.on) /\ Held(s, c.on)
    BY <1>8, <1>t DEF Rereads
  <2>2. /\ c.op \in {"update_relationship", "end_relationship"} => c.on \in Edges /\ c.old \in EdgeSets
        /\ c.op = "update_step" => c.on \in Steps /\ c.old \in [done : BOOLEAN]
        /\ c.op = "confirm_mention" => /\ c.on \in Mentions /\ c.old \in [confirmed : BOOLEAN] /\ c.old = [confirmed |-> FALSE]
                                       /\ c.new = [confirmed |-> TRUE]
    <3>1. CASE c.op \in {"update_relationship", "end_relationship"}
      BY <1>t, <3>1 DEF HistoryRow, Both, EdgeSets
    <3>2. CASE c.op = "update_step"
      BY <1>t, <3>2 DEF HistoryRow, Both
    <3>3. CASE c.op = "confirm_mention"
      <4>1. c.on \in Mentions /\ c.old = [confirmed |-> FALSE] /\ c.new = [confirmed |-> TRUE]
        BY <1>t, <3>3 DEF HistoryRow
      <4>2. [confirmed |-> FALSE] \in [confirmed : BOOLEAN]
        OBVIOUS
      <4>3. c.old \in [confirmed : BOOLEAN]
        BY ONLY <4>1, <4>2, Zenon
      <4>4. QED
        BY <3>3, <4>1, <4>3
    <3>4. QED
      BY <1>8, <3>1, <3>2, <3>3
  <2>3. c.on \in Edges \cup Steps \cup Mentions /\ c.on \in Id
    BY <1>8, <2>2 DEF Id
  <2>4. p = Change(r, c.on, c.old)
    BY <1>3, <1>8, <2>2 DEF Reverted, c
  <2>5. locks[c.on] = s /\ locks[Subject(c.on)] = s
    BY <1>1, <1>d, <2>1, <2>3, RowIs DEF Held
  <2>6. HistoryRow(Change(r, c.on, c.old).row)
    BY <1>4, <1>c, <1>d, <2>3
  <2>7. /\ c.on \notin Entities /\ c.on \notin Entities \X Key
        /\ c.on \in Edges => c.old \in EdgeSets
        /\ c.on \in Steps => c.old \in [done : BOOLEAN]
        /\ c.on \in Mentions => c.old \in [confirmed : BOOLEAN]
    BY <1>8, <1>d, <2>2, <2>3
  <2>8. Founded(s, Change(r, c.on, c.old))
    BY <1>1, <1>2, <1>t, <2>1, <2>3, <2>5, <2>6, <2>7, ChangeIs DEF Plain
  <2>9. r.arg.force \/ Only(world[c.on], DOMAIN c.new) = c.new
    <3>1. CASE c.op = "confirm_mention"
      <4>1. world[c.on] \in MentionRow /\ world[c.on].confirmed
        BY <1>1, <1>fits, <2>1, <2>2, <2>3, <3>1, RowIs
      <4>2. world[c.on].confirmed = TRUE
        BY <4>1 DEF MentionRow
      <4>3. c.new \in [confirmed : BOOLEAN] /\ c.new = [confirmed |-> TRUE]
        <5>1. [confirmed |-> TRUE] \in [confirmed : BOOLEAN]
          OBVIOUS
        <5>2. c.new = [confirmed |-> TRUE]
          BY <2>2, <3>1
        <5>3. QED
          BY ONLY <5>1, <5>2, Zenon
      <4>4. Only(world[c.on], DOMAIN c.new) = [confirmed |-> world[c.on].confirmed]
        BY <4>3 DEF Only
      <4>5. QED
        BY <4>2, <4>3, <4>4, Zenon
    <3>2. CASE c.op # "confirm_mention"
      BY <1>8, <1>fits, <3>2 DEF Unchanged
    <3>3. QED
      BY <3>1, <3>2
  <2>10. DOMAIN p.writes = {c.on} /\ p.writes[c.on] = Update(c.old)
    BY <1>c, <2>4
  <2> HIDE DEF p
  <2>11. RevertsBy(s, p)
    BY <1>8, <1>t, <2>1, <2>5, <2>9, <2>10 DEF RevertsBy, c, r
  <2>12. QED
    BY <2>4, <2>8, <2>11 DEF p, r
<1>9. CASE c.op \in {"add_alias", "add_relationship", "add_step", "add_mention"}
  <2>1. p = Removal(r, c.on)
    BY <1>3, <1>9 DEF Reverted, c
  <2>2. Exists(c.on)
    BY <1>9, <1>fits
  <2>3. /\ c.op = "add_alias" => c.on \in {c.entity} \X Key
        /\ c.op = "add_relationship" => c.on \in Edges
        /\ c.op = "add_step" => c.on \in Steps
        /\ c.op = "add_mention" => c.on \in Mentions
    BY <1>t DEF HistoryRow
  <2>4. c.on \in Id /\ c.on \notin Entities /\ (\A e \in Entities : c.on \in {e} \X Key => e = c.entity)
    BY <1>9, <1>d, <1>t, <2>3 DEF Id
  <2>5. c.on \in Steps \cup Mentions => locks[Subject(c.on)] = s
    <3> SUFFICES ASSUME c.on \in Steps \cup Mentions PROVE locks[Subject(c.on)] = s
      OBVIOUS
    <3>1. c.op \in {"add_step", "add_mention"}
      BY <1>9, <1>d, <1>t, <2>3
    <3>2. Stays(c.entity, Subject(c.on))
      BY <1>t, <2>2, <3>1 DEF HomesKept, c
    <3>3. QED
      BY <1>t, <3>2 DEF Stays
  <2>6. HistoryRow(Removal(r, c.on).row)
    BY <1>4, <1>r, <2>4
  <2>7. \A e \in Entities : c.on \in {e} \X Key => locks[e] = s
    BY <1>t, <2>4
  <2>8. Founded(s, Removal(r, c.on))
    BY <1>2, <1>t, <2>2, <2>4, <2>5, <2>6, <2>7, RemovalIs
  <2>9. c.op \in {"add_step", "add_mention"} => r.arg.force \/ Recorded(c.on) = c.new
    BY <1>fits DEF Unchanged
  <2>10. DOMAIN p.writes = {c.on} /\ p.writes[c.on] = Delete
    BY <1>r, <2>1
  <2> HIDE DEF p
  <2>11. RevertsBy(s, p)
    BY <1>9, <1>t, <2>9, <2>10 DEF RevertsBy, c, r
  <2>12. QED
    BY <2>1, <2>8, <2>11 DEF p, r
<1>10. CASE c.op = "remove_alias"
  <2>1. p = Addition(r, c.on, c.old, c.old)
    BY <1>3, <1>10 DEF Reverted, c
  <2>2. ~Exists(c.on) /\ c.on \in {c.entity} \X Key /\ c.old \in AliasRow
    BY <1>10, <1>fits, <1>t DEF HistoryRow
  <2>3. c.on \in Id /\ c.on \in Entities \X Key /\ c.on \notin Entities /\ (\A e \in Entities : c.on \in {e} \X Key => e = c.entity)
    BY <1>d, <1>t, <2>2 DEF Id
  <2>4. c.old \in RowOf(c.on)
    BY <2>2, <2>3, Kinds
  <2>5. Refs(c.on, c.old) \subseteq {c.entity}
    BY <2>2, <2>3 DEF Refs, AliasRow
  <2>6. HistoryRow(Addition(r, c.on, c.old, c.old).row)
    BY <1>4, <1>a, <2>3
  <2>7. /\ \A e \in Entities : c.on \in {e} \X Key => locks[e] = s
        /\ \A e \in Refs(c.on, c.old) : Exists(e)
    BY <1>t, <2>3, <2>5
  <2>8. Founded(s, Addition(r, c.on, c.old, c.old))
    BY <1>2, <1>t, <2>2, <2>3, <2>4, <2>6, <2>7, AdditionIs
  <2>9. DOMAIN p.writes = {c.on} /\ p.writes[c.on].how = "insert" /\ p.writes[c.on].cols = c.old
    <3>1. DOMAIN p.writes = {c.on} /\ p.writes[c.on] = Insert(c.old)
      BY <1>a, <2>1
    <3> HIDE DEF p
    <3>2. QED
      BY <3>1 DEF Insert
  <2> HIDE DEF p
  <2>10. RevertsBy(s, p)
    BY <1>10, <1>t, <2>9 DEF RevertsBy, c, r
  <2>11. QED
    BY <2>1, <2>8, <2>10 DEF p, r
<1>11. CASE c.op = "remove_mention"
  <2> DEFINE row == [c.old EXCEPT !.entity = c.entity]
  <2>1. p = Addition(r, c.on, row, c.old)
    BY <1>3, <1>11 DEF Reverted, c
  <2>2. ~Exists(c.on) /\ c.on \in Mentions /\ c.old \in MentionRow
    BY <1>11, <1>fits, <1>t DEF HistoryRow
  <2>3. c.on \in Id /\ c.on \notin Entities /\ c.on \notin Entities \X Key
    BY <1>d, <2>2 DEF Id
  <2>4. row \in MentionRow /\ RowOf(c.on) = MentionRow /\ row.entity = c.entity /\ row.floor = c.old.floor
    BY <1>t, <2>2, <2>3, Kinds DEF MentionRow
  <2> HIDE DEF row
  <2>5. Refs(c.on, row) \subseteq {c.entity}
    BY <2>3, <2>4 DEF Refs, MentionRow
  <2>6. HistoryRow(Addition(r, c.on, row, c.old).row)
    BY <1>4, <1>a, <2>3
  <2>7. /\ \A e \in Entities : c.on \in {e} \X Key => locks[e] = s
        /\ \A e \in Refs(c.on, row) : Exists(e)
    BY <1>t, <2>3, <2>5
  <2>8. \E i \in DOMAIN changes : changes[i].op = "remove_mention" /\ changes[i].on = c.on /\ row.entity = changes[i].entity
    BY <1>11, <1>t, <2>4 DEF c
  <2>9. Founded(s, Addition(r, c.on, row, c.old))
    BY <1>2, <1>t, <2>2, <2>3, <2>4, <2>6, <2>7, <2>8, AdditionIs
  <2>10. DOMAIN p.writes = {c.on} /\ p.writes[c.on].how = "insert" /\ p.writes[c.on].cols.floor = c.old.floor
    <3>1. DOMAIN p.writes = {c.on} /\ p.writes[c.on] = Insert(row)
      BY <1>a, <2>1
    <3> HIDE DEF p
    <3>2. QED
      BY <2>4, <3>1 DEF Insert
  <2> HIDE DEF p
  <2>11. RevertsBy(s, p)
    BY <1>11, <1>t, <2>10 DEF RevertsBy, c, r
  <2>12. QED
    BY <2>1, <2>9, <2>11 DEF p, r
<1>12. QED
  <2>1. c.op \in {"create", "set", "delete", "note", "merge", "add_alias", "remove_alias", "add_relationship",
                  "update_relationship", "end_relationship", "add_step", "update_step", "add_mention", "confirm_mention",
                  "remove_mention", "set_visibility", "revert"}
    BY <1>t DEF HistoryRow
  <2>2. c.op \notin {"merge", "note", "set_visibility"}
    BY <1>t DEF NotRevertible
  <2>3. QED
    BY <1>6, <1>7, <1>8, <1>9, <1>10, <1>11, <2>1, <2>2

\* Whatever a session is about to flush is founded on rows it holds.
LEMMA PlanIs ==
    ASSUME TypeOK, HomesKept, NEW s \in Session, Plans(s)
    PROVE  Founded(s, plan'[s]) /\ RevertsBy(s, plan'[s])
<1>1. Ready(s) /\ plan'[s] = Effect(req[s])
  BY DEF Plans
<1>2. CASE req[s].op = "revert"
  BY <1>1, <1>2, RevertedIs
<1>3. CASE req[s].op # "revert"
  BY <1>1, <1>3, EffectIs, EffectRow DEF RevertsBy
<1>4. QED
  BY <1>2, <1>3

-----------------------------------------------------------------------------
(* The tables keep their shapes                                            *)

\* Foreign keys are to Entities.
LEMMA RefsAreEntities ==
    ASSUME NEW x \in Id, NEW row, row \in RowOf(x) \/ row \in SetsOf(x)
    PROVE  Refs(x, row) \subseteq Entities
<1>1. CASE x \in Entities
  <2>1. row \in EntityRow \/ row \in EntitySets
    BY <1>1, Kinds
  <2>2. DOMAIN row \cap {"src", "dst", "quest", "entity"} = {}
    BY <2>1 DEF EntityRow, EntitySets, FieldCols
  <2>3. QED
    BY <1>1, <2>2, CanonAssumption DEF Refs
<1>2. CASE x \in Edges
  <2>1. row \in EdgeRow \/ row \in EdgeSets \/ row \in EdgeMoves
    BY <1>2, Kinds
  <2>2. \A c \in {"src", "dst", "quest", "entity"} \cap DOMAIN row : row[c] \in Entities
    BY <2>1 DEF EdgeRow, EdgeSets, EdgeMoves
  <2>3. QED
    BY <2>2 DEF Refs
<1>3. CASE x \in Steps
  <2>1. row \in StepRow \/ row \in StepSets
    BY <1>3, Kinds
  <2>2. \A c \in {"src", "dst", "quest", "entity"} \cap DOMAIN row : row[c] \in Entities
    BY <2>1 DEF StepRow, StepSets
  <2>3. QED
    BY <2>2 DEF Refs
<1>4. CASE x \in Mentions
  <2>1. row \in MentionRow \/ row \in MentionSets
    BY <1>4, Kinds
  <2>2. \A c \in {"src", "dst", "quest", "entity"} \cap DOMAIN row : row[c] \in Entities
    BY <2>1 DEF MentionRow, MentionSets
  <2>3. QED
    BY <2>2 DEF Refs
<1>5. CASE x \in Entities \X Key
  <2>1. row \in AliasRow
    BY <1>5, Kinds
  <2>2. DOMAIN row \cap {"src", "dst", "quest", "entity"} = {}
    BY <2>1 DEF AliasRow
  <2>3. QED
    BY <2>2 DEF Refs
<1>6. QED
  BY <1>1, <1>2, <1>3, <1>4, <1>5 DEF Id

\* A plan stays well formed while no Entity's row is deleted.
LEMMA PlanStays ==
    ASSUME NEW t \in Session, PlanOK(plan[t]), plan'[t] = plan[t], \A e \in Entities : Exists(e) => world'[e] # Nil
    PROVE  PlanOK(plan[t])'
<1> DEFINE p == plan[t]
<1>1. /\ HistoryRow(p.row) /\ DOMAIN p.writes \subseteq Id
      /\ p.row.op = "note" \/ p.row.on \in DOMAIN p.writes
      /\ Exists(p.row.entity) \/ p.row.entity \in DOMAIN p.writes
      /\ \A x \in DOMAIN p.writes : WriteOK(x, p.writes[x])
  BY DEF PlanOK
<1>2. p.row.entity \in Entities
  BY <1>1 DEF HistoryRow
<1>3. HistoryRow(p.row)'
  BY <1>1
<1>4. ASSUME NEW x \in DOMAIN p.writes PROVE WriteOK(x, p.writes[x])'
  <2> DEFINE w == p.writes[x]
  <2>1. x \in Id /\ WriteOK(x, w) /\ w' = w
    BY <1>1
  <2>2. (w.how = "insert" /\ w.cols \in RowOf(x) /\ \A e \in Refs(x, w.cols) : Exists(e)) =>
           \A e \in Refs(x, w.cols) : world'[e] # Nil
    BY <2>1, RefsAreEntities
  <2>3. (w.how = "update" /\ w.cols \in SetsOf(x) /\ \A e \in Refs(x, w.cols) : Exists(e)) =>
           \A e \in Refs(x, w.cols) : world'[e] # Nil
    BY <2>1, RefsAreEntities
  <2> HIDE DEF w
  <2>4. WriteOK(x, w)'
    BY <2>1, <2>2, <2>3 DEF WriteOK, Exists
  <2>5. QED
    BY <2>4 DEF w
<1>5. p' = p /\ (Exists(p.row.entity)' \/ p.row.entity \in DOMAIN p.writes)
  BY <1>1, <1>2 DEF Exists
<1>6. QED
  BY <1>1, <1>3, <1>4, <1>5 DEF PlanOK

\* A history row that a revert was asked for stays there.
LEMMA AskedKept == ShapesOK /\ AskedOK /\ [Next]_vars => AskedOK'
<1> SUFFICES ASSUME ShapesOK, AskedOK, [Next]_vars PROVE AskedOK'
  OBVIOUS
<1>e. ASSUME NEW s \in Session, End(s), DOMAIN changes \subseteq DOMAIN changes' PROVE AskedOK'
  <2>1. \A t \in Session : pc'[t] # "idle" => t # s /\ pc[t] # "idle" /\ req'[t] = req[t]
    BY <1>e, EndEnds DEF ShapesOK
  <2>2. QED
    BY <1>e, <2>1 DEF AskedOK
<1>1. ASSUME NEW s \in Session, NEW r \in Requests, Begin(s, r) PROVE AskedOK'
  <2>1. \A t \in Session \ {s} : pc'[t] = pc[t] /\ req'[t] = req[t]
    BY <1>1 DEF Begin, ShapesOK
  <2>2. req'[s] = r /\ (r.op = "revert" => r.id \in DOMAIN changes) /\ changes' = changes
    BY <1>1 DEF Begin, ShapesOK
  <2>3. QED
    BY <2>1, <2>2 DEF AskedOK
<1>2. ASSUME NEW s \in Session, Lock(s) \/ FlushRow(s) PROVE AskedOK'
  BY <1>2 DEF Lock, FlushRow, AskedOK
<1>3. ASSUME NEW s \in Session, Apply(s) PROVE AskedOK'
  <2>1. CASE Applies(req[s])
    <3>1. pc' = [pc EXCEPT ![s] = "flush"] /\ UNCHANGED <<req, changes>> /\ pc[s] = "lock"
      BY <1>3, <2>1 DEF Apply
    <3>2. \A t \in Session : pc'[t] # "idle" => pc[t] # "idle"
      BY <3>1 DEF ShapesOK
    <3>3. QED
      BY <3>1, <3>2 DEF AskedOK
  <2>2. CASE ~Applies(req[s])
    BY <1>3, <1>e, <2>2 DEF Apply
  <2>3. QED
    BY <2>1, <2>2
<1>4. ASSUME NEW s \in Session, Commit(s) PROVE AskedOK'
  <2>1. DOMAIN changes \subseteq DOMAIN changes'
    BY <1>4, HistoryGrows DEF Commit, ShapesOK
  <2>2. QED
    BY <1>4, <1>e, <2>1 DEF Commit
<1>5. ASSUME NEW s \in Session, RollBack(s) PROVE AskedOK'
  BY <1>5, <1>e DEF RollBack
<1>6. CASE UNCHANGED vars
  BY <1>6 DEF vars, AskedOK
<1>7. QED
  BY <1>1, <1>2, <1>3, <1>4, <1>5, <1>6 DEF Next

\* Each step keeps the types.
LEMMA TypeStep ==
    ASSUME TypeOK, HomesKept, ShapesOK', [Next]_vars
    PROVE  TypeOK'
<1>1. ShapesOK /\ AskedOK /\ WorldOK /\ HistoryOK /\ PlansOK
  BY DEF TypeOK
<1>2. AskedOK'
  BY <1>1, AskedKept
<1>3. CASE Quiet
  <2>1. UNCHANGED <<world, changes>> /\ \A t \in Session : pc'[t] = "flush" => pc[t] = "flush" /\ plan'[t] = plan[t]
    BY <1>3 DEF Quiet
  <2>2. WorldOK' /\ HistoryOK'
    BY <1>1, <2>1 DEF WorldOK, HistoryOK, Exists
  <2>3. PlansOK'
    <3> SUFFICES ASSUME NEW t \in Session, pc'[t] = "flush" PROVE PlanOK(plan[t])'
      BY DEF PlansOK
    <3>1. QED
      BY <1>1, <2>1, PlanStays DEF PlansOK, Exists
  <2>4. QED
    BY <1>2, <2>2, <2>3 DEF TypeOK
<1>4. ASSUME NEW s \in Session, Plans(s) PROVE TypeOK'
  <2>1. /\ UNCHANGED <<world, changes>>
        /\ \A t \in Session : pc'[t] = "flush" => t = s \/ (pc[t] = "flush" /\ plan'[t] = plan[t])
    BY <1>4 DEF Plans
  <2>2. WorldOK' /\ HistoryOK'
    BY <1>1, <2>1 DEF WorldOK, HistoryOK, Exists
  <2>3. PlanOK(plan'[s])
    BY <1>4, PlanIs DEF Founded
  <2>4. PlansOK'
    <3> SUFFICES ASSUME NEW t \in Session, pc'[t] = "flush" PROVE PlanOK(plan[t])'
      BY DEF PlansOK
    <3>1. CASE t = s
      BY <2>1, <2>3, <3>1 DEF PlanOK, WriteOK, Exists
    <3>2. CASE t # s
      BY <1>1, <2>1, <3>2, PlanStays DEF PlansOK, Exists
    <3>3. QED
      BY <3>1, <3>2
  <2>5. QED
    BY <1>2, <2>2, <2>4 DEF TypeOK
<1>5. ASSUME NEW s \in Session, Commits(s) PROVE TypeOK'
  <2> DEFINE w == plan[s].writes
             c == plan[s].row
  <2>1. /\ PlanOK(plan[s]) /\ DOMAIN world' = Id
        /\ \A x \in Id : x \notin DOMAIN w => world'[x] = world[x]
        /\ \A x \in DOMAIN w :
                 /\ x \in Id /\ locks[x] = s
                 /\ w[x].how = "insert" => ~Exists(x) /\ world'[x] = w[x].cols /\ world'[x] \in RowOf(x) /\ world'[x] # Nil
                 /\ w[x].how = "update" => /\ Exists(x) /\ world'[x] = Over(w[x].cols, world[x])
                                           /\ world'[x] \in RowOf(x) /\ world'[x] # Nil
                 /\ w[x].how = "delete" => world'[x] = Nil /\ x \notin Entities
                 /\ w[x].how \in {"insert", "update", "delete"}
        /\ \A e \in Entities : Exists(e) => world'[e] # Nil
    BY <1>1, <1>5, CommitWrites
  <2>2. HistoryRow(c) /\ (\A x \in DOMAIN w : WriteOK(x, w[x])) /\ (Exists(c.entity) \/ c.entity \in DOMAIN w)
    BY <2>1 DEF PlanOK
  <2>3. /\ changes' = Append(changes, c) /\ \A t \in Session : pc'[t] = "flush" => pc[t] = "flush" /\ plan'[t] = plan[t]
    BY <1>5 DEF Commits
  <2> HIDE DEF w, c
  <2>4. ASSUME NEW x \in Id, world'[x] # Nil
        PROVE  world'[x] \in RowOf(x) /\ \A e \in Refs(x, world'[x]) : world'[e] # Nil
    <3>1. Exists(x) => world[x] \in RowOf(x) /\ \A e \in Refs(x, world[x]) : e \in Entities /\ Exists(e)
      BY <1>1, RefsAreEntities DEF WorldOK
    <3>2. CASE x \notin DOMAIN w
      BY <2>1, <2>4, <3>1, <3>2 DEF Exists
    <3>3. CASE x \in DOMAIN w /\ w[x].how = "insert"
      <4>1. w[x].cols \in RowOf(x) /\ \A e \in Refs(x, w[x].cols) : Exists(e)
        BY <2>2, <3>3 DEF WriteOK
      <4>2. QED
        BY <2>1, <3>3, <4>1, RefsAreEntities
    <3>4. CASE x \in DOMAIN w /\ w[x].how = "update"
      <4>1. w[x].cols \in SetsOf(x) /\ \A e \in Refs(x, w[x].cols) : Exists(e)
        BY <2>2, <3>4 DEF WriteOK
      <4>2. Refs(x, world'[x]) \subseteq Refs(x, w[x].cols) \cup Refs(x, world[x])
        BY <2>1, <3>4, OverRefs
      <4>3. QED
        BY <2>1, <3>1, <3>4, <4>1, <4>2, RefsAreEntities
    <3>5. CASE x \in DOMAIN w /\ w[x].how = "delete"
      BY <2>1, <2>4, <3>5
    <3>6. QED
      BY <2>1, <3>2, <3>3, <3>4, <3>5
  <2>5. WorldOK'
    BY <2>1, <2>4 DEF WorldOK, Exists
  <2>6. HistoryOK'
    <3>1. c.entity \in Entities
      BY <2>2 DEF HistoryRow
    <3>2. world'[c.entity] # Nil
      BY <2>1, <2>2, <3>1
    <3>3. \A i \in DOMAIN changes : HistoryRow(changes[i]) /\ changes[i].entity \in Entities /\ world'[changes[i].entity] # Nil
      BY <1>1, <2>1 DEF HistoryOK, HistoryRow
    <3>4. \A i \in DOMAIN changes' : HistoryRow(changes'[i]) /\ world'[changes'[i].entity] # Nil
      BY <1>1, <2>2, <2>3, <3>2, <3>3, HistoryGrows DEF ShapesOK
    <3>5. QED
      BY <3>4 DEF HistoryOK, Exists
  <2>7. PlansOK'
    <3> SUFFICES ASSUME NEW t \in Session, pc'[t] = "flush" PROVE PlanOK(plan[t])'
      BY DEF PlansOK
    <3>1. QED
      BY <1>1, <2>1, <2>3, PlanStays DEF PlansOK
  <2>8. QED
    BY <1>2, <2>5, <2>6, <2>7 DEF TypeOK
<1>6. QED
  BY <1>1, <1>3, <1>4, <1>5, StepIs

-----------------------------------------------------------------------------
(* Where steps and Mentions are                                            *)

\* A row of the history is about a row its plan writes, but for a note.
LEMMA PlanRow ==
    ASSUME NEW p, PlanOK(p)
    PROVE  /\ p.row.op # "note" => p.row.on \in DOMAIN p.writes
           /\ p.row.op = "note" => p.row.on \in Entities
           /\ p.row.op = "add_relationship" => p.row.on \in Edges
           /\ p.row.op = "add_step" => p.row.on \in Steps
           /\ p.row.op \in {"add_mention", "remove_mention"} => p.row.on \in Mentions
           /\ p.row.entity \in Entities /\ DOMAIN p.writes \subseteq Id
BY DEF PlanOK, HistoryRow

\* What a session holds and is about to write in steps, Mentions and aliases outlasts
\* a step that leaves its locks and those rows alone.
LEMMA HomesStay ==
    ASSUME WorldOK, NEW t \in Session, HomesBy(t, plan[t]), DOMAIN plan[t].writes \subseteq Id, plan'[t] = plan[t],
           \A x \in Id \cup Proposal : locks[x] = t => locks'[x] = t,
           \A x \in DOMAIN plan[t].writes :
              x \in Steps \cup Mentions /\ plan[t].writes[x].how # "insert" => world'[x] = world[x]
    PROVE  HomesBy(t, plan[t])'
<1> DEFINE w == plan[t].writes
<1>1. plan'[t].writes = w
  OBVIOUS
<1>2. ASSUME NEW x \in DOMAIN w, x \in Steps \cup Mentions, w[x].how # "insert"
      PROVE  /\ world'[x] # Nil /\ Subject(x)' = Subject(x) /\ locks'[Subject(x)] = t
             /\ w[x].how = "update" /\ DOMAIN w[x].cols \cap {"quest", "entity"} # {} =>
                    Subject(x) \in DOMAIN w /\ w[Subject(x)].how = "update" /\ "merged" \in DOMAIN w[Subject(x)].cols
  <2>1. Exists(x) /\ locks[Subject(x)] = t /\ world'[x] = world[x]
    BY <1>2 DEF HomesBy
  <2>2. x \in Id /\ x \notin Entities \X Key
    BY <1>2, CanonAssumption DEF Id
  <2>3. Subject(x) \in Id
    BY <2>1, <2>2, RowIs DEF Id
  <2>4. Subject(x)' = Subject(x)
    BY <2>1 DEF Subject
  <2>5. QED
    BY <1>2, <2>1, <2>3, <2>4 DEF HomesBy, Exists
<1>3. \A x \in DOMAIN w, e \in Entities : x \in {e} \X Key => locks'[e] = t
  BY DEF HomesBy, Id
<1> HIDE DEF w
<1>4. QED
  BY <1>1, <1>2, <1>3 DEF HomesBy, Exists

\* A merged Entity stays merged.
LEMMA MergedStays ==
    ASSUME WorldOK, PlansOK, NEW s \in Session, Commits(s), NEW e \in Entities, Exists(e), world[e].merged # Nil
    PROVE  world'[e].merged # Nil
<1> DEFINE w == plan[s].writes
<1>1. e \in Id
  BY DEF Id
<1>2. CASE e \notin DOMAIN w
  BY <1>1, <1>2, CommitWrites
<1>3. CASE e \in DOMAIN w
  <2>1. Exists(e) /\ w[e].how = "update" /\ world'[e] = Over(w[e].cols, world[e]) /\ WriteOK(e, w[e])
    BY <1>3, CommitWrites DEF PlanOK
  <2>2. w[e].cols \in EntitySets
    BY <1>1, <2>1, Kinds DEF WriteOK
  <2>3. world[e] \in EntityRow
    BY <1>1, RowIs
  <2> HIDE DEF w
  <2>4. "merged" \in DOMAIN w[e].cols => w[e].cols.merged \in Entities
    BY <2>2 DEF EntitySets, FieldCols
  <2>5. world'[e].merged \in {w[e].cols.merged, world[e].merged}
        /\ ("merged" \notin DOMAIN w[e].cols => world'[e].merged = world[e].merged)
    BY <2>1, <2>3 DEF Over, EntityRow
  <2>6. QED
    BY <2>4, <2>5, CanonAssumption
<1>4. QED
  BY <1>2, <1>3

\* No one else's commit touches the step or the Mention a session writes.
LEMMA HomesApart ==
    ASSUME HomesInv, NEW s \in Session, Commits(s), NEW t \in Session, t # s, pc[t] = "flush",
           NEW x \in DOMAIN plan[t].writes, x \in Steps \cup Mentions, plan[t].writes[x].how # "insert"
    PROVE  world'[x] = world[x]
<1>1. WorldOK /\ PlansOK
  BY DEF HomesInv, TypeOK
<1>2. Exists(x) /\ locks[Subject(x)] = t
  BY DEF HomesInv, HomesHeld, HomesBy, Flushing
<1>3. x \in Id
  BY <1>1 DEF PlansOK, PlanOK
<1>4. SUFFICES ASSUME x \in DOMAIN plan[s].writes PROVE FALSE
  BY <1>1, <1>3, CommitWrites
<1>5. plan[s].writes[x].how # "insert"
  BY <1>1, <1>2, <1>4, CommitWrites
<1>6. locks[Subject(x)] = s
  BY <1>4, <1>5 DEF HomesInv, HomesHeld, HomesBy, Flushing, Commits
<1>7. QED
  BY <1>2, <1>6

\* The two are of no Entity's row.
LEMMA KeptOn ==
    ASSUME HistoryOK, NEW i \in DOMAIN changes, changes[i].op \in {"add_step", "add_mention"}
    PROVE  /\ changes[i].on \in Steps \cup Mentions /\ changes[i].on \in Id
           /\ changes[i].entity \in Entities /\ Exists(changes[i].entity)
BY DEF HistoryOK, HistoryRow, Id

\* e is the place f, or was merged into another by the step's end.
StaysThen(e, f) == e = f \/ world'[e].merged # Nil

\* A commit keeps each added step or Mention on its Entity, or merges that one away.
LEMMA KeptOnCommit ==
    ASSUME HomesInv, NEW s \in Session, Commits(s)
    PROVE  HomesKept'
<1> DEFINE w == plan[s].writes
           c == plan[s].row
           N == Len(changes)
<1>t. WorldOK /\ HistoryOK /\ PlansOK /\ ShapesOK /\ HomesKept
  BY DEF HomesInv, TypeOK
<1>f. pc[s] = "flush" /\ PlanOK(plan[s])
  BY <1>t DEF Commits, PlansOK
<1>b. HomesBy(s, plan[s]) /\ NewBy(s, plan[s]) /\ InsertsBy(plan[s])
  BY <1>f DEF HomesInv, HomesHeld, NewIsNew, OnlyAdditionsInsert, Flushing
<1>g. /\ N \in Nat /\ DOMAIN changes = 1..N /\ DOMAIN changes' = 1..(N + 1) /\ changes'[N + 1] = c
      /\ \A i \in DOMAIN changes : changes'[i] = changes[i]
  BY <1>t, HistoryGrows DEF ShapesOK, Commits
<1>p. \A t \in Session : pc'[t] = "flush" => t # s /\ pc[t] = "flush" /\ plan'[t] = plan[t]
  BY DEF Commits
<1>m. \A e \in Entities : Exists(e) /\ world[e].merged # Nil => world'[e].merged # Nil
  BY <1>t, MergedStays
<1> HIDE DEF N
<1>1. ASSUME NEW i \in DOMAIN changes, changes[i].op \in {"add_step", "add_mention"},
             NEW x, x = changes[i].on, NEW e, e = changes[i].entity
      PROVE      /\ world'[x] # Nil => StaysThen(e, Subject(x)')
                 /\ \A j \in DOMAIN changes' : changes'[j].op = "remove_mention" /\ changes'[j].on = x => StaysThen(e, changes'[j].entity)
                 /\ \A t \in Session : pc'[t] = "flush" /\ plan'[t].row.op = "remove_mention" /\ plan'[t].row.on = x =>
                       StaysThen(e, plan'[t].row.entity)
  <2>k. x \in Steps \cup Mentions /\ x \in Id /\ e \in Entities /\ Exists(e)
    BY <1>1, <1>t, KeptOn
  <2>0. /\ Exists(x) => Stays(e, Subject(x))
        /\ \A j \in DOMAIN changes : changes[j].op = "remove_mention" /\ changes[j].on = x => Stays(e, changes[j].entity)
        /\ \A t \in Session : pc[t] = "flush" /\ plan[t].row.op = "remove_mention" /\ plan[t].row.on = x =>
              Stays(e, plan[t].row.entity)
    BY <1>1, <1>t DEF HomesKept, Flushing
  <2>x. ~(c.op \in Additions /\ c.on = x)
    BY <1>1, <1>b DEF NewBy
  <2> HIDE DEF c
  <2>s. \A f : Stays(e, f) => (e = f \/ world'[e].merged # Nil)
    BY <1>m, <2>k DEF Stays, StaysThen
  <2>1. ASSUME world'[x] # Nil PROVE StaysThen(e, Subject(x)')
    <3>a. CASE x \notin DOMAIN w
      <4>1. world'[x] = world[x]
        BY <1>t, <2>k, <3>a, CommitWrites
      <4>2. Subject(x)' = Subject(x) /\ Exists(x)
        BY <2>1, <4>1 DEF Subject, Exists
      <4>3. QED
        BY <2>0, <2>s, <4>2 DEF Stays, StaysThen
    <3>b. CASE x \in DOMAIN w /\ w[x].how = "insert"
      <4>1. x \in Mentions /\ x \notin Steps
        BY <1>b, <2>k, <2>x, <3>b DEF InsertsBy, c
      <4>2. PICK k \in DOMAIN changes : /\ changes[k].op = "remove_mention" /\ changes[k].on = x
                                        /\ w[x].cols.entity = changes[k].entity
        BY <1>b, <2>x, <3>b, <4>1 DEF InsertsBy, Additions, c
      <4>3. world'[x] = w[x].cols
        BY <1>t, <3>b, CommitWrites
      <4>4. Subject(x)' = changes[k].entity
        BY <4>1, <4>2, <4>3, CanonAssumption DEF Subject
      <4>5. QED
        BY <2>0, <2>s, <4>2, <4>4 DEF Stays, StaysThen
    <3>c. CASE x \in DOMAIN w /\ w[x].how = "update"
      <4>1. Exists(x) /\ world'[x] = Over(w[x].cols, world[x])
        BY <1>t, <3>c, CommitWrites
      <4>2. CASE DOMAIN w[x].cols \cap {"quest", "entity"} = {}
        <5>1. Subject(x)' = Subject(x)
          <6>1. (x \in Steps => world[x] \in StepRow) /\ (x \in Mentions => world[x] \in MentionRow)
            BY <1>t, <2>k, <4>1, RowIs
          <6>2. x \in Steps => world'[x].quest = world[x].quest
            BY <4>1, <4>2, <6>1 DEF Over, StepRow
          <6>3. x \in Mentions => world'[x].entity = world[x].entity
            BY <4>1, <4>2, <6>1 DEF Over, MentionRow
          <6>4. QED
            BY <2>k, <6>2, <6>3, CanonAssumption DEF Subject
        <5>2. QED
          BY <2>0, <2>s, <4>1, <5>1 DEF Stays, StaysThen
      <4>3. CASE DOMAIN w[x].cols \cap {"quest", "entity"} # {}
        <5> DEFINE q == Subject(x)
        <5>1. q \in DOMAIN w /\ w[q].how = "update" /\ "merged" \in DOMAIN w[q].cols
          BY <1>b, <2>k, <3>c, <4>3 DEF HomesBy
        <5>2. q \in Entities
          BY <1>t, <2>k, <4>1, RowIs, CanonAssumption
        <5>3. world'[q] = Over(w[q].cols, world[q]) /\ WriteOK(q, w[q])
          BY <1>f, <1>t, <5>1, CommitWrites DEF PlanOK
        <5>4. w[q].cols \in EntitySets
          BY <5>1, <5>2, <5>3, Kinds DEF WriteOK, Id
        <5> HIDE DEF q
        <5>5. w[q].cols.merged \in Entities
          BY <5>1, <5>4 DEF EntitySets, FieldCols
        <5>6. world'[q].merged # Nil
          BY <5>1, <5>3, <5>5, CanonAssumption DEF Over
        <5>7. e = q \/ world'[e].merged # Nil
          BY <2>0, <2>s, <4>1 DEF q
        <5>8. QED
          BY <5>6, <5>7 DEF Stays, StaysThen
      <4>4. QED
        BY <4>2, <4>3
    <3>d. CASE x \in DOMAIN w /\ w[x].how = "delete"
      BY <1>t, <2>1, <3>d, CommitWrites
    <3>e. x \in DOMAIN w => w[x].how \in {"insert", "update", "delete"}
      BY <1>t, CommitWrites
    <3>q. QED
      BY <3>a, <3>b, <3>c, <3>d, <3>e
  <2>2. ASSUME NEW j \in DOMAIN changes', changes'[j].op = "remove_mention", changes'[j].on = x
        PROVE  StaysThen(e, changes'[j].entity)
    <3>1. CASE j = N + 1
      <4>1. c.op = "remove_mention" /\ c.on = x /\ changes'[j].entity = c.entity
        BY <1>g, <2>2, <3>1 DEF c
      <4>2. Stays(e, c.entity)
        BY <1>f, <2>0, <4>1 DEF c
      <4>3. QED
        BY <2>s, <4>1, <4>2 DEF Stays, StaysThen
    <3>2. CASE j # N + 1
      <4>1. j \in DOMAIN changes /\ changes'[j] = changes[j]
        BY <1>g, <3>2
      <4>2. QED
        BY <2>0, <2>2, <2>s, <4>1 DEF Stays, StaysThen
    <3>3. QED
      BY <3>1, <3>2
  <2>3. ASSUME NEW t \in Session, pc'[t] = "flush", plan'[t].row.op = "remove_mention", plan'[t].row.on = x
        PROVE  StaysThen(e, plan'[t].row.entity)
    <3>1. Stays(e, plan[t].row.entity)
      BY <1>p, <2>0, <2>3
    <3>2. QED
      BY <1>p, <2>3, <2>s, <3>1 DEF Stays, StaysThen
  <2>4. QED
    BY <2>1, <2>2, <2>3
<1>2. ASSUME c.op \in {"add_step", "add_mention"}, NEW x, x = c.on, NEW e, e = c.entity
      PROVE      /\ world'[x] # Nil => StaysThen(e, Subject(x)')
                 /\ \A j \in DOMAIN changes' : changes'[j].op = "remove_mention" /\ changes'[j].on = x => StaysThen(e, changes'[j].entity)
                 /\ \A t \in Session : pc'[t] = "flush" /\ plan'[t].row.op = "remove_mention" /\ plan'[t].row.on = x =>
                       StaysThen(e, plan'[t].row.entity)
  <2>1. /\ \A i \in DOMAIN changes : changes[i].on # x
        /\ \A t \in Session \ {s} : pc[t] = "flush" => x \notin DOMAIN plan[t].writes
        /\ w[x].how = "insert"
        /\ c.op = "add_step" => w[x].cols.quest = e
        /\ c.op = "add_mention" => w[x].cols.entity = e
    BY <1>2, <1>b DEF NewBy, Additions, Flushing
  <2>2. /\ x \in DOMAIN w
        /\ c.op = "add_step" => x \in Steps
        /\ c.op = "add_mention" => x \in Mentions
    BY <1>2, <1>f, PlanRow
  <2>3. world'[x] = w[x].cols
    BY <1>t, <2>1, <2>2, CommitWrites
  <2>4. Subject(x)' = e
    <3> HIDE DEF c, w
    <3>1. QED
      BY <1>2, <2>1, <2>2, <2>3, CanonAssumption DEF Subject
  <2>5. ASSUME NEW j \in DOMAIN changes', changes'[j].op = "remove_mention", changes'[j].on = x PROVE FALSE
    BY <1>2, <1>g, <2>1, <2>5
  <2>6. ASSUME NEW t \in Session, pc'[t] = "flush", plan'[t].row.op = "remove_mention", plan'[t].row.on = x PROVE FALSE
    <3>1. t # s /\ pc[t] = "flush" /\ plan'[t] = plan[t]
      BY <1>p, <2>6
    <3>2. plan[t].row.on \in DOMAIN plan[t].writes
      BY <1>t, <2>6, <3>1, PlanRow DEF PlansOK
    <3>3. QED
      BY <2>1, <2>6, <3>1, <3>2
  <2>7. QED
    BY <2>4, <2>5, <2>6 DEF Stays, StaysThen
<1>3. \A i \in DOMAIN changes' : (i \in DOMAIN changes /\ changes'[i] = changes[i]) \/ changes'[i] = c
  BY <1>g
<1> HIDE DEF c, w
<1>4. ASSUME NEW i \in DOMAIN changes', changes'[i].op \in {"add_step", "add_mention"},
             NEW x, x = changes'[i].on, NEW e, e = changes'[i].entity
      PROVE  /\ world'[x] # Nil => StaysThen(e, Subject(x)')
             /\ \A j \in DOMAIN changes' : changes'[j].op = "remove_mention" /\ changes'[j].on = x => StaysThen(e, changes'[j].entity)
             /\ \A t \in Session : pc'[t] = "flush" /\ plan'[t].row.op = "remove_mention" /\ plan'[t].row.on = x =>
                   StaysThen(e, plan'[t].row.entity)
  BY <1>1, <1>2, <1>3, <1>4
<1>5. QED
  BY <1>4 DEF HomesKept, Flushing, Exists, Stays, StaysThen, Subject

\* What a session began to flush is kept by every step of another.
LEMMA HomesStep ==
    ASSUME HomesInv, TypeOK', [Next]_vars
    PROVE  HomesInv'
<1>t. TypeOK /\ WorldOK /\ HistoryOK /\ PlansOK /\ ShapesOK /\ HomesKept
  BY DEF HomesInv, TypeOK
<1>0. \A t \in Session : pc[t] = "flush" =>
          HomesBy(t, plan[t]) /\ NewBy(t, plan[t]) /\ InsertsBy(plan[t]) /\ PlanOK(plan[t]) /\ DOMAIN plan[t].writes \subseteq Id
  BY <1>t DEF HomesInv, HomesHeld, NewIsNew, OnlyAdditionsInsert, Flushing, PlansOK, PlanOK
<1>1. CASE Quiet
  <2>1. /\ UNCHANGED <<world, changes>>
        /\ \A t \in Session : pc'[t] = "flush" => pc[t] = "flush" /\ plan'[t] = plan[t]
        /\ \A t \in Session, x \in Id \cup Proposal : pc'[t] = "flush" /\ locks[x] = t => locks'[x] = t
    BY <1>1 DEF Quiet
  <2>2. HomesHeld'
    <3> SUFFICES ASSUME NEW t \in Session, pc'[t] = "flush" PROVE HomesBy(t, plan[t])'
      BY DEF HomesHeld, Flushing
    <3>1. QED
      BY <1>0, <1>t, <2>1, HomesStay
  <2>3. NewIsNew'
    <3> SUFFICES ASSUME NEW t \in Session, pc'[t] = "flush" PROVE NewBy(t, plan[t])'
      BY DEF NewIsNew, Flushing
    <3>1. QED
      BY <1>0, <2>1 DEF NewBy, Exists, Flushing
  <2>4. OnlyAdditionsInsert'
    <3> SUFFICES ASSUME NEW t \in Session, pc'[t] = "flush" PROVE InsertsBy(plan[t])'
      BY DEF OnlyAdditionsInsert, Flushing
    <3>1. QED
      BY <1>0, <2>1 DEF InsertsBy
  <2>5. HomesKept'
    BY <1>t, <2>1 DEF HomesKept, Stays, Subject, Exists, Flushing
  <2>6. QED
    BY <2>2, <2>3, <2>4, <2>5 DEF HomesInv
<1>2. ASSUME NEW s \in Session, Plans(s) PROVE HomesInv'
  <2>1. /\ UNCHANGED <<world, changes, locks>>
        /\ \A t \in Session : pc'[t] = "flush" => t = s \/ (pc[t] = "flush" /\ plan'[t] = plan[t])
    BY <1>2 DEF Plans
  <2>2. Founded(s, plan'[s])
    BY <1>2, <1>t, PlanIs
  <2>3. HomesHeld'
    <3> SUFFICES ASSUME NEW t \in Session, pc'[t] = "flush" PROVE HomesBy(t, plan[t])'
      BY DEF HomesHeld, Flushing
    <3>1. CASE t = s
      BY <2>1, <2>2, <3>1 DEF Founded, HomesBy, Subject, Exists
    <3>2. CASE t # s
      BY <1>0, <1>t, <2>1, <3>2, HomesStay
    <3>3. QED
      BY <3>1, <3>2
  <2>4. NewIsNew'
    <3> SUFFICES ASSUME NEW t \in Session, pc'[t] = "flush" PROVE NewBy(t, plan[t])'
      BY DEF NewIsNew, Flushing
    <3>1. CASE t = s
      <4>1. NewBy(s, plan'[s])
        BY <2>2 DEF Founded
      <4>2. QED
        BY <2>1, <3>1, <4>1 DEF NewBy, Exists, Flushing
    <3>2. CASE t # s
      <4> DEFINE p == plan[t]
                 x == p.row.on
      <4>1. pc[t] = "flush" /\ plan'[t] = p
        BY <2>1, <3>2
      <4>2. NewBy(t, p) /\ PlanOK(p)
        BY <1>0, <4>1
      <4>3. p.row.op \in Additions => x \in DOMAIN p.writes /\ x \in Edges \cup Steps \cup Mentions
        BY <4>2, PlanRow DEF Additions
      <4>4. p.row.op \in Additions => ~Exists(x) /\ (\A i \in DOMAIN changes : changes[i].on # x)
        BY <4>2 DEF NewBy
      <4>5. p.row.op \in Additions => x \notin DOMAIN plan'[s].writes
        <5>1. \A y \in DOMAIN plan'[s].writes :
                 \/ Exists(y) \/ y \in Entities \cup (Entities \X Key)
                 \/ \E i \in DOMAIN changes : changes[i].on = y
                 \/ y \notin DOMAIN p.writes
          BY <2>2, <3>2, <4>1 DEF Founded, Flushing
        <5>2. QED
          BY <4>3, <4>4, <5>1, CanonAssumption
      <4>6. \A u \in Session \ {t} : pc'[u] = "flush" /\ p.row.op \in Additions => x \notin DOMAIN plan'[u].writes
        <5>1. \A u \in Session \ {t} : pc[u] = "flush" /\ p.row.op \in Additions => x \notin DOMAIN plan[u].writes
          BY <4>2 DEF NewBy, Flushing
        <5>2. QED
          BY <2>1, <4>5, <5>1
      <4> HIDE DEF p
      <4>7. NewBy(t, p) => (p.row.op \in Additions =>
               /\ p.writes[x].how = "insert"
               /\ p.row.op = "add_step" => p.writes[x].cols.quest = p.row.entity
               /\ p.row.op = "add_mention" => p.writes[x].cols.entity = p.row.entity)
        BY DEF NewBy
      <4>8. QED
        BY <2>1, <4>1, <4>2, <4>4, <4>6, <4>7 DEF NewBy, Exists, Flushing
    <3>3. QED
      BY <3>1, <3>2
  <2>5. OnlyAdditionsInsert'
    <3> SUFFICES ASSUME NEW t \in Session, pc'[t] = "flush" PROVE InsertsBy(plan[t])'
      BY DEF OnlyAdditionsInsert, Flushing
    <3>1. InsertsBy(plan'[t])
      BY <1>0, <2>1, <2>2 DEF Founded
    <3>2. QED
      BY <2>1, <3>1 DEF InsertsBy
  <2>6. HomesKept'
    <3>1. ASSUME NEW i \in DOMAIN changes, changes[i].op \in {"add_step", "add_mention"},
                 NEW x, x = changes[i].on, NEW e, e = changes[i].entity
          PROVE  /\ world'[x] # Nil => StaysThen(e, Subject(x)')
                 /\ \A j \in DOMAIN changes : changes[j].op = "remove_mention" /\ changes[j].on = x => StaysThen(e, changes[j].entity)
                 /\ \A t \in Session : pc'[t] = "flush" /\ plan'[t].row.op = "remove_mention" /\ plan'[t].row.on = x =>
                       StaysThen(e, plan'[t].row.entity)
      <4>0. /\ Exists(x) => Stays(e, Subject(x))
            /\ \A j \in DOMAIN changes : changes[j].op = "remove_mention" /\ changes[j].on = x => Stays(e, changes[j].entity)
            /\ \A t \in Session : pc[t] = "flush" /\ plan[t].row.op = "remove_mention" /\ plan[t].row.on = x =>
                  Stays(e, plan[t].row.entity)
        BY <1>t, <3>1 DEF HomesKept, Flushing
      <4>1. \A f : Stays(e, f) <=> StaysThen(e, f)
        BY <2>1 DEF Stays, StaysThen
      <4>2. Subject(x)' = Subject(x) /\ (world'[x] # Nil <=> Exists(x))
        BY <2>1 DEF Subject, Exists
      <4>3. ASSUME plan'[s].row.op = "remove_mention", plan'[s].row.on = x PROVE StaysThen(e, plan'[s].row.entity)
        BY <2>2, <4>0, <4>1, <4>3 DEF Founded
      <4>4. ASSUME NEW t \in Session, pc'[t] = "flush", plan'[t].row.op = "remove_mention", plan'[t].row.on = x
            PROVE  StaysThen(e, plan'[t].row.entity)
        BY <2>1, <4>0, <4>1, <4>3, <4>4
      <4>5. QED
        BY <4>0, <4>1, <4>2, <4>4
    <3>2. QED
      BY <2>1, <3>1 DEF HomesKept, Flushing, Exists, Stays, StaysThen, Subject
  <2>7. QED
    BY <2>3, <2>4, <2>5, <2>6 DEF HomesInv
<1>3. ASSUME NEW s \in Session, Commits(s) PROVE HomesInv'
  <2>1. /\ \A t \in Session : pc'[t] = "flush" => t # s /\ pc[t] = "flush" /\ plan'[t] = plan[t]
        /\ \A t \in Session, x \in Id \cup Proposal : pc'[t] = "flush" /\ locks[x] = t => locks'[x] = t
        /\ pc[s] = "flush"
    BY <1>3 DEF Commits
  <2>2. /\ \A i \in DOMAIN changes : i \in DOMAIN changes' /\ changes'[i] = changes[i]
        /\ \A i \in DOMAIN changes' : (i \in DOMAIN changes /\ changes'[i] = changes[i]) \/ changes'[i] = plan[s].row
    BY <1>3, <1>t, HistoryGrows DEF ShapesOK, Commits
  <2>3. HomesHeld'
    <3> SUFFICES ASSUME NEW t \in Session, pc'[t] = "flush" PROVE HomesBy(t, plan[t])'
      BY DEF HomesHeld, Flushing
    <3>1. QED
      BY <1>0, <1>3, <1>t, <2>1, HomesApart, HomesStay
  <2>4. NewIsNew'
    <3> SUFFICES ASSUME NEW t \in Session, pc'[t] = "flush" PROVE NewBy(t, plan[t])'
      BY DEF NewIsNew, Flushing
    <3> DEFINE p == plan[t]
               x == p.row.on
    <3>1. pc[t] = "flush" /\ plan'[t] = p /\ t # s
      BY <2>1
    <3>2. NewBy(t, p) /\ PlanOK(p)
      BY <1>0, <3>1
    <3>3. p.row.op \in Additions => x \in Edges \cup Steps \cup Mentions /\ x \in Id
      BY <3>2, PlanRow DEF Additions, Id
    <3>4. p.row.op \in Additions => /\ ~Exists(x) /\ (\A i \in DOMAIN changes : changes[i].on # x)
                                    /\ \A u \in Session \ {t} : pc[u] = "flush" => x \notin DOMAIN plan[u].writes
      BY <3>2 DEF NewBy, Flushing
    <3>5. p.row.op \in Additions => world'[x] = Nil
      BY <1>3, <1>t, <2>1, <3>1, <3>3, <3>4, CommitWrites DEF Exists
    <3>6. p.row.op \in Additions => plan[s].row.on # x
      <4>1. plan[s].row.on \in DOMAIN plan[s].writes \/ plan[s].row.on \in Entities
        BY <1>0, <2>1, PlanRow
      <4>2. QED
        BY <2>1, <3>1, <3>3, <3>4, <4>1, CanonAssumption
    <3> HIDE DEF p
    <3>7. NewBy(t, p) => (p.row.op \in Additions =>
             /\ p.writes[x].how = "insert"
             /\ p.row.op = "add_step" => p.writes[x].cols.quest = p.row.entity
             /\ p.row.op = "add_mention" => p.writes[x].cols.entity = p.row.entity)
      BY DEF NewBy
    <3>8. p.row.op \in Additions => /\ \A i \in DOMAIN changes' : changes'[i].on # x
                                    /\ \A u \in Session \ {t} : pc'[u] = "flush" => x \notin DOMAIN plan'[u].writes
      BY <2>1, <2>2, <3>4, <3>6
    <3>9. QED
      BY <3>1, <3>2, <3>5, <3>7, <3>8 DEF NewBy, Exists, Flushing
  <2>5. OnlyAdditionsInsert'
    <3> SUFFICES ASSUME NEW t \in Session, pc'[t] = "flush" PROVE InsertsBy(plan[t])'
      BY DEF OnlyAdditionsInsert, Flushing
    <3>1. InsertsBy(plan[t]) /\ plan'[t] = plan[t]
      BY <1>0, <2>1
    <3>2. QED
      BY <2>2, <3>1 DEF InsertsBy
  <2>6. HomesKept'
    BY <1>3, KeptOnCommit
  <2>7. QED
    BY <2>3, <2>4, <2>5, <2>6 DEF HomesInv
<1>4. QED
  BY <1>1, <1>2, <1>3, <1>t, StepIs

\* The invariants hold at the start, of tables that are well formed and an
\* empty history, ...
LEMMA HomesAtStart == Init => HomesInv
<1> SUFFICES ASSUME Init PROVE HomesInv
  OBVIOUS
<1>1. DOMAIN changes = {} /\ changes \in Seq({changes[i] : i \in DOMAIN changes})
  BY DEF Init
<1>2. \A t \in Session : pc[t] = "idle"
  BY DEF Init
<1>3. ShapesOK
  BY <1>1, CanonAssumption DEF Init, ShapesOK
<1>4. WorldOK
  BY CanonAssumption DEF Init, WorldOK, Exists
<1>5. QED
  BY <1>1, <1>2, <1>3, <1>4 DEF HomesInv, TypeOK, AskedOK, HistoryOK, PlansOK, HomesHeld, NewIsNew, OnlyAdditionsInsert,
                                HomesKept, Flushing

\* ... and are kept by every step.
LEMMA HomesHold == Spec => []HomesInv
<1>1. ShapesOK' /\ HomesInv /\ [Next]_vars => HomesInv'
  <2>1. HomesInv => TypeOK /\ HomesKept
    BY DEF HomesInv
  <2>2. ShapesOK' /\ TypeOK /\ HomesKept /\ [Next]_vars => TypeOK'
    BY TypeStep
  <2>3. TypeOK' /\ HomesInv /\ [Next]_vars => HomesInv'
    BY HomesStep
  <2>4. QED
    BY <2>1, <2>2, <2>3
<1>2. AppliedInv => ShapesOK
  BY DEF AppliedInv
<1>3. QED
  BY <1>1, <1>2, HomesAtStart, AppliedHolds, PTL DEF Spec

\* Every row of the tables and of the history, and every row that is about to be
\* flushed, is of its table's columns and names Entities there are; the locks
\* are held within transactions.
THEOREM TypeCorrect == Spec => []TypeOK
<1>1. HomesInv => TypeOK
  BY DEF HomesInv
<1>2. QED
  BY <1>1, HomesHold, PTL

-----------------------------------------------------------------------------
(* Reverts                                                                 *)

\* What a revert found outlasts a step that leaves its locks and its row alone.
LEMMA RevertsStay ==
    ASSUME HistoryOK, NEW t \in Session, RevertsBy(t, plan[t]), plan'[t] = plan[t], req'[t] = req[t],
           \A i \in DOMAIN changes : i \in DOMAIN changes' /\ changes'[i] = changes[i],
           \A x \in Id \cup Proposal : locks[x] = t => locks'[x] = t,
           \A x \in Id : locks[x] = t \/ (x \in Steps \cup Mentions /\ x \in DOMAIN plan[t].writes /\ plan[t].writes[x] = Delete) =>
              world'[x] = world[x]
    PROVE  RevertsBy(t, plan[t])'
<1> SUFFICES ASSUME plan[t].row.op = "revert" PROVE RevertsBy(t, plan[t])'
  BY DEF RevertsBy
<1> DEFINE w == plan[t].writes
<1>1. PICK c : c = changes[req[t].id]
  OBVIOUS
<1>2. PICK x : x = c.on
  OBVIOUS
<1>3. req[t].id \in DOMAIN changes
  BY DEF RevertsBy
<1>4. HistoryRow(c)
  BY <1>1, <1>3 DEF HistoryOK
<1>5. changes'[req'[t].id] = c /\ req'[t].id \in DOMAIN changes' /\ plan'[t].writes = w /\ plan'[t].row = plan[t].row
  BY <1>1, <1>3
<1> HIDE DEF w
<1>6. CASE c.op \in {"set", "revert", "update_relationship", "end_relationship", "update_step", "confirm_mention"}
  <2>1. /\ DOMAIN w = {x} /\ w[x] = Update(c.old) /\ locks[x] = t /\ Exists(x)
        /\ ~req[t].arg.force => Only(world[x], DOMAIN c.new) = c.new
    BY <1>1, <1>2, <1>6 DEF RevertsBy, w
  <2>2. x \in Id
    BY <1>2, <1>4, <1>6 DEF HistoryRow, Id
  <2>3. world'[x] = world[x] /\ locks'[x] = t
    BY <2>1, <2>2
  <2>4. QED
    BY <1>2, <1>5, <1>6, <2>1, <2>3 DEF RevertsBy, Exists
<1>7. CASE c.op \in {"remove_alias", "remove_mention"}
  <2>1. DOMAIN w = {x} /\ w[x].how = "insert" /\ w[x].cols.floor = c.old.floor
    BY <1>1, <1>2, <1>7 DEF RevertsBy, w
  <2>2. QED
    BY <1>2, <1>5, <1>7, <2>1 DEF RevertsBy
<1>8. CASE c.op \in {"add_step", "add_mention"}
  <2>1. DOMAIN w = {x} /\ w[x] = Delete /\ (~req[t].arg.force => Recorded(x) = c.new)
    BY <1>1, <1>2, <1>8 DEF RevertsBy, w
  <2>2. x \in Steps \cup Mentions /\ x \in Id
    BY <1>2, <1>4, <1>8 DEF HistoryRow, Id
  <2>3. world'[x] = world[x]
    BY <2>1, <2>2 DEF w
  <2>4. Recorded(x)' = Recorded(x)
    BY <2>3 DEF Recorded, Only
  <2>5. ~req'[t].arg.force => Recorded(x)' = c.new
    BY <2>1, <2>4
  <2>6. QED
    BY <1>2, <1>5, <1>8, <2>1, <2>5, ZenonT(40) DEF RevertsBy, Recorded, Only
<1>9. CASE c.op \notin {"set", "revert", "update_relationship", "end_relationship", "update_step", "confirm_mention",
                        "remove_alias", "remove_mention", "add_step", "add_mention"}
  BY <1>5, <1>9 DEF RevertsBy
<1>10. QED
  BY <1>6, <1>7, <1>8, <1>9

\* What a revert found is kept by every step of another session.
LEMMA RevertsStep ==
    ASSUME HomesInv, RevertsHeld, [Next]_vars
    PROVE  RevertsHeld'
<1>t. TypeOK /\ WorldOK /\ HistoryOK /\ PlansOK /\ ShapesOK /\ HomesKept
  BY DEF HomesInv, TypeOK
<1>1. CASE Quiet
  <2>1. /\ UNCHANGED <<world, changes>>
        /\ \A t \in Session : pc'[t] = "flush" => pc[t] = "flush" /\ plan'[t] = plan[t] /\ req'[t] = req[t]
        /\ \A t \in Session, x \in Id \cup Proposal : pc'[t] = "flush" /\ locks[x] = t => locks'[x] = t
    BY <1>1 DEF Quiet
  <2> SUFFICES ASSUME NEW t \in Session, pc'[t] = "flush" PROVE RevertsBy(t, plan[t])'
    BY DEF RevertsHeld, Flushing
  <2>2. RevertsBy(t, plan[t])
    BY <2>1 DEF RevertsHeld, Flushing
  <2>3. QED
    BY <1>t, <2>1, <2>2, RevertsStay
<1>2. ASSUME NEW s \in Session, Plans(s) PROVE RevertsHeld'
  <2>1. /\ UNCHANGED <<world, changes, locks, req>>
        /\ \A t \in Session : pc'[t] = "flush" => t = s \/ (pc[t] = "flush" /\ plan'[t] = plan[t])
    BY <1>2 DEF Plans
  <2>2. RevertsBy(s, plan'[s])
    BY <1>2, <1>t, PlanIs
  <2> SUFFICES ASSUME NEW t \in Session, pc'[t] = "flush" PROVE RevertsBy(t, plan[t])'
    BY DEF RevertsHeld, Flushing
  <2>3. CASE t = s
    BY <2>1, <2>2, <2>3 DEF RevertsBy, Recorded, Only, Exists
  <2>4. CASE t # s
    <3>1. RevertsBy(t, plan[t])
      BY <2>1, <2>4 DEF RevertsHeld, Flushing
    <3>2. QED
      BY <1>t, <2>1, <2>4, <3>1, RevertsStay
  <2>5. QED
    BY <2>3, <2>4
<1>3. ASSUME NEW s \in Session, Commits(s) PROVE RevertsHeld'
  <2>1. /\ \A t \in Session : pc'[t] = "flush" => t # s /\ pc[t] = "flush" /\ plan'[t] = plan[t] /\ req'[t] = req[t]
        /\ \A t \in Session, x \in Id \cup Proposal : pc'[t] = "flush" /\ locks[x] = t => locks'[x] = t
        /\ \A x \in DOMAIN plan[s].writes : locks[x] = s
    BY <1>3 DEF Commits
  <2>2. \A i \in DOMAIN changes : i \in DOMAIN changes' /\ changes'[i] = changes[i]
    BY <1>3, <1>t, HistoryGrows DEF ShapesOK, Commits
  <2> SUFFICES ASSUME NEW t \in Session, pc'[t] = "flush" PROVE RevertsBy(t, plan[t])'
    BY DEF RevertsHeld, Flushing
  <2>3. t # s /\ pc[t] = "flush" /\ plan'[t] = plan[t] /\ req'[t] = req[t] /\ RevertsBy(t, plan[t])
    BY <2>1 DEF RevertsHeld, Flushing
  <2>4. ASSUME NEW x \in Id, locks[x] = t PROVE world'[x] = world[x]
    BY <1>3, <1>t, <2>1, <2>3, <2>4, CommitWrites
  <2>5. ASSUME NEW x \in DOMAIN plan[t].writes, x \in Steps \cup Mentions, plan[t].writes[x] = Delete PROVE world'[x] = world[x]
    BY <1>3, <2>3, <2>5, HomesApart DEF Delete
  <2>6. QED
    BY <1>t, <2>1, <2>2, <2>3, <2>4, <2>5, RevertsStay
<1>4. QED
  BY <1>1, <1>2, <1>3, <1>t, StepIs

\* A session whose flush ends as the history grows has committed.
LEMMA WroteIs ==
    ASSUME ShapesOK, [Next]_vars, NEW s \in Session, pc[s] = "flush", pc'[s] = "idle", Len(changes') > Len(changes)
    PROVE  Commits(s)
<1>1. changes' # changes
  <2>1. Len(changes) \in Nat
    BY DEF ShapesOK
  <2>2. QED
    BY <2>1
<1>2. PICK u \in Session : Commit(u)
  BY <1>1 DEF Next, vars, Begin, Lock, Apply, FlushRow, RollBack
<1>3. u = s
  BY <1>2, EndEnds DEF Commit
<1>4. ~Conflicts(plan[s].writes) /\ world' = After(plan[s].writes) /\ changes' = Append(changes, plan[s].row)
  BY <1>1, <1>2, <1>3 DEF Commit
<1>5. End(s) /\ \A x \in DOMAIN plan[s].writes : locks[x] = s
  BY <1>2, <1>3 DEF Commit
<1>6. \A t \in Session : pc'[t] = "flush" => t # s /\ pc[t] = "flush" /\ plan'[t] = plan[t] /\ req'[t] = req[t]
  BY <1>5, EndEnds
<1>7. \A t \in Session, x \in Id \cup Proposal : pc'[t] = "flush" /\ locks[x] = t => locks'[x] = t
  BY <1>5, <1>6, EndEnds
<1>8. QED
  BY <1>4, <1>5, <1>6, <1>7 DEF Commits

\* So its commit restores it.
LEMMA RevertIs ==
    ASSUME RevertInv, [Next]_vars, NEW s \in Session, Undoes(s)
    PROVE  LET c == changes[req[s].id] IN
           CASE c.op \in {"set", "revert", "update_relationship", "end_relationship", "update_step", "confirm_mention"} ->
                   Only(world[c.on], DOMAIN c.new) = c.new /\ Only(world'[c.on], DOMAIN c.old) = c.old
             [] c.op \in {"remove_alias", "remove_mention"} ->
                   world[c.on] = Nil /\ world'[c.on] # Nil /\ world'[c.on].floor = c.old.floor
             [] c.op \in {"add_step", "add_mention"} -> Recorded(c.on) = c.new /\ world'[c.on] = Nil
             [] OTHER -> TRUE
<1> DEFINE c == changes[req[s].id]
           x == c.on
           w == plan[s].writes
<1>t. WorldOK /\ PlansOK /\ ShapesOK
  BY DEF RevertInv, HomesInv, TypeOK
<1>1. Commits(s) /\ pc[s] = "flush" /\ ~req[s].arg.force /\ plan[s].row.op = "revert"
  BY <1>t, WroteIs DEF Undoes
<1>2. RevertsBy(s, plan[s])
  BY <1>1 DEF RevertInv, RevertsHeld, Flushing
<1>3. \A y \in DOMAIN w :
         /\ y \in Id /\ WriteOK(y, w[y])
         /\ w[y].how = "insert" => ~Exists(y) /\ world'[y] = w[y].cols /\ world'[y] # Nil
         /\ w[y].how = "update" => Exists(y) /\ world'[y] = Over(w[y].cols, world[y])
         /\ w[y].how = "delete" => world'[y] = Nil
  BY <1>1, <1>t, CommitWrites DEF PlanOK
<1>4. CASE c.op \in {"set", "revert", "update_relationship", "end_relationship", "update_step", "confirm_mention"}
  <2>1. DOMAIN w = {x} /\ w[x] = Update(c.old) /\ Only(world[x], DOMAIN c.new) = c.new
    BY <1>1, <1>2, <1>4 DEF RevertsBy
  <2> HIDE DEF w, x
  <2>2. w[x].how = "update" /\ w[x].cols = c.old
    BY <2>1 DEF Update
  <2>3. world'[x] = Over(c.old, world[x]) /\ c.old \in SetsOf(x) /\ x \in Id
    BY <1>3, <2>1, <2>2 DEF WriteOK
  <2>4. c.old = [f \in DOMAIN c.old |-> c.old[f]]
    BY <2>3, Kinds DEF Id, EntitySets, FieldCols, EdgeSets, EdgeMoves, StepSets, MentionSets
  <2> HIDE DEF c
  <2>5. Only(world'[x], DOMAIN c.old) = [f \in DOMAIN c.old |-> c.old[f]]
    BY <2>3 DEF Only, Over
  <2>6. QED
    BY <1>4, <2>1, <2>4, <2>5 DEF x, c
<1>5. CASE c.op \in {"remove_alias", "remove_mention"}
  <2>1. DOMAIN w = {x} /\ w[x].how = "insert" /\ w[x].cols.floor = c.old.floor
    BY <1>1, <1>2, <1>5 DEF RevertsBy
  <2> HIDE DEF w
  <2>2. QED
    BY <1>3, <1>5, <2>1 DEF Exists
<1>6. CASE c.op \in {"add_step", "add_mention"}
  <2>1. DOMAIN w = {x} /\ w[x] = Delete /\ Recorded(x) = c.new
    BY <1>1, <1>2, <1>6 DEF RevertsBy
  <2> HIDE DEF w
  <2>2. QED
    BY <1>3, <1>6, <2>1 DEF Delete
<1>7. CASE c.op \notin {"set", "revert", "update_relationship", "end_relationship", "update_step", "confirm_mention",
                        "remove_alias", "remove_mention", "add_step", "add_mention"}
  BY <1>7
<1>8. QED
  BY <1>4, <1>5, <1>6, <1>7

\* An unforced revert of an edit, of remove_alias, remove_mention, add_step or
\* add_mention undoes what it says it undoes, whatever other sessions wrote since
\* it was asked for: it holds the row, or the Entity the row hangs on, from
\* reading it to the commit (apply_change, op "revert").
THEOREM RevertRestoresHolds == Spec => RevertRestores
<1>1. Init => RevertsHeld
  BY DEF Init, RevertsHeld, Flushing
<1>2. HomesInv /\ RevertsHeld /\ [Next]_vars => RevertsHeld'
  BY RevertsStep
<1>3. HomesInv /\ RevertsHeld /\ [Next]_vars =>
        [\A s \in Session : Undoes(s) =>
           LET c == changes[req[s].id] IN
           CASE c.op \in {"set", "revert", "update_relationship", "end_relationship", "update_step", "confirm_mention"} ->
                   Only(world[c.on], DOMAIN c.new) = c.new /\ Only(world'[c.on], DOMAIN c.old) = c.old
             [] c.op \in {"remove_alias", "remove_mention"} ->
                   world[c.on] = Nil /\ world'[c.on] # Nil /\ world'[c.on].floor = c.old.floor
             [] c.op \in {"add_step", "add_mention"} -> Recorded(c.on) = c.new /\ world'[c.on] = Nil
             [] OTHER -> TRUE]_vars
  BY RevertIs DEF RevertInv
<1>4. QED
  BY <1>1, <1>2, <1>3, HomesHold, PTL DEF Spec, RevertRestores

-----------------------------------------------------------------------------
(* Merges                                                                  *)

\* What a merge of a is about to write stays what it was: of a's rows it holds
\* the Entity, and of an edge others change only what is not a's.
LEMMA MergesStay ==
    ASSUME PlansOK, NEW t \in Session, pc[t] = "flush", MergesBy(t, plan[t]), plan'[t] = plan[t],
           \A x \in Id \cup Proposal : locks[x] = t => locks'[x] = t,
           \A q \in Entities : locks[q] = t => world'[q] = world[q] /\ \A k \in Key : world'[<<q, k>>] = world[<<q, k>>],
           \A x \in Edges \cap DOMAIN plan[t].writes :
              world'[x] = Nil \/
              /\ Exists(x)
              /\ \A c \in {"src", "dst"}, q \in Entities : locks[q] = t /\ world[x][c] = q => world'[x][c] = q
              /\ world'[x].floor = world[x].floor \/ world'[x].floor \in GmFloor,
           \A x \in Mentions \cap DOMAIN plan[t].writes : plan[t].writes[x].how # "insert" => world'[x] = world[x]
    PROVE  MergesBy(t, plan[t])'
<1> DEFINE p == plan[t]
           w == p.writes
<1>0. PlanOK(p)
  BY DEF PlansOK
<1>1. CASE p.row.op # "merge"
  BY <1>1 DEF MergesBy
<1>2. CASE p.row.op = "merge"
  <2>1. PICK a \in Entities, e \in Entities : a = p.row.on /\ e = p.row.entity
    BY <1>0, <1>2 DEF PlanOK, HistoryRow
  <2>2. locks[a] = t /\ locks[e] = t /\ Live(a) /\ Live(e)
    BY <1>2, <2>1 DEF MergesBy
  <2>3. world'[a] = world[a] /\ world'[e] = world[e] /\ locks'[a] = t /\ locks'[e] = t
    BY <2>1, <2>2 DEF Id
  <2>4. Live(a)' /\ Live(e)'
    BY <2>2, <2>3 DEF Live, Exists
  <2>5. ASSUME NEW x \in DOMAIN w, x \in Entities PROVE x = a /\ w[x] = Update([merged |-> e])
    BY <1>2, <2>1, <2>5 DEF MergesBy
  <2>6. ASSUME NEW x \in DOMAIN w, x \in Edges, w[x].how # "delete"
        PROVE  /\ w[x].how = "update" /\ w[x].cols \in EdgeMoves
               /\ \A c \in DOMAIN w[x].cols \ {"floor"} : w[x].cols[c] = e /\ (world'[x] # Nil => world'[x][c] = a)
               /\ world'[x] # Nil => FloorSet(world'[a].vis, world'[x].floor, w[x].cols)
    <3>1. /\ w[x].how = "update" /\ w[x].cols \in EdgeMoves
          /\ \A c \in DOMAIN w[x].cols \ {"floor"} : w[x].cols[c] = e /\ (Exists(x) => world[x][c] = a)
          /\ Exists(x) => FloorSet(world[a].vis, world[x].floor, w[x].cols)
      BY <1>2, <2>1, <2>6 DEF MergesBy
    <3>2. world'[x] = Nil \/ /\ Exists(x)
                             /\ \A c \in {"src", "dst"} : world[x][c] = a => world'[x][c] = a
                             /\ world'[x].floor = world[x].floor \/ world'[x].floor \in GmFloor
      BY <2>1, <2>2, <2>6
    <3>3. DOMAIN w[x].cols \ {"floor"} \subseteq {"src", "dst"}
      BY <3>1 DEF EdgeMoves
    <3> HIDE DEF w, p
    <3>4. \A c \in DOMAIN w[x].cols \ {"floor"} : world'[x] # Nil => world'[x][c] = a
      BY <3>1, <3>2, <3>3
    <3>5. world'[x] # Nil => FloorSet(world'[a].vis, world'[x].floor, w[x].cols)
      BY <2>3, <3>1, <3>2 DEF FloorSet
    <3>6. QED
      BY <3>1, <3>4, <3>5
  <2>7. ASSUME NEW x \in DOMAIN w, x \in Mentions
        PROVE  /\ w[x].how = "update" /\ world'[x].entity = a /\ w[x].cols.entity = e
               /\ w[x].cols \notin [confirmed : BOOLEAN]
               /\ FloorSet(world'[a].vis, world'[x].floor, w[x].cols)
    <3>1. /\ w[x].how = "update" /\ world[x].entity = a /\ w[x].cols.entity = e
          /\ w[x].cols \notin [confirmed : BOOLEAN]
          /\ FloorSet(world[a].vis, world[x].floor, w[x].cols)
      BY <1>2, <2>1, <2>7 DEF MergesBy
    <3>2. world'[x] = world[x]
      BY <2>7, <3>1
    <3>3. QED
      BY <2>3, <3>1, <3>2
  <2>8. ASSUME NEW x \in DOMAIN w, NEW k \in Key, NEW q \in Entities, x = <<q, k>>, w[x].how # "delete"
        PROVE  /\ w[x].how = "insert" /\ q = e
               /\ \/ world'[<<a, k>>] # Nil /\ w[x].cols.floor = Floored(world'[a].vis, world'[<<a, k>>].floor)
                  \/ world'[a].name = k /\ w[x].cols.floor = Floored(world'[a].vis, Nil)
    <3>1. /\ w[x].how = "insert" /\ q = e
          /\ \/ Exists(<<a, k>>) /\ w[x].cols.floor = Floored(world[a].vis, world[<<a, k>>].floor)
             \/ world[a].name = k /\ w[x].cols.floor = Floored(world[a].vis, Nil)
      BY <1>2, <2>1, <2>8 DEF MergesBy
    <3>2. world'[<<a, k>>] = world[<<a, k>>]
      BY <2>1, <2>2
    <3>3. QED
      BY <2>3, <3>1, <3>2 DEF Exists
  <2>9. plan'[t] = p
    OBVIOUS
  <2> HIDE DEF p, w
  <2>10. plan'[t].writes = w /\ plan'[t].row = p.row
    BY <2>9 DEF w
  <2>11. QED
    BY <1>2, <2>1, <2>3, <2>4, <2>5, <2>6, <2>7, <2>8, <2>10 DEF MergesBy, Exists
<1>3. QED
  BY <1>1, <1>2

\* What a merge is about to write is kept by every step of another session.
LEMMA MergesStep ==
    ASSUME HomesInv, MergesHeld, [Next]_vars
    PROVE  MergesHeld'
<1>t. TypeOK /\ WorldOK /\ HistoryOK /\ PlansOK /\ ShapesOK /\ HomesKept
  BY DEF HomesInv, TypeOK
<1>1. CASE Quiet
  <2>1. /\ UNCHANGED <<world, changes>>
        /\ \A t \in Session : pc'[t] = "flush" => pc[t] = "flush" /\ plan'[t] = plan[t]
        /\ \A t \in Session, x \in Id \cup Proposal : pc'[t] = "flush" /\ locks[x] = t => locks'[x] = t
    BY <1>1 DEF Quiet
  <2> SUFFICES ASSUME NEW t \in Session, pc'[t] = "flush" PROVE MergesBy(t, plan[t])'
    BY DEF MergesHeld, Flushing
  <2>2. MergesBy(t, plan[t])
    BY <2>1 DEF MergesHeld, Flushing
  <2>3. QED
    BY <1>t, <2>1, <2>2, MergesStay DEF Exists
<1>2. ASSUME NEW s \in Session, Plans(s) PROVE MergesHeld'
  <2>1. /\ UNCHANGED <<world, changes, locks>>
        /\ \A t \in Session : pc'[t] = "flush" => t = s \/ (pc[t] = "flush" /\ plan'[t] = plan[t])
    BY <1>2 DEF Plans
  <2>2. MergesBy(s, plan'[s])
    BY <1>2, <1>t, PlanIs DEF Founded
  <2> SUFFICES ASSUME NEW t \in Session, pc'[t] = "flush" PROVE MergesBy(t, plan[t])'
    BY DEF MergesHeld, Flushing
  <2>3. CASE t = s
    BY <2>1, <2>2, <2>3 DEF MergesBy, Live, Exists
  <2>4. CASE t # s
    <3>1. MergesBy(t, plan[t])
      BY <2>1, <2>4 DEF MergesHeld, Flushing
    <3>2. QED
      BY <1>t, <2>1, <2>4, <3>1, MergesStay DEF Exists
  <2>5. QED
    BY <2>3, <2>4
<1>3. ASSUME NEW s \in Session, Commits(s) PROVE MergesHeld'
  <2> DEFINE w == plan[s].writes
  <2>1. /\ \A t \in Session : pc'[t] = "flush" => t # s /\ pc[t] = "flush" /\ plan'[t] = plan[t]
        /\ \A t \in Session, x \in Id \cup Proposal : pc'[t] = "flush" /\ locks[x] = t => locks'[x] = t
        /\ (\A x \in DOMAIN w : locks[x] = s) /\ pc[s] = "flush"
    BY <1>3 DEF Commits
  <2>2. /\ \A x \in Id : x \notin DOMAIN w => world'[x] = world[x]
        /\ \A x \in DOMAIN w :
              /\ w[x].how = "insert" => ~Exists(x)
              /\ w[x].how = "update" => Exists(x) /\ world'[x] = Over(w[x].cols, world[x])
              /\ w[x].how = "delete" => world'[x] = Nil
              /\ w[x].how \in {"insert", "update", "delete"}
    BY <1>3, <1>t, CommitWrites
  <2>b. HomesBy(s, plan[s]) /\ NewBy(s, plan[s]) /\ InsertsBy(plan[s]) /\ MergesBy(s, plan[s]) /\ PlanOK(plan[s])
    BY <1>t, <2>1 DEF HomesInv, HomesHeld, NewIsNew, OnlyAdditionsInsert, MergesHeld, Flushing, PlansOK
  <2> SUFFICES ASSUME NEW t \in Session, pc'[t] = "flush" PROVE MergesBy(t, plan[t])'
    BY DEF MergesHeld, Flushing
  <2>3. t # s /\ pc[t] = "flush" /\ plan'[t] = plan[t] /\ MergesBy(t, plan[t])
    BY <2>1 DEF MergesHeld, Flushing
  <2>4. ASSUME NEW q \in Entities, locks[q] = t
        PROVE  world'[q] = world[q] /\ \A k \in Key : world'[<<q, k>>] = world[<<q, k>>]
    <3>1. q \in Id /\ \A k \in Key : <<q, k>> \in Id
      BY DEF Id
    <3>2. q \notin DOMAIN w /\ \A k \in Key : <<q, k>> \notin DOMAIN w
      BY <2>1, <2>3, <2>4, <2>b DEF HomesBy
    <3>3. QED
      BY <2>2, <3>1, <3>2
  <2>5. ASSUME NEW x \in Mentions \cap DOMAIN plan[t].writes, plan[t].writes[x].how # "insert" PROVE world'[x] = world[x]
    BY <1>3, <2>3, <2>5, HomesApart
  <2>6. ASSUME NEW x \in Edges \cap DOMAIN plan[t].writes
        PROVE  world'[x] = Nil \/
               /\ Exists(x)
               /\ \A c \in {"src", "dst"}, q \in Entities : locks[q] = t /\ world[x][c] = q => world'[x][c] = q
               /\ world'[x].floor = world[x].floor \/ world'[x].floor \in GmFloor
    <3>0. x \in Id
      BY DEF Id
    <3>1. CASE x \notin DOMAIN w
      BY <2>2, <3>0, <3>1 DEF Exists
    <3>2. CASE x \in DOMAIN w /\ w[x].how = "insert"
      <4>1. plan[s].row.op \in Additions /\ plan[s].row.on = x
        BY <2>b, <3>2 DEF InsertsBy
      <4>2. x \notin DOMAIN plan[t].writes
        BY <2>3, <2>b, <4>1 DEF NewBy, Flushing
      <4>3. QED
        BY <4>2
    <3>3. CASE x \in DOMAIN w /\ w[x].how = "delete"
      BY <2>2, <3>3
    <3>4. CASE x \in DOMAIN w /\ w[x].how = "update"
      <4>1. Exists(x) /\ world'[x] = Over(w[x].cols, world[x])
        BY <2>2, <3>4
      <4>2. world[x] \in EdgeRow
        BY <1>t, <3>0, <4>1, RowIs
      <4>3. CASE plan[s].row.op # "merge"
        <5>1. w[x].cols \in EdgeSets
          BY <2>b, <3>4, <4>3 DEF MergesBy
        <5> HIDE DEF w
        <5>2. DOMAIN w[x].cols \cap {"src", "dst", "floor"} = {}
          BY <5>1 DEF EdgeSets
        <5>3. \A c \in {"src", "dst", "floor"} : world'[x][c] = world[x][c]
          BY <4>1, <4>2, <5>2 DEF Over, EdgeRow
        <5>4. QED
          BY <4>1, <5>3
      <4>4. CASE plan[s].row.op = "merge"
        <5> DEFINE b == plan[s].row.on
        <5>1. /\ w[x].cols \in EdgeMoves /\ locks[b] = s
              /\ \A c \in DOMAIN w[x].cols \ {"floor"} : world[x][c] = b
          BY <2>b, <3>4, <4>1, <4>4 DEF MergesBy
        <5> HIDE DEF w, b
        <5>2. \A c \in {"src", "dst"} : world'[x][c] = IF c \in DOMAIN w[x].cols THEN w[x].cols[c] ELSE world[x][c]
          BY <4>1, <4>2 DEF Over, EdgeRow
        <5>3. world'[x].floor = IF "floor" \in DOMAIN w[x].cols THEN w[x].cols.floor ELSE world[x].floor
          BY <4>1, <4>2 DEF Over, EdgeRow
        <5>4. "floor" \in DOMAIN w[x].cols => w[x].cols.floor \in GmFloor
          BY <5>1 DEF EdgeMoves
        <5>5. ASSUME NEW c \in {"src", "dst"}, NEW q \in Entities, locks[q] = t, world[x][c] = q PROVE world'[x][c] = q
          <6>1. c \notin DOMAIN w[x].cols
            BY <2>3, <5>1, <5>5
          <6>2. QED
            BY <5>2, <5>5, <6>1
        <5>6. QED
          BY <4>1, <5>3, <5>4, <5>5
      <4>5. QED
        BY <4>3, <4>4
    <3>5. QED
      BY <2>2, <3>1, <3>2, <3>3, <3>4
  <2>7. \A x \in Id \cup Proposal : locks[x] = t => locks'[x] = t
    BY <2>1
  <2> HIDE DEF w
  <2>8. QED
    BY <1>t, <2>3, <2>4, <2>5, <2>6, <2>7, MergesStay
<1>4. QED
  BY <1>1, <1>2, <1>3, <1>t, StepIs

\* A Quest's Audience is one, and only a merge of it can narrow it so.
LEMMA EntityAudIs ==
    ASSUME NEW row \in EntityRow, NEW w, NEW q, w[q] = row
    PROVE  /\ EntityAud(w, q) \in Audience
           /\ row.merged # Nil => EntityAud(w, q) = GM
           /\ row.deleted = Nil /\ row.merged = Nil => EntityAud(w, q) = StoredAudience(row.vis, row.owner, Nil)
<1>1. row.vis \in Vis /\ row.owner \in Owners
  BY DEF EntityRow, Vis, Owners
<1>2. StoredAudience(row.vis, row.owner, Nil) \in Audience
  BY <1>1, StoredIsAudience
<1>3. GM \in Audience
  BY NamedAudiences
<1>4. EntityAud(w, q) = IF row.deleted # Nil \/ row.merged # Nil THEN GM ELSE StoredAudience(row.vis, row.owner, Nil)
  BY DEF EntityAud, RowAudience
<1>5. QED
  BY <1>2, <1>3, <1>4

\* A GM reads every row.
LEMMA GmReads ==
    ASSUME NEW viewer \in Audience, Covers(GM, viewer), NEW a \in Audience
    PROVE  Covers(a, viewer)
<1>1. viewer.level = "gm"
  <2>1. viewer.level \in Level
    BY AudienceShape
  <2>2. QED
    BY <2>1 DEF Covers, GM, Rank, Level
<1>2. a.level \in Level
  BY AudienceShape
<1>3. QED
  BY <1>1, <1>2 DEF Covers, Rank, Level

\* The floor a moved row has after the merge: only viewers of the absorbed
\* Entity pass it, and all of them passed the one it had.
LEMMA FloorAfter ==
    ASSUME NEW vis \in Visibility, NEW owner \in User \cup {Nil}, NEW old \in Floor, NEW new \in Floor,
           vis = "party" => new = old,
           vis # "party" => new \in GmFloor,
           NEW viewer \in Audience, Covers(FloorAudience(new), viewer)
    PROVE  Covers(StoredAudience(vis, owner, Nil), viewer) /\ Covers(FloorAudience(old), viewer)
<1>1. StoredAudience(vis, owner, Nil) \in Audience /\ FloorAudience(old) \in Audience
  BY StoredIsAudience, FloorClauseAgrees DEF Vis, Owners, Floor
<1>2. Nil \notin Visibility
  BY AccessAssumption
<1>3. CASE vis = "party"
  <2>1. StoredAudience(vis, owner, Nil) = Public
    BY <1>3 DEF StoredAudience
  <2>2. viewer.level \in Level
    BY AudienceShape
  <2>3. Covers(Public, viewer)
    BY <2>2 DEF Covers, Public, Rank, Level
  <2>4. QED
    BY <1>3, <2>1, <2>3
<1>4. CASE vis # "party"
  <2>1. FloorAudience(new) = GM
    BY <1>2, <1>4 DEF GmFloor, FloorAudience, StoredAudience, Visibility
  <2>2. QED
    BY <1>1, <2>1, GmReads
<1>5. QED
  BY <1>3, <1>4

\* An edge is read by whoever reads all that it is met of.
LEMMA EdgeCovers ==
    ASSUME NEW vis \in Visibility, NEW floor \in Floor, NEW a \in Audience, NEW b \in Audience, NEW viewer \in Audience
    PROVE  Covers(EdgeAudience(vis, floor, a, b), viewer)
             <=> /\ Covers(StoredAudience(vis, Nil, Nil), viewer) /\ Covers(FloorAudience(floor), viewer)
                 /\ Covers(a, viewer) /\ Covers(b, viewer)
<1> DEFINE own == StoredAudience(vis, Nil, Nil)
           f == FloorAudience(floor)
<1>1. own \in Audience /\ f \in Audience
  BY StoredIsAudience, FloorClauseAgrees DEF Vis, Owners, Floor
<1>2. EdgeAudience(vis, floor, a, b) = Meet(Meet(Meet(own, f), a), b)
  BY DEF EdgeAudience
<1> HIDE DEF own, f
<1>3. Meet(own, f) \in Audience /\ (Covers(Meet(own, f), viewer) <=> Covers(own, viewer) /\ Covers(f, viewer))
  BY <1>1, MeetIsConjunction
<1>4. /\ Meet(Meet(own, f), a) \in Audience
      /\ Covers(Meet(Meet(own, f), a), viewer) <=> Covers(Meet(own, f), viewer) /\ Covers(a, viewer)
  BY <1>3, MeetIsConjunction
<1>5. Covers(Meet(Meet(Meet(own, f), a), b), viewer)
        <=> Covers(own, viewer) /\ Covers(f, viewer) /\ Covers(a, viewer) /\ Covers(b, viewer)
  BY <1>3, <1>4, MeetIsConjunction
<1>6. QED
  BY <1>2, <1>5 DEF own, f

\* So is an alias or a Mention.
LEMMA DerivedCovers ==
    ASSUME NEW floor \in Floor, NEW a \in Audience, NEW viewer \in Audience
    PROVE  Covers(DerivedAudience(a, floor), viewer) <=> Covers(a, viewer) /\ Covers(FloorAudience(floor), viewer)
<1>1. FloorAudience(floor) \in Audience
  BY FloorClauseAgrees DEF Vis, Floor
<1>2. QED
  BY <1>1, MeetIsConjunction DEF DerivedAudience

\* The Audience of each kind of row.
LEMMA RowAudIs ==
    ASSUME NEW w, NEW x \in Id
    PROVE  /\ x \in Edges => RowAud(w, x) = EdgeAudience(w[x].vis, w[x].floor, EntityAud(w, w[x].src), EntityAud(w, w[x].dst))
           /\ x \in Mentions => RowAud(w, x) = DerivedAudience(EntityAud(w, w[x].entity), w[x].floor)
           /\ x \in Entities => RowAud(w, x) = EntityAud(w, x)
           /\ x \in Entities \X Key => RowAud(w, x) = DerivedAudience(EntityAud(w, x[1]), w[x].floor)
<1>1. /\ Edges \cap (Steps \cup Mentions) = {} /\ Steps \cap Mentions = {}
      /\ Entities \cap (Edges \cup Steps \cup Mentions) = {}
      /\ (Entities \cup Edges \cup Steps \cup Mentions) \cap (Entities \X Key) = {}
  BY CanonAssumption
<1>2. QED
  BY <1>1 DEF RowAud

\* So its commit widens no row.
LEMMA MergeIs ==
    ASSUME HomesInv, MergesHeld, [Next]_vars, NEW s \in Session, MergeOf(s)
    PROVE  LET a == plan[s].row.on
               e == plan[s].row.entity
               before(x, viewer) == Exists(x) /\ Covers(RowAud(world, x), viewer)
           IN  \A viewer \in Audience, x \in Id :
                   x \notin Steps /\ world'[x] # Nil /\ Covers(RowAud(world', x), viewer) =>
                       \/ before(x, viewer)
                       \/ /\ x \in Entities \X Key /\ x[1] = e
                          /\ before(<<a, x[2]>>, viewer) \/ (world[a].name = x[2] /\ before(a, viewer))
<1> DEFINE w == plan[s].writes
           w1 == world'
           before(x, viewer) == Exists(x) /\ Covers(RowAud(world, x), viewer)
<1>t. WorldOK /\ PlansOK /\ ShapesOK /\ HistoryOK
  BY DEF HomesInv, TypeOK
<1>1. Commits(s) /\ pc[s] = "flush" /\ plan[s].row.op = "merge"
  BY <1>t, WroteIs DEF MergeOf
<1>2. PlanOK(plan[s]) /\ MergesBy(s, plan[s])
  BY <1>1, <1>t DEF MergesHeld, Flushing, PlansOK
<1>3. PICK a \in Entities, e \in Entities : a = plan[s].row.on /\ e = plan[s].row.entity
  BY <1>1, <1>2 DEF PlanOK, HistoryRow
<1>4. /\ Live(a) /\ Live(e)
      /\ \A x \in DOMAIN w :
            /\ x \in Entities => x = a /\ w[x] = Update([merged |-> e])
            /\ x \in Edges /\ w[x].how # "delete" =>
                  /\ w[x].how = "update" /\ w[x].cols \in EdgeMoves
                  /\ \A c \in DOMAIN w[x].cols \ {"floor"} : w[x].cols[c] = e /\ (Exists(x) => world[x][c] = a)
                  /\ Exists(x) => FloorSet(world[a].vis, world[x].floor, w[x].cols)
            /\ x \in Mentions =>
                  /\ w[x].how = "update" /\ world[x].entity = a /\ w[x].cols.entity = e
                  /\ w[x].cols \notin [confirmed : BOOLEAN]
                  /\ FloorSet(world[a].vis, world[x].floor, w[x].cols)
            /\ \A k \in Key, q \in Entities : x = <<q, k>> /\ w[x].how # "delete" =>
                  /\ w[x].how = "insert" /\ q = e
                  /\ \/ Exists(<<a, k>>) /\ w[x].cols.floor = Floored(world[a].vis, world[<<a, k>>].floor)
                     \/ world[a].name = k /\ w[x].cols.floor = Floored(world[a].vis, Nil)
  BY <1>1, <1>2, <1>3 DEF MergesBy
<1>5. a \in DOMAIN w
  BY <1>1, <1>2, <1>3, PlanRow
<1>6. /\ \A x \in Id : x \notin DOMAIN w => world'[x] = world[x]
      /\ \A x \in DOMAIN w :
            /\ WriteOK(x, w[x])
            /\ w[x].how = "insert" => ~Exists(x) /\ world'[x] = w[x].cols /\ world'[x] \in RowOf(x)
            /\ w[x].how = "update" => Exists(x) /\ world'[x] = Over(w[x].cols, world[x]) /\ world'[x] \in RowOf(x)
            /\ w[x].how = "delete" => world'[x] = Nil
            /\ w[x].how \in {"insert", "update", "delete"}
  BY <1>1, <1>t, CommitWrites DEF PlanOK
<1>v. a \in Id /\ e \in Id
  BY DEF Id
<1>a. Exists(a) /\ world[a] \in EntityRow /\ world[a].deleted = Nil /\ world[a].merged = Nil
  BY <1>4, <1>t, <1>v, RowIs DEF Live
<1>7. world'[a] = Over([merged |-> e], world[a])
  BY <1>4, <1>5, <1>6 DEF Update
<1> HIDE DEF w
\* a's Audience before, and that nobody's narrows but a's.
<1>8. EntityAud(world, a) = StoredAudience(world[a].vis, world[a].owner, Nil) /\ EntityAud(world, a) \in Audience
  BY <1>a, EntityAudIs
<1>9. ASSUME NEW q \in Entities, Exists(q)
      PROVE  /\ EntityAud(world, q) \in Audience /\ EntityAud(w1, q) \in Audience
             /\ \A viewer \in Audience : Covers(EntityAud(w1, q), viewer) => Covers(EntityAud(world, q), viewer)
  <2>0. q \in Id
    BY DEF Id
  <2>1. world[q] \in EntityRow
    BY <1>9, <1>t, <2>0, RowIs
  <2>2. CASE q # a
    <3>1. w1[q] = world[q]
      BY <1>4, <1>6, <2>0, <2>2
    <3> HIDE DEF w1
    <3>2. EntityAud(w1, q) = EntityAud(world, q)
      BY <3>1 DEF EntityAud
    <3>3. QED
      BY <2>1, <3>2, EntityAudIs
  <2>3. CASE q = a
    <3>1. w1[q] \in EntityRow /\ w1[q].merged = e
      BY <1>7, <1>a, <2>3 DEF Over, EntityRow
    <3> HIDE DEF w1
    <3>2. EntityAud(w1, q) = GM /\ EntityAud(w1, q) \in Audience
      BY <3>1, CanonAssumption, EntityAudIs
    <3>3. EntityAud(world, q) \in Audience
      BY <2>1, EntityAudIs
    <3>4. QED
      BY <3>2, <3>3, GmReads
  <2>4. QED
    BY <2>2, <2>3
<1>10. world[a].vis \in Visibility /\ world[a].owner \in User \cup {Nil}
  BY <1>a DEF EntityRow
\* The floor set on a moved row.
<1>11. ASSUME NEW cols, NEW old \in Floor, NEW new \in Floor, FloorSet(world[a].vis, old, cols),
              new = IF "floor" \in DOMAIN cols THEN cols.floor ELSE old,
              "floor" \in DOMAIN cols => cols.floor \in GmFloor,
              NEW viewer \in Audience, Covers(FloorAudience(new), viewer)
       PROVE  Covers(EntityAud(world, a), viewer) /\ Covers(FloorAudience(old), viewer)
  <2>1. /\ world[a].vis = "party" => new = old
        /\ world[a].vis # "party" => new \in GmFloor
    BY <1>11 DEF FloorSet
  <2>2. QED
    BY <1>8, <1>10, <1>11, <2>1, FloorAfter
<1>12. ASSUME NEW viewer \in Audience, NEW x \in Id, x \notin Steps, world'[x] # Nil, Covers(RowAud(w1, x), viewer)
       PROVE  \/ before(x, viewer)
              \/ /\ x \in Entities \X Key /\ x[1] = e
                 /\ before(<<a, x[2]>>, viewer) \/ (world[a].name = x[2] /\ before(a, viewer))
  <2>w. w1[x] = world'[x]
    OBVIOUS
  <2> HIDE DEF w1
  <2>1. CASE x \in Entities
    <3>1. Exists(x)
      BY <1>4, <1>6, <1>a, <1>12, <2>1 DEF Exists
    <3>2. QED
      BY <1>9, <1>12, <2>1, <3>1, RowAudIs
  <2>2. CASE x \in Edges
    <3>1. Exists(x)
      BY <1>4, <1>6, <1>12, <2>2 DEF Exists
    <3>2. /\ world[x] \in EdgeRow /\ Exists(world[x].src) /\ Exists(world[x].dst)
          /\ world[x].src \in Entities /\ world[x].dst \in Entities /\ world[x].vis \in Visibility /\ world[x].floor \in Floor
      <4>1. world[x] \in EdgeRow /\ Exists(Subject(x)) /\ Subject(x) = world[x].src /\ Exists(world[x].dst)
        BY <1>t, <2>2, <3>1, RowIs, CanonAssumption
      <4>2. QED
        BY <4>1 DEF EdgeRow
    <3>3. /\ EntityAud(world, world[x].src) \in Audience /\ EntityAud(w1, world[x].src) \in Audience
          /\ EntityAud(world, world[x].dst) \in Audience /\ EntityAud(w1, world[x].dst) \in Audience
          /\ Covers(EntityAud(w1, world[x].src), viewer) => Covers(EntityAud(world, world[x].src), viewer)
          /\ Covers(EntityAud(w1, world[x].dst), viewer) => Covers(EntityAud(world, world[x].dst), viewer)
      BY <1>9, <3>2
    <3>4. /\ RowAud(world, x) = EdgeAudience(world[x].vis, world[x].floor, EntityAud(world, world[x].src), EntityAud(world, world[x].dst))
          /\ RowAud(w1, x) = EdgeAudience(w1[x].vis, w1[x].floor, EntityAud(w1, w1[x].src), EntityAud(w1, w1[x].dst))
      BY <2>2, RowAudIs
    <3>5. CASE x \notin DOMAIN w
      <4>1. w1[x] = world[x]
        BY <1>6, <2>w, <3>5
      <4>2. Covers(EdgeAudience(world[x].vis, world[x].floor, EntityAud(w1, world[x].src), EntityAud(w1, world[x].dst)), viewer)
        BY <1>12, <3>4, <4>1
      <4>3. Covers(EdgeAudience(world[x].vis, world[x].floor, EntityAud(world, world[x].src), EntityAud(world, world[x].dst)), viewer)
        BY <3>2, <3>3, <4>2, EdgeCovers
      <4>4. QED
        BY <3>1, <3>4, <4>3
    <3>6. CASE x \in DOMAIN w
      <4>1. /\ w[x].how = "update" /\ w[x].cols \in EdgeMoves
            /\ \A c \in DOMAIN w[x].cols \ {"floor"} : w[x].cols[c] = e /\ world[x][c] = a
            /\ FloorSet(world[a].vis, world[x].floor, w[x].cols)
        BY <1>4, <1>6, <1>12, <2>2, <3>1, <3>6
      <4>2. w1[x] = Over(w[x].cols, world[x])
        BY <1>6, <2>w, <3>6, <4>1
      <4>3. /\ DOMAIN w[x].cols \ {"floor"} \in {{"src"}, {"dst"}}
            /\ "floor" \in DOMAIN w[x].cols => w[x].cols.floor \in GmFloor
        BY <4>1 DEF EdgeMoves
      <4>4. /\ w1[x].vis = world[x].vis
            /\ w1[x].floor = IF "floor" \in DOMAIN w[x].cols THEN w[x].cols.floor ELSE world[x].floor
            /\ w1[x].src = IF "src" \in DOMAIN w[x].cols THEN w[x].cols.src ELSE world[x].src
            /\ w1[x].dst = IF "dst" \in DOMAIN w[x].cols THEN w[x].cols.dst ELSE world[x].dst
        <5>1. DOMAIN world[x] = {"src", "dst", "note", "ended", "vis", "floor"} /\ "vis" \notin DOMAIN w[x].cols
          BY <3>2, <4>3 DEF EdgeRow
        <5>2. QED
          BY <4>2, <5>1 DEF Over
      <4>5. w1[x].floor \in Floor
        BY <3>2, <4>3, <4>4 DEF GmFloor, Floor
      <4>6. w1[x].src \in {e, world[x].src} /\ w1[x].dst \in {e, world[x].dst}
        BY <4>1, <4>4
      <4>7. EntityAud(w1, w1[x].src) \in Audience /\ EntityAud(w1, w1[x].dst) \in Audience
        BY <1>4, <1>9, <3>3, <4>6 DEF Live
      <4>8. /\ Covers(StoredAudience(world[x].vis, Nil, Nil), viewer) /\ Covers(FloorAudience(w1[x].floor), viewer)
            /\ Covers(EntityAud(w1, w1[x].src), viewer) /\ Covers(EntityAud(w1, w1[x].dst), viewer)
        BY <1>12, <3>2, <3>4, <4>4, <4>5, <4>7, EdgeCovers
      <4>9. Covers(EntityAud(world, a), viewer) /\ Covers(FloorAudience(world[x].floor), viewer)
        BY <1>11, <3>2, <4>1, <4>3, <4>4, <4>5, <4>8
      <4>10. Covers(EntityAud(world, world[x].src), viewer)
        <5>1. CASE "src" \in DOMAIN w[x].cols
          BY <4>1, <4>9, <5>1
        <5>2. CASE "src" \notin DOMAIN w[x].cols
          BY <3>3, <4>4, <4>8, <5>2
        <5>3. QED
          BY <5>1, <5>2
      <4>11. Covers(EntityAud(world, world[x].dst), viewer)
        <5>1. CASE "dst" \in DOMAIN w[x].cols
          BY <4>1, <4>9, <5>1
        <5>2. CASE "dst" \notin DOMAIN w[x].cols
          BY <3>3, <4>4, <4>8, <5>2
        <5>3. QED
          BY <5>1, <5>2
      <4>12. QED
        BY <3>1, <3>2, <3>3, <3>4, <4>8, <4>9, <4>10, <4>11, EdgeCovers
    <3>7. QED
      BY <3>5, <3>6
  <2>3. CASE x \in Mentions
    <3>1. Exists(x)
      BY <1>4, <1>6, <1>12, <2>3 DEF Exists
    <3>2. /\ world[x] \in MentionRow /\ Exists(world[x].entity) /\ world[x].entity \in Entities /\ world[x].floor \in Floor
      <4>1. world[x] \in MentionRow /\ Exists(Subject(x)) /\ Subject(x) = world[x].entity
        BY <1>t, <2>3, <3>1, RowIs, CanonAssumption
      <4>2. QED
        BY <4>1 DEF MentionRow
    <3>3. /\ EntityAud(world, world[x].entity) \in Audience /\ EntityAud(w1, world[x].entity) \in Audience
          /\ Covers(EntityAud(w1, world[x].entity), viewer) => Covers(EntityAud(world, world[x].entity), viewer)
      BY <1>9, <3>2
    <3>4. /\ RowAud(world, x) = DerivedAudience(EntityAud(world, world[x].entity), world[x].floor)
          /\ RowAud(w1, x) = DerivedAudience(EntityAud(w1, w1[x].entity), w1[x].floor)
      BY <2>3, RowAudIs
    <3>5. CASE x \notin DOMAIN w
      <4>1. w1[x] = world[x]
        BY <1>6, <2>w, <3>5
      <4>2. QED
        BY <1>12, <3>1, <3>2, <3>3, <3>4, <4>1, DerivedCovers
    <3>6. CASE x \in DOMAIN w
      <4>1. /\ w[x].how = "update" /\ world[x].entity = a /\ w[x].cols.entity = e
            /\ w[x].cols \notin [confirmed : BOOLEAN] /\ WriteOK(x, w[x])
            /\ FloorSet(world[a].vis, world[x].floor, w[x].cols)
        BY <1>4, <1>6, <2>3, <3>6
      <4>2. w1[x] = Over(w[x].cols, world[x])
        BY <1>6, <2>w, <3>6, <4>1
      <4>3. w[x].cols \in MentionSets
        BY <2>3, <4>1, Kinds DEF WriteOK
      <4>4. "entity" \in DOMAIN w[x].cols /\ ("floor" \in DOMAIN w[x].cols => w[x].cols.floor \in GmFloor)
        BY <4>1, <4>3 DEF MentionSets
      <4>5. /\ w1[x].entity = e
            /\ w1[x].floor = IF "floor" \in DOMAIN w[x].cols THEN w[x].cols.floor ELSE world[x].floor
        BY <3>2, <4>1, <4>2, <4>4 DEF Over, MentionRow
      <4>6. w1[x].floor \in Floor
        BY <3>2, <4>4, <4>5 DEF GmFloor, Floor
      <4>7. Covers(FloorAudience(w1[x].floor), viewer)
        BY <1>4, <1>9, <1>12, <3>4, <4>5, <4>6, DerivedCovers DEF Live
      <4>8. Covers(EntityAud(world, a), viewer) /\ Covers(FloorAudience(world[x].floor), viewer)
        BY <1>11, <3>2, <4>1, <4>4, <4>5, <4>6, <4>7
      <4>9. QED
        BY <3>1, <3>2, <3>3, <3>4, <4>1, <4>8, DerivedCovers
    <3>7. QED
      BY <3>5, <3>6
  <2>4. CASE x \in Entities \X Key
    <3>1. PICK q \in Entities, k \in Key : x = <<q, k>>
      BY <2>4
    <3>2. x[1] = q /\ x[2] = k
      BY <3>1
    <3>3. RowAud(world, x) = DerivedAudience(EntityAud(world, q), world[x].floor)
          /\ RowAud(w1, x) = DerivedAudience(EntityAud(w1, q), w1[x].floor)
      BY <2>4, <3>2, RowAudIs
    <3>4. CASE x \notin DOMAIN w
      <4>1. w1[x] = world[x] /\ Exists(x)
        BY <1>6, <1>12, <2>w, <3>4 DEF Exists
      <4>2. world[x].floor \in Floor /\ Exists(q)
        <5>1. world[x] \in AliasRow /\ Exists(q)
          BY <1>t, <2>4, <3>1, <4>1, RowIs
        <5>2. QED
          BY <5>1 DEF AliasRow
      <4>3. QED
        BY <1>9, <1>12, <3>3, <4>1, <4>2, DerivedCovers
    <3>5. CASE x \in DOMAIN w
      <4>1. /\ w[x].how = "insert" /\ q = e
            /\ \/ Exists(<<a, k>>) /\ w[x].cols.floor = Floored(world[a].vis, world[<<a, k>>].floor)
               \/ world[a].name = k /\ w[x].cols.floor = Floored(world[a].vis, Nil)
        BY <1>4, <1>6, <1>12, <3>1, <3>5
      <4>2. w1[x] = w[x].cols /\ w1[x] \in AliasRow
        BY <1>6, <2>4, <2>w, <3>5, <4>1, Kinds
      <4>3. Covers(FloorAudience(w1[x].floor), viewer)
        <5>1. w1[x].floor \in Floor
          BY <4>2 DEF AliasRow
        <5>2. QED
          BY <1>4, <1>9, <1>12, <3>3, <4>1, <5>1, DerivedCovers DEF Live
      <4>4. CASE Exists(<<a, k>>) /\ w[x].cols.floor = Floored(world[a].vis, world[<<a, k>>].floor)
        <5>1. <<a, k>> \in Id /\ <<a, k>> \in Entities \X Key
          BY DEF Id
        <5>2. world[<<a, k>>].floor \in Floor
          <6>1. world[<<a, k>>] \in AliasRow
            BY <1>t, <4>4, <5>1, RowIs
          <6>2. QED
            BY <6>1 DEF AliasRow
        <5>3. Covers(EntityAud(world, a), viewer) /\ Covers(FloorAudience(world[<<a, k>>].floor), viewer)
          BY <1>8, <1>10, <4>2, <4>3, <4>4, <5>2, FloorCoversAbsorbed DEF Vis, Floor
        <5>4. RowAud(world, <<a, k>>) = DerivedAudience(EntityAud(world, a), world[<<a, k>>].floor)
          BY <5>1, RowAudIs
        <5>5. before(<<a, k>>, viewer)
          BY <1>8, <4>4, <5>2, <5>3, <5>4, DerivedCovers
        <5>6. QED
          BY <2>4, <3>2, <4>1, <5>5
      <4>5. CASE world[a].name = k /\ w[x].cols.floor = Floored(world[a].vis, Nil)
        <5>1. Covers(EntityAud(world, a), viewer)
          BY <1>8, <1>10, <4>2, <4>3, <4>5, FloorCoversAbsorbed DEF Vis
        <5>2. before(a, viewer)
          BY <1>a, <1>v, <5>1, RowAudIs
        <5>3. QED
          BY <2>4, <3>2, <4>1, <4>5, <5>2
      <4>6. QED
        BY <4>1, <4>4, <4>5
    <3>6. QED
      BY <3>4, <3>5
  <2>5. QED
    BY <1>12, <2>1, <2>2, <2>3, <2>4 DEF Id
<1>13. QED
  BY <1>3, <1>12

\* A merge shows nobody an edge, a Mention or an alias they could not read
\* before it, whatever other sessions' changes and merges come between its
\* reads and its commit.
THEOREM MergeNeverWidensHolds == Spec => MergeNeverWidens
<1>1. Init => MergesHeld
  BY DEF Init, MergesHeld, Flushing
<1>2. HomesInv /\ MergesHeld /\ [Next]_vars => MergesHeld'
  BY MergesStep
<1>3. HomesInv /\ MergesHeld /\ [Next]_vars =>
        [\A s \in Session : MergeOf(s) =>
            LET a == plan[s].row.on
                e == plan[s].row.entity
                before(x, viewer) == Exists(x) /\ Covers(RowAud(world, x), viewer)
            IN  \A viewer \in Audience, x \in Id :
                    x \notin Steps /\ world'[x] # Nil /\ Covers(RowAud(world', x), viewer) =>
                        \/ before(x, viewer)
                        \/ /\ x \in Entities \X Key /\ x[1] = e
                           /\ before(<<a, x[2]>>, viewer) \/ (world[a].name = x[2] /\ before(a, viewer))]_vars
  BY MergeIs
<1>4. QED
  BY <1>1, <1>2, <1>3, HomesHold, PTL DEF Spec, MergeNeverWidens

-----------------------------------------------------------------------------
(* The history tells the fields                                            *)

\* A session's plan of an Entity's row outlasts what leaves the row alone.
LEMMA FieldsStay ==
    ASSUME NEW t \in Session, FieldsBy(t, plan[t]), plan'[t] = plan[t],
           \A x \in Id \cup Proposal : locks[x] = t => locks'[x] = t,
           \A x \in Entities : locks[x] = t => world'[x] = world[x]
    PROVE  FieldsBy(t, plan[t])'
<1> DEFINE w == plan[t].writes
           c == plan[t].row
<1>1. plan'[t].writes = w /\ plan'[t].row = c
  OBVIOUS
<1>2. \A x \in Entities \cap DOMAIN w :
         \/ w[x].how = "insert" /\ c.op = "create" /\ c.on = x /\ c.new = Only(w[x].cols, Tracked)
         \/ /\ w[x].how = "update" /\ IsFieldRow(c) /\ c.on = x /\ w[x].cols = c.new
            /\ locks[x] = t /\ Exists(x) /\ c.old = Only(world[x], DOMAIN c.new)
         \/ /\ w[x].how = "update" /\ c.op # "create" /\ ~IsFieldRow(c) /\ DOMAIN w[x].cols \cap Tracked = {}
            /\ locks[x] = t /\ Exists(x)
  BY DEF FieldsBy
<1> HIDE DEF w, c
<1>3. \A x \in Entities : locks[x] = t => locks'[x] = t /\ world'[x] = world[x]
  BY DEF Id
<1>4. \A x \in Entities \cap DOMAIN w :
         \/ w[x].how = "insert" /\ c.op = "create" /\ c.on = x /\ c.new = Only(w[x].cols, Tracked)
         \/ /\ w[x].how = "update" /\ IsFieldRow(c) /\ c.on = x /\ w[x].cols = c.new
            /\ locks'[x] = t /\ world'[x] # Nil /\ c.old = Only(world'[x], DOMAIN c.new)
         \/ /\ w[x].how = "update" /\ c.op # "create" /\ ~IsFieldRow(c) /\ DOMAIN w[x].cols \cap Tracked = {}
            /\ locks'[x] = t /\ world'[x] # Nil
  BY <1>2, <1>3 DEF Exists
<1>5. QED
  BY <1>1, <1>4 DEF FieldsBy, Exists, IsFieldRow, Only

\* What a change of a field is about to write is kept by every step of another session.
LEMMA FieldsStep ==
    ASSUME TypeOK, HomesKept, FieldsHeld, [Next]_vars
    PROVE  FieldsHeld'
<1>t. WorldOK /\ PlansOK /\ ShapesOK
  BY DEF TypeOK
<1>1. CASE Quiet
  <2>1. /\ UNCHANGED <<world, changes>>
        /\ \A t \in Session : pc'[t] = "flush" => pc[t] = "flush" /\ plan'[t] = plan[t]
        /\ \A t \in Session, x \in Id \cup Proposal : pc'[t] = "flush" /\ locks[x] = t => locks'[x] = t
    BY <1>1 DEF Quiet
  <2> SUFFICES ASSUME NEW t \in Session, pc'[t] = "flush" PROVE FieldsBy(t, plan[t])'
    BY DEF FieldsHeld, Flushing
  <2>2. FieldsBy(t, plan[t])
    BY <2>1 DEF FieldsHeld, Flushing
  <2>3. QED
    BY <2>1, <2>2, FieldsStay
<1>2. ASSUME NEW s \in Session, Plans(s) PROVE FieldsHeld'
  <2>1. /\ UNCHANGED <<world, changes, locks>>
        /\ \A t \in Session : pc'[t] = "flush" => t = s \/ (pc[t] = "flush" /\ plan'[t] = plan[t])
    BY <1>2 DEF Plans
  <2>2. FieldsBy(s, plan'[s])
    BY <1>2, PlanIs DEF Founded
  <2> SUFFICES ASSUME NEW t \in Session, pc'[t] = "flush" PROVE FieldsBy(t, plan[t])'
    BY DEF FieldsHeld, Flushing
  <2>3. CASE t = s
    BY <2>1, <2>2, <2>3 DEF FieldsBy, Exists, IsFieldRow, Only
  <2>4. CASE t # s
    <3>1. FieldsBy(t, plan[t])
      BY <2>1, <2>4 DEF FieldsHeld, Flushing
    <3>2. QED
      BY <2>1, <2>4, <3>1, FieldsStay
  <2>5. QED
    BY <2>3, <2>4
<1>3. ASSUME NEW s \in Session, Commits(s) PROVE FieldsHeld'
  <2>1. /\ \A t \in Session : pc'[t] = "flush" => t # s /\ pc[t] = "flush" /\ plan'[t] = plan[t]
        /\ \A t \in Session, x \in Id \cup Proposal : pc'[t] = "flush" /\ locks[x] = t => locks'[x] = t
        /\ \A x \in DOMAIN plan[s].writes : locks[x] = s
    BY <1>3 DEF Commits
  <2> SUFFICES ASSUME NEW t \in Session, pc'[t] = "flush" PROVE FieldsBy(t, plan[t])'
    BY DEF FieldsHeld, Flushing
  <2>2. FieldsBy(t, plan[t]) /\ t # s /\ plan'[t] = plan[t]
    BY <2>1 DEF FieldsHeld, Flushing
  <2>3. \A x \in Entities : locks[x] = t => world'[x] = world[x]
    BY <1>3, <1>t, <2>1, <2>2, CommitWrites DEF Id
  <2>4. QED
    BY <2>1, <2>2, <2>3, FieldsStay
<1>4. QED
  BY <1>1, <1>2, <1>3, <1>t, StepIs

\* Each commit tells what it wrote and what was there.
LEMMA ReplayStep ==
    ASSUME TypeOK, HomesKept, TypeOK', FieldsHeld, HistoryReplays, [Next]_vars
    PROVE  HistoryReplays'
<1>t. WorldOK /\ HistoryOK /\ PlansOK /\ ShapesOK
  BY DEF TypeOK
<1>1. CASE UNCHANGED <<world, changes>>
  BY <1>1 DEF HistoryReplays, Told, Says, IsFieldRow, Exists
<1>2. ASSUME NEW s \in Session, Commits(s) PROVE HistoryReplays'
  <2> DEFINE w == plan[s].writes
  <2>c. PICK c : c = plan[s].row
    OBVIOUS
  <2>n. PICK N : N = Len(changes)
    OBVIOUS
  <2>g. /\ N \in Nat /\ DOMAIN changes = 1..N /\ DOMAIN changes' = 1..(N + 1) /\ changes'[N + 1] = c /\ Len(changes') = N + 1
        /\ \A i \in 1..N : changes'[i] = changes[i]
    <3>1. changes' = Append(changes, c) /\ changes \in Seq({changes[i] : i \in DOMAIN changes})
      BY <1>2, <1>t, <2>c DEF ShapesOK, Commits
    <3>2. changes' \in Seq({changes'[i] : i \in DOMAIN changes'})
      BY <3>1, HistoryGrows
    <3>3. DOMAIN changes' = 1..(N + 1) /\ N \in Nat
      BY <2>n, <3>1, HistoryGrows
    <3>4. Len(changes') = N + 1
      BY <3>2, <3>3
    <3>5. QED
      BY <2>n, <3>1, <3>3, <3>4, HistoryGrows
  <2>p. PlanOK(plan[s]) /\ HistoryRow(c)
    BY <1>2, <1>t, <2>c DEF Commits, PlansOK, PlanOK
  <2>f. FieldsBy(s, plan[s])
    BY <1>2 DEF FieldsHeld, Flushing, Commits
  <2>w. /\ \A x \in Id : x \notin DOMAIN w => world'[x] = world[x]
        /\ \A x \in DOMAIN w :
              /\ w[x].how = "insert" => world'[x] = w[x].cols
              /\ w[x].how = "update" => Exists(x) /\ world'[x] = Over(w[x].cols, world[x])
    BY <1>2, <1>t, CommitWrites
  <2>r. c.op # "note" => c.on \in DOMAIN w
    BY <2>c, <2>p, PlanRow
  <2> HIDE DEF w
  <2> SUFFICES ASSUME NEW e \in Entities, NEW f \in Tracked, world'[e] # Nil
               PROVE  /\ Told(Len(changes) + 1, e, f, world[e][f])'
                      /\ \A i \in DOMAIN changes' : Says(i, e, f)' /\ IsFieldRow(changes[i])' => Told(i, e, f, changes[i].old[f])'
    BY DEF HistoryReplays, Exists
  <2> DEFINE SaysC == /\ c.entity = e /\ c.on = e
                      /\ c.op = "create" \/ IsFieldRow(c)
                      /\ f \in DOMAIN c.new
             ToldThen(i, v) ==
                \/ Start[e] # Nil /\ v = Start[e][f] /\ \A j \in DOMAIN changes' : j < i => ~Says(j, e, f)'
                \/ \E j \in DOMAIN changes' : /\ j < i /\ Says(j, e, f)' /\ v = changes'[j].new[f]
                                              /\ \A k \in DOMAIN changes' : j < k /\ k < i => ~Says(k, e, f)'
  <2>1. \A i \in 1..N : Says(i, e, f)' <=> Says(i, e, f)
    BY <2>g DEF Says, IsFieldRow
  <2>2. Says(N + 1, e, f)' <=> SaysC
    BY <2>g DEF Says, IsFieldRow
  <2> HIDE DEF SaysC
  <2>3. ASSUME NEW i \in 1..(N + 1), NEW v, Told(i, e, f, v) PROVE ToldThen(i, v)
    <3>1. \A j \in 1..(N + 1) : j < i => j \in 1..N
      BY <2>g
    <3>2. CASE Start[e] # Nil /\ v = Start[e][f] /\ \A j \in DOMAIN changes : j < i => ~Says(j, e, f)
      BY <2>1, <2>g, <3>1, <3>2
    <3>3. ASSUME NEW j \in DOMAIN changes, j < i, Says(j, e, f), v = changes[j].new[f],
                 \A k \in DOMAIN changes : j < k /\ k < i => ~Says(k, e, f)
          PROVE  ToldThen(i, v)
      <4>1. j \in DOMAIN changes' /\ Says(j, e, f)' /\ v = changes'[j].new[f]
        BY <2>1, <2>g, <3>3
      <4>2. \A k \in DOMAIN changes' : j < k /\ k < i => ~Says(k, e, f)'
        BY <2>1, <2>g, <3>1, <3>3
      <4>3. QED
        BY <3>3, <4>1, <4>2
    <3>4. QED
      BY <2>3, <3>2, <3>3 DEF Told
  <2>4. ASSUME NEW v, Told(N + 1, e, f, v), ~SaysC PROVE ToldThen(N + 2, v)
    <3>1. \A j \in 1..(N + 1) : j \in 1..N \/ j = N + 1
      BY <2>g
    <3>2. CASE Start[e] # Nil /\ v = Start[e][f] /\ \A j \in DOMAIN changes : j < N + 1 => ~Says(j, e, f)
      BY <2>1, <2>2, <2>4, <2>g, <3>1, <3>2
    <3>3. ASSUME NEW j \in DOMAIN changes, Says(j, e, f), v = changes[j].new[f],
                 \A k \in DOMAIN changes : j < k /\ k < N + 1 => ~Says(k, e, f)
          PROVE  ToldThen(N + 2, v)
      <4>1. j \in DOMAIN changes' /\ Says(j, e, f)' /\ v = changes'[j].new[f] /\ j < N + 2
        BY <2>1, <2>g, <3>3
      <4>2. \A k \in DOMAIN changes' : j < k /\ k < N + 2 => ~Says(k, e, f)'
        BY <2>1, <2>2, <2>4, <2>g, <3>1, <3>3
      <4>3. QED
        BY <4>1, <4>2
    <3>4. QED
      BY <2>4, <3>2, <3>3 DEF Told
  <2>5. ASSUME SaysC, NEW v, v = c.new[f] PROVE ToldThen(N + 2, v)
    <3>1. N + 1 \in DOMAIN changes' /\ N + 1 < N + 2 /\ Says(N + 1, e, f)' /\ v = changes'[N + 1].new[f]
      BY <2>2, <2>5, <2>g
    <3>2. \A k \in DOMAIN changes' : ~(N + 1 < k /\ k < N + 2)
      BY <2>g
    <3>3. QED
      BY <3>1, <3>2
  <2> HIDE DEF ToldThen
  <2>e. e \in Id
    BY DEF Id
  <2>o. /\ Exists(e) => Told(N + 1, e, f, world[e][f]) /\ world[e] \in EntityRow
        /\ \A i \in 1..N : Says(i, e, f) => Exists(e)
        /\ \A i \in 1..N : Says(i, e, f) /\ IsFieldRow(changes[i]) => Told(i, e, f, changes[i].old[f])
    <3>1. Exists(e) => world[e] \in EntityRow
      BY <1>t, <2>e, RowIs
    <3>2. \A i \in 1..N : Says(i, e, f) => Exists(e)
      BY <1>t, <2>g DEF Says, HistoryOK
    <3>3. QED
      BY <2>g, <2>n, <3>1, <3>2 DEF HistoryReplays
  <2>s. SaysC => e \in DOMAIN w
    BY <2>r DEF SaysC, IsFieldRow
  <2>h. e \in DOMAIN w =>
         \/ w[e].how = "insert" /\ c.op = "create" /\ c.on = e /\ c.new = Only(w[e].cols, Tracked)
         \/ /\ w[e].how = "update" /\ IsFieldRow(c) /\ c.on = e /\ w[e].cols = c.new
            /\ Exists(e) /\ c.old = Only(world[e], DOMAIN c.new)
         \/ /\ w[e].how = "update" /\ c.op # "create" /\ ~IsFieldRow(c) /\ DOMAIN w[e].cols \cap Tracked = {}
            /\ Exists(e)
    BY <2>c, <2>f DEF FieldsBy, w
  <2>6. ToldThen(N + 2, world'[e][f])
    <3>1. CASE e \notin DOMAIN w
      BY <2>4, <2>e, <2>o, <2>s, <2>w, <3>1 DEF Exists
    <3>2. CASE e \in DOMAIN w /\ w[e].how = "insert"
      <4>1. c.op = "create" /\ c.on = e /\ c.new = Only(w[e].cols, Tracked)
        BY <2>h, <3>2
      <4>2. c.entity = e
        BY <2>p, <4>1 DEF HistoryRow
      <4>3. f \in DOMAIN c.new /\ c.new[f] = w[e].cols[f]
        BY <4>1 DEF Only
      <4>4. QED
        BY <2>5, <2>w, <3>2, <4>1, <4>2, <4>3 DEF SaysC
    <3>3. CASE e \in DOMAIN w /\ w[e].how = "update"
      <4>1. Exists(e) /\ world'[e] = Over(w[e].cols, world[e]) /\ world[e] \in EntityRow /\ Told(N + 1, e, f, world[e][f])
        BY <2>o, <2>w, <3>3
      <4>2. f \in DOMAIN world[e]
        BY <4>1 DEF EntityRow, Tracked
      <4>3. world'[e][f] = IF f \in DOMAIN w[e].cols THEN w[e].cols[f] ELSE world[e][f]
        BY <4>1, <4>2 DEF Over
      <4>4. CASE IsFieldRow(c) /\ c.on = e /\ w[e].cols = c.new
        <5>1. c.entity = e
          BY <2>p, <4>4 DEF HistoryRow, IsFieldRow
        <5>2. SaysC <=> f \in DOMAIN c.new
          BY <4>4, <5>1 DEF SaysC
        <5>3. QED
          BY <2>4, <2>5, <4>1, <4>3, <4>4, <5>2
      <4>5. CASE c.op # "create" /\ ~IsFieldRow(c) /\ DOMAIN w[e].cols \cap Tracked = {}
        <5>1. ~SaysC
          BY <4>5 DEF SaysC
        <5>2. QED
          BY <2>4, <4>1, <4>3, <4>5, <5>1
      <4>6. QED
        BY <2>h, <3>3, <4>4, <4>5
    <3>4. QED
      BY <2>h, <3>1, <3>2, <3>3
  <2>7. ASSUME NEW i \in DOMAIN changes', Says(i, e, f)', IsFieldRow(changes'[i]) PROVE ToldThen(i, changes'[i].old[f])
    <3>1. CASE i = N + 1
      <4>1. SaysC /\ IsFieldRow(c) /\ changes'[i].old = c.old
        BY <2>2, <2>7, <2>g, <3>1
      <4>2. Exists(e) /\ c.old = Only(world[e], DOMAIN c.new)
        BY <2>h, <2>s, <4>1 DEF IsFieldRow
      <4>3. c.old[f] = world[e][f]
        BY <4>1, <4>2 DEF SaysC, Only
      <4>4. QED
        BY <2>3, <2>g, <2>o, <3>1, <4>1, <4>2, <4>3
    <3>2. CASE i # N + 1
      <4>1. i \in 1..N /\ changes'[i] = changes[i] /\ Says(i, e, f)
        BY <2>1, <2>7, <2>g, <3>2
      <4>2. QED
        BY <2>3, <2>7, <2>g, <2>o, <4>1
    <3>3. QED
      BY <3>1, <3>2
  <2>8. Told(Len(changes) + 1, e, f, world[e][f])'
    <3>1. Len(changes') + 1 = N + 2
      BY <2>g
    <3>2. QED
      BY <2>6, <3>1 DEF Told, ToldThen
  <2>9. ASSUME NEW i \in DOMAIN changes', Says(i, e, f)', IsFieldRow(changes[i])' PROVE Told(i, e, f, changes[i].old[f])'
    <3>1. IsFieldRow(changes'[i])
      BY <2>9 DEF IsFieldRow
    <3>2. QED
      BY <2>7, <2>9, <3>1 DEF Told, ToldThen
  <2>10. QED
    BY <2>8, <2>9
<1>3. QED
  BY <1>1, <1>2, <1>t, StepIs DEF Quiet, Plans

\* The history tells each Quest's fields: every row's old value is what the row
\* before it of the same field made, and the last is what the table holds,
\* however changes, merges and reverts of concurrent sessions interleave.
THEOREM HistoryReplaysHolds == Spec => []HistoryReplays
<1>1. Init => FieldsHeld /\ HistoryReplays
  <2> SUFFICES ASSUME Init PROVE FieldsHeld /\ HistoryReplays
    OBVIOUS
  <2>1. DOMAIN changes = {} /\ world = Start /\ \A t \in Session : pc[t] = "idle"
    BY DEF Init
  <2>2. FieldsHeld
    BY <2>1 DEF FieldsHeld, Flushing
  <2>3. HistoryReplays
    BY <2>1 DEF HistoryReplays, Told, Exists
  <2>4. QED
    BY <2>2, <2>3
<1>2. HomesInv /\ HomesInv' /\ FieldsHeld /\ HistoryReplays /\ [Next]_vars => FieldsHeld' /\ HistoryReplays'
  <2>1. HomesInv => TypeOK /\ HomesKept
    BY DEF HomesInv
  <2>2. HomesInv' => TypeOK'
    BY DEF HomesInv
  <2>3. TypeOK /\ HomesKept /\ FieldsHeld /\ [Next]_vars => FieldsHeld'
    BY FieldsStep
  <2>4. TypeOK /\ HomesKept /\ TypeOK' /\ FieldsHeld /\ HistoryReplays /\ [Next]_vars => HistoryReplays'
    BY ReplayStep
  <2>5. QED
    BY <2>1, <2>2, <2>3, <2>4
<1>3. QED
  BY <1>1, <1>2, HomesHold, PTL DEF Spec

-----------------------------------------------------------------------------
(* The history tells the tables: Canon implements CanonHistory             *)

\* A change of one row sets no column that says where the row hangs; ...
LEMMA PlainCols ==
    ASSUME WorldOK, NEW s \in Session, NEW p, Founded(s, p), NEW x \in Id, DOMAIN p.writes = {x},
           NEW cols, p.writes[x] = Update(cols), p.row.on = x, p.row.new = cols, p.row.op \in Plain
    PROVE  DOMAIN cols \cap Serial!Homes = {}
<1>1. p.writes[x].how = "update" /\ p.writes[x].cols = cols
  BY DEF Update
<1>2. cols \in SetsOf(x) /\ HistoryRow(p.row) /\ HomesBy(s, p) /\ MergesBy(s, p)
  BY <1>1 DEF Founded, PlanOK, WriteOK
<1>d. Entities \cap (Edges \cup Steps \cup Mentions) = {}
  BY CanonAssumption
<1>3. CASE x \in Entities
  <2>1. cols \in FieldCols \cup [deleted : Time] \cup [vis : Visibility]
    BY <1>2, <1>3, <1>d DEF HistoryRow, Both, Plain
  <2>2. QED
    BY <2>1 DEF FieldCols, Serial!Homes
<1>4. CASE x \in Edges
  <2>1. cols \in EdgeSets
    BY <1>1, <1>2, <1>4 DEF MergesBy, Plain
  <2>2. QED
    BY <2>1 DEF EdgeSets, Serial!Homes
<1>5. CASE x \in Steps \cup Mentions
  <2>1. DOMAIN cols \cap {"quest", "entity"} # {} => Subject(x) = x
    BY <1>1, <1>2, <1>5 DEF HomesBy
  <2>2. Exists(x) /\ Subject(x) \in Entities
    BY <1>1, <1>2, <1>5, <1>d, RowIs, CanonAssumption DEF HomesBy
  <2>3. DOMAIN cols \cap {"quest", "entity"} = {}
    BY <1>5, <1>d, <2>1, <2>2
  <2>4. x \in Steps => cols \in [done : BOOLEAN]
    BY <1>2, <2>3, Kinds DEF StepSets
  <2>5. x \in Mentions => cols \in [confirmed : BOOLEAN]
    BY <1>2, <2>3, Kinds DEF MentionSets
  <2>6. QED
    BY <1>5, <2>4, <2>5 DEF Serial!Homes
<1>6. CASE x \in Entities \X Key
  BY <1>2, <1>6, Kinds
<1>7. QED
  BY <1>3, <1>4, <1>5, <1>6 DEF Id

\* ... and tells what it does, ...
LEMMA ChangeTells ==
    ASSUME WorldOK, NEW s \in Session, NEW r, r.op \in Plain, NEW x \in Id, locks[x] = s, NEW cols,
           Founded(s, Change(r, x, cols))
    PROVE  LET p == Change(r, x, cols) IN TellsBy(s, p) /\ ReachesBy(s, p) /\ KeepsHome(p.row)
<1> DEFINE p == Change(r, x, cols)
<1>1. /\ DOMAIN p.writes = {x} /\ p.writes[x] = Update(cols)
      /\ p.row.on = x /\ p.row.new = cols /\ p.row.op = r.op /\ p.row.old = Only(world[x], DOMAIN cols)
  BY DEF Change, Row
<1> HIDE DEF p
<1>2. DOMAIN cols \cap Serial!Homes = {}
  BY <1>1, PlainCols DEF p
<1>3. r.op \notin {"note", "merge", "remove_mention"}
  BY DEF Plain
<1>4. TellsBy(s, p)
  BY <1>1, <1>2, <1>3 DEF TellsBy
<1>5. ReachesBy(s, p)
  <2> SUFFICES ASSUME x \in Edges \cup Steps \cup Mentions PROVE Refs(x, cols) = {}
    BY <1>1 DEF ReachesBy, Update
  <2>1. \A e \in Entities : x \notin {e} \X Key
    BY CanonAssumption
  <2>2. QED
    BY <1>2, <2>1 DEF Refs, Serial!Homes
<1>6. KeepsHome(p.row)
  BY <1>1, <1>3 DEF KeepsHome
<1>7. QED
  BY <1>4, <1>5, <1>6 DEF p

\* ... a removal, of what was there, ...
LEMMA RemovalTells ==
    ASSUME NEW s \in Session, NEW r, NEW x \in Id, r.op \in {"remove_alias", "remove_mention", "revert"},
           r.op = "remove_mention" => About(r) = world[x].entity
    PROVE  LET p == Removal(r, x) IN TellsBy(s, p) /\ ReachesBy(s, p) /\ KeepsHome(p.row)
<1> DEFINE p == Removal(r, x)
<1>1. /\ DOMAIN p.writes = {x} /\ p.writes[x] = Delete
      /\ p.row.on = x /\ p.row.new = Nil /\ p.row.op = r.op /\ p.row.old = world[x] /\ p.row.entity = About(r)
  BY DEF Removal, Row
<1> HIDE DEF p
<1>2. TellsBy(s, p)
  BY <1>1 DEF TellsBy
<1>3. ReachesBy(s, p)
  BY <1>1 DEF ReachesBy, Delete
<1>4. KeepsHome(p.row)
  BY <1>1 DEF KeepsHome
<1>5. QED
  BY <1>2, <1>3, <1>4 DEF p

\* ... and an addition that hangs only on Entities the session holds; ...
LEMMA AdditionTells ==
    ASSUME NEW s \in Session, NEW r, NEW x \in Id, NEW row, NEW shown,
           r.op \in {"create", "add_alias", "revert"} \cup Additions,
           shown = Only(row, DOMAIN shown), x \in Edges \cup Steps \cup Mentions => \A e \in Refs(x, row) : locks[e] = s
    PROVE  LET p == Addition(r, x, row, shown) IN TellsBy(s, p) /\ ReachesBy(s, p) /\ KeepsHome(p.row)
<1> DEFINE p == Addition(r, x, row, shown)
<1>1. /\ DOMAIN p.writes = {x} /\ p.writes[x].how = "insert" /\ p.writes[x].cols = row
      /\ p.row.on = x /\ p.row.new = shown /\ p.row.op = r.op /\ p.row.old = Nil
  BY DEF Addition, Row, Insert
<1> HIDE DEF p
<1>2. r.op \notin {"note", "merge", "remove_mention"}
  BY DEF Additions
<1>3. TellsBy(s, p)
  BY <1>1, <1>2 DEF TellsBy
<1>4. ReachesBy(s, p)
  BY <1>1 DEF ReachesBy
<1>5. KeepsHome(p.row)
  BY <1>1, <1>2 DEF KeepsHome
<1>6. QED
  BY <1>3, <1>4, <1>5 DEF p

\* What a plan's history row tells, and what it keeps of where rows hung.
TellsAll(s, p) == TellsBy(s, p) /\ ReachesBy(s, p) /\ KeepsHome(p.row)

\* A merge that absorbs hangs rows on the survivor alone, which it holds.
LEMMA MergedTells ==
    ASSUME NEW s \in Session, NEW p, p.row.op = "merge", Founded(s, p), AbsorbsBy(p)
    PROVE  TellsAll(s, p)
<1> DEFINE a == p.row.on
           e == p.row.entity
           w == p.writes
<1>1. TellsBy(s, p) /\ KeepsHome(p.row)
  BY DEF TellsBy, KeepsHome
<1>2. MergesBy(s, p) /\ (\A x \in DOMAIN w : WriteOK(x, w[x])) /\ DOMAIN w \subseteq Id
  BY DEF Founded, PlanOK
<1>3. locks[e] = s
  BY <1>2 DEF MergesBy
<1>4. ASSUME NEW x \in (Edges \cup Steps \cup Mentions) \cap DOMAIN w, w[x].how # "delete"
      PROVE  Refs(x, w[x].cols) \subseteq {e}
  <2>0. \A f \in Entities : x \notin {f} \X Key
    BY CanonAssumption
  <2>1. CASE x \in Edges
    <3>1. w[x].cols \in EdgeMoves /\ \A c \in DOMAIN w[x].cols \ {"floor"} : w[x].cols[c] = e
      BY <1>2, <1>4, <2>1 DEF MergesBy
    <3>2. QED
      BY <2>0, <3>1 DEF Refs
  <2>2. CASE x \in Steps
    <3>1. w[x] = Update([quest |-> e])
      BY <2>2 DEF AbsorbsBy
    <3>2. w[x].cols = [quest |-> e]
      BY <3>1 DEF Update
    <3>3. QED
      BY <2>0, <3>2 DEF Refs
  <2>3. CASE x \in Mentions
    <3>1. w[x].how = "update" /\ w[x].cols.entity = e /\ w[x].cols \notin [confirmed : BOOLEAN]
      BY <1>2, <2>3 DEF MergesBy
    <3>2. w[x].cols \in MentionSets
      BY <1>2, <2>3, <3>1, Kinds DEF WriteOK
    <3>3. DOMAIN w[x].cols \in {{"entity"}, {"entity", "floor"}}
      BY <3>1, <3>2 DEF MentionSets
    <3>4. QED
      BY <2>0, <3>1, <3>3 DEF Refs
  <2>4. QED
    BY <2>1, <2>2, <2>3
<1>5. ReachesBy(s, p)
  BY <1>3, <1>4 DEF ReachesBy
<1>6. QED
  BY <1>1, <1>5 DEF TellsAll

\* Whatever a request does but a revert, ...
LEMMA EffectTells ==
    ASSUME TypeOK, NEW s \in Session, Ready(s), req[s].op # "revert"
    PROVE  TellsAll(s, Effect(req[s]))
<1> DEFINE r == req[s]
           p == Effect(r)
           x == r.id
<1>1. r \in Requests /\ Asked(r) /\ Found(r) /\ Fits(r) /\ IdsLeft(r) /\ WorldOK /\ r.op # "revert"
  BY CanonAssumption DEF Ready, Applies, TypeOK
<1>f. Founded(s, p)
  BY EffectIs
<1>o. r.op \in {"create", "set", "add_alias", "remove_alias", "add_relationship", "update_relationship", "end_relationship",
                "update_step", "confirm_mention", "remove_mention", "add_step", "add_mention", "delete", "note", "merge",
                "set_visibility"}
  BY <1>1 DEF Asked
<1>t. r.op # "create" =>
        /\ x \in Id /\ x \notin Entities \X Key /\ Exists(x) /\ locks[x] = s
        /\ Subject(x) \in Entities /\ Exists(Subject(x)) /\ locks[Subject(x)] = s
        /\ r.op # "merge" => About(r) = Subject(x)
        /\ x \in Entities => Subject(x) = x
  BY TargetIs DEF r, x
<1>h. r.op = "merge" => Held(s, r.arg.survivor)
  BY LookedUp DEF Ready
<1>l. r.op = "add_relationship" => Held(s, r.arg.target)
  BY LookedUp DEF Ready
<1> HIDE DEF r, x
<1>d. /\ Entities \cap (Edges \cup Steps \cup Mentions) = {}
      /\ (Entities \cup Edges \cup Steps \cup Mentions) \cap (Entities \X Key) = {}
  BY CanonAssumption
<1>2. CASE r.op \in {"set", "delete", "update_relationship", "end_relationship", "update_step", "confirm_mention",
                     "set_visibility"}
  <2>1. \E cols : p = Change(r, x, cols)
    BY <1>2 DEF Effect, x
  <2>2. PICK cols : p = Change(r, x, cols)
    BY <2>1
  <2> HIDE DEF p
  <2>3. QED
    BY <1>1, <1>2, <1>f, <1>t, <2>2, ChangeTells DEF Plain, TellsAll, p, r
<1>3. CASE r.op = "remove_mention"
  <2>1. x \in Mentions /\ p = Removal(r, x)
    BY <1>1, <1>3 DEF Asked, Effect, x
  <2>2. About(r) = world[x].entity
    BY <1>1, <1>3, <1>t, <2>1, RowIs
  <2>3. QED
    BY <1>3, <1>t, <2>1, <2>2, RemovalTells DEF TellsAll, p, r
<1>4. CASE r.op = "remove_alias"
  <2>1. <<r.id, r.arg.key>> \in Id /\ p = Removal(r, <<r.id, r.arg.key>>)
    BY <1>1, <1>4 DEF Asked, Effect, Id
  <2>2. QED
    BY <1>4, <2>1, RemovalTells DEF TellsAll, p, r
<1>5. CASE r.op = "create"
  <2> DEFINE e == IF r.id = Nil THEN Fresh(Entities) ELSE r.id
             row == [name |-> r.arg.name, status |-> "open", stamp |-> Nil, vis |-> "gm", owner |-> r.arg.actor,
                     deleted |-> Nil, merged |-> Nil]
             shown == Only(row, {"name", "status", "stamp"})
  <2>1. x \in Entities \cup {Nil}
    BY <1>1, <1>5 DEF Asked, x
  <2>2. x = Nil => Fresh(Entities) \in Entities
    BY <1>1, <1>5 DEF IdsLeft, Fresh, Unused, x
  <2>3. e \in Entities
    BY <2>1, <2>2 DEF x
  <2>4. p = [writes |-> [y \in {e} |-> Insert(row)], row |-> Row(r, e, e, Nil, shown)]
    BY <1>5 DEF Effect, Created
  <2>5. shown = Only(row, DOMAIN shown)
    BY DEF Only
  <2> HIDE DEF e, row, shown
  <2>6. /\ DOMAIN p.writes = {e} /\ p.writes[e].how = "insert" /\ p.writes[e].cols = row
        /\ p.row.on = e /\ p.row.op = "create" /\ p.row.old = Nil /\ p.row.new = shown
    BY <1>5, <2>4 DEF Row, Insert
  <2> HIDE DEF p
  <2>7. TellsBy(s, p)
    BY <2>5, <2>6 DEF TellsBy
  <2>8. ReachesBy(s, p) /\ KeepsHome(p.row)
    BY <1>d, <2>3, <2>6 DEF ReachesBy, KeepsHome
  <2>9. QED
    BY <2>7, <2>8 DEF TellsAll, p, r
<1>6. CASE r.op = "add_alias"
  <2> DEFINE y == <<r.id, r.arg.key>>
             row == [floor |-> Nil]
  <2>1. y \in Id /\ y \in Entities \X Key /\ p = Addition(r, y, row, row)
    BY <1>1, <1>6 DEF Asked, Effect, Id
  <2>2. row = Only(row, DOMAIN row)
    BY DEF Only
  <2> HIDE DEF y, row
  <2>3. y \notin Edges \cup Steps \cup Mentions
    BY <1>d, <2>1
  <2>4. QED
    BY <1>6, <2>1, <2>2, <2>3, AdditionTells DEF TellsAll, p, r
<1>7. CASE r.op = "add_relationship"
  <2> DEFINE y == Fresh(Edges)
             row == [src |-> r.id, dst |-> r.arg.target, note |-> Nil, ended |-> Nil, vis |-> "gm", floor |-> Nil]
             shown == [dst |-> r.arg.target, note |-> Nil]
  <2>1. locks[r.arg.target] = s
    BY <1>1, <1>7, <1>l DEF Found, Live, Held
  <2>2. y \in Edges /\ y \in Id
    BY <1>1, <1>7 DEF IdsLeft, Fresh, Unused, Id
  <2>3. p = Addition(r, y, row, shown)
    BY <1>7 DEF Effect
  <2>4. shown = Only(row, DOMAIN shown)
    BY DEF Only
  <2>5. Refs(y, row) \subseteq {r.id, r.arg.target}
    BY <1>d, <2>2 DEF Refs
  <2> HIDE DEF y, row, shown
  <2>6. \A e \in Refs(y, row) : locks[e] = s
    BY <1>7, <1>t, <2>1, <2>5 DEF x
  <2>7. QED
    BY <1>7, <2>2, <2>3, <2>4, <2>6, AdditionTells DEF Additions, TellsAll, p, r
<1>8. CASE r.op = "add_step"
  <2> DEFINE y == Fresh(Steps)
             row == [quest |-> r.id, done |-> FALSE]
             shown == [done |-> FALSE]
  <2>1. y \in Steps /\ y \in Id
    BY <1>1, <1>8 DEF IdsLeft, Fresh, Unused, Id
  <2>2. p = Addition(r, y, row, shown)
    BY <1>8 DEF Effect
  <2>3. shown = Only(row, DOMAIN shown)
    <3>1. row.done = FALSE
      OBVIOUS
    <3> HIDE DEF row
    <3>2. Only(row, DOMAIN shown) = [done |-> row.done]
      BY DEF Only
    <3>3. QED
      BY <3>1, <3>2, Zenon
  <2>4. Refs(y, row) \subseteq {r.id}
    BY <1>d, <2>1 DEF Refs
  <2> HIDE DEF y, row, shown
  <2>5. \A e \in Refs(y, row) : locks[e] = s
    BY <1>8, <1>t, <2>4 DEF x
  <2>6. QED
    BY <1>8, <2>1, <2>2, <2>3, <2>5, AdditionTells DEF Additions, TellsAll, p, r
<1>9. CASE r.op = "add_mention"
  <2> DEFINE y == Fresh(Mentions)
             row == [entity |-> r.id, confirmed |-> FALSE, floor |-> Nil]
             shown == [confirmed |-> FALSE]
  <2>1. y \in Mentions /\ y \in Id
    BY <1>1, <1>9 DEF IdsLeft, Fresh, Unused, Id
  <2>2. p = Addition(r, y, row, shown)
    BY <1>9 DEF Effect
  <2>3. shown = Only(row, DOMAIN shown)
    <3>1. row.confirmed = FALSE
      OBVIOUS
    <3> HIDE DEF row
    <3>2. Only(row, DOMAIN shown) = [confirmed |-> row.confirmed]
      BY DEF Only
    <3>3. QED
      BY <3>1, <3>2, Zenon
  <2>4. Refs(y, row) \subseteq {r.id}
    BY <1>d, <2>1 DEF Refs
  <2> HIDE DEF y, row, shown
  <2>5. \A e \in Refs(y, row) : locks[e] = s
    BY <1>9, <1>t, <2>4 DEF x
  <2>6. QED
    BY <1>9, <2>1, <2>2, <2>3, <2>5, AdditionTells DEF Additions, TellsAll, p, r
<1>10. CASE r.op = "merge"
  <2> DEFINE e == r.arg.survivor
  <2>1. x \in Entities /\ e \in Entities /\ x # e /\ Live(x) /\ Live(e)
    BY <1>1, <1>10 DEF Asked, Found, Fits, x
  <2>2. p = Merged(r)
    BY <1>10 DEF Effect
  <2> HIDE DEF e
  <2>3. MergeWrites(Merged(r), x, e) /\ AbsorbsBy(Merged(r))
    BY <1>1, <1>10, <2>1, MergedWrites DEF e, x
  <2>4. p.row.op = "merge" /\ AbsorbsBy(p)
    BY <2>2, <2>3 DEF MergeWrites
  <2> HIDE DEF p
  <2>5. QED
    BY <1>f, <2>4, MergedTells DEF p, r
<1>11. CASE r.op = "note"
  <2>1. p.row.op = "note" /\ DOMAIN p.writes = {}
    BY <1>11 DEF Effect, Row
  <2> HIDE DEF p
  <2>2. QED
    BY <2>1 DEF TellsAll, TellsBy, ReachesBy, KeepsHome, p, r
<1>12. QED
  BY <1>o, <1>2, <1>3, <1>4, <1>5, <1>6, <1>7, <1>8, <1>9, <1>10, <1>11

\* ... and a revert does, its history row tells.
LEMMA RevertedTells ==
    ASSUME TypeOK, HomesKept, HomesTold, NEW s \in Session, Ready(s), req[s].op = "revert"
    PROVE  TellsAll(s, Effect(req[s]))
<1> DEFINE r == req[s]
           c == changes[r.id]
           p == Effect(r)
<1>1. WorldOK /\ r.op = "revert"
  BY DEF TypeOK
<1>f. Founded(s, p)
  BY RevertedIs
<1>t. /\ r.id \in DOMAIN changes /\ HistoryRow(c) /\ c.entity \in Entities
      /\ Exists(c.entity) /\ locks[c.entity] = s
      /\ ~NotRevertible(c)
      /\ c.op \in Rereads => Exists(c.on) /\ Held(s, c.on)
  BY RevertTargetIs DEF r, c
<1>k. KeepsHome(c)
  BY <1>t DEF HomesTold
<1>3. p = Reverted(r)
  BY <1>1 DEF Effect
<1> HIDE DEF r, c
<1>d. /\ Entities \cap (Edges \cup Steps \cup Mentions) = {}
      /\ (Entities \cup Edges \cup Steps \cup Mentions) \cap (Entities \X Key) = {}
  BY CanonAssumption
<1>o. c.op \in {"create", "set", "delete", "add_alias", "remove_alias", "add_relationship", "update_relationship",
                "end_relationship", "add_step", "update_step", "add_mention", "confirm_mention", "remove_mention", "revert"}
  BY <1>t DEF HistoryRow, NotRevertible
<1>2. ASSUME NEW y \in Id, locks[y] = s, NEW cols, p = Change(r, y, cols) PROVE TellsAll(s, p)
  <2> HIDE DEF p
  <2>1. QED
    BY <1>1, <1>2, <1>f, ChangeTells DEF Plain, TellsAll, p, r
<1>4. CASE c.op \in {"create", "set", "delete", "revert"}
  <2>1. c.on = c.entity
    <3>1. c.op = "revert" => c.on \in Entities
      BY <1>t DEF NotRevertible, IsFieldRow
    <3>2. QED
      BY <1>4, <1>t, <3>1 DEF HistoryRow
  <2>2. \E cols : p = Change(r, c.on, cols)
    BY <1>3, <1>4 DEF Reverted, c
  <2>3. QED
    BY <1>2, <1>t, <2>1, <2>2 DEF Id, p, r
<1>5. CASE c.op \in {"update_relationship", "end_relationship", "update_step", "confirm_mention"}
  <2>1. c.on \in Id
    BY <1>5, <1>t DEF HistoryRow, Id
  <2>2. locks[c.on] = s
    BY <1>5, <1>t DEF Rereads, Held
  <2>3. \E cols : p = Change(r, c.on, cols)
    BY <1>3, <1>5 DEF Reverted, c
  <2>4. QED
    BY <1>2, <2>1, <2>2, <2>3 DEF p, r
<1>6. CASE c.op \in {"add_alias", "add_relationship", "add_step", "add_mention"}
  <2>1. c.on \in Id
    BY <1>6, <1>t DEF HistoryRow, Id
  <2>2. p = Removal(r, c.on)
    BY <1>3, <1>6 DEF Reverted, c
  <2>3. QED
    BY <1>1, <2>1, <2>2, RemovalTells DEF TellsAll, p, r
<1>7. CASE c.op = "remove_alias"
  <2>1. c.on \in Entities \X Key /\ c.on \in Id /\ c.old \in AliasRow
    BY <1>7, <1>t DEF HistoryRow, Id
  <2>2. p = Addition(r, c.on, c.old, c.old)
    BY <1>3, <1>7 DEF Reverted, c
  <2>3. c.old = Only(c.old, DOMAIN c.old)
    BY <2>1 DEF Only, AliasRow
  <2>4. c.on \notin Edges \cup Steps \cup Mentions
    BY <1>d, <2>1
  <2>5. QED
    BY <1>1, <2>1, <2>2, <2>3, <2>4, AdditionTells DEF TellsAll, p, r
<1>8. CASE c.op = "remove_mention"
  <2>1. c.on \in Mentions /\ c.on \in Id /\ c.old \in MentionRow
    BY <1>8, <1>t DEF HistoryRow, Id
  <2>2. c.old.entity = c.entity
    BY <1>8, <1>k DEF KeepsHome
  <2>3. [c.old EXCEPT !.entity = c.entity] = c.old
    BY <2>1, <2>2 DEF MentionRow
  <2>4. p = Addition(r, c.on, c.old, c.old)
    BY <1>3, <1>8, <2>3 DEF Reverted, c
  <2>5. c.old = Only(c.old, DOMAIN c.old)
    BY <2>1 DEF Only, MentionRow
  <2>6. Refs(c.on, c.old) \subseteq {c.entity}
    BY <1>d, <2>1, <2>2 DEF Refs, MentionRow
  <2>7. \A e \in Refs(c.on, c.old) : locks[e] = s
    BY <1>t, <2>6
  <2>8. QED
    BY <1>1, <2>1, <2>4, <2>5, <2>7, AdditionTells DEF TellsAll, p, r
<1>9. QED
  BY <1>o, <1>4, <1>5, <1>6, <1>7, <1>8

\* So every plan's history row tells what it will write.
LEMMA PlanTells ==
    ASSUME TypeOK, HomesKept, HomesTold, NEW s \in Session, Plans(s)
    PROVE  TellsAll(s, plan'[s])
<1>1. Ready(s) /\ plan'[s] = Effect(req[s])
  BY DEF Plans
<1>2. QED
  BY <1>1, EffectTells, RevertedTells

\* What a merge is to write stays all that hangs on the Entity it absorbs, ...
LEMMA AbsorbsStay ==
    ASSUME NEW t \in Session, PlanOK(plan[t]), MergesBy(t, plan[t]), plan[t].row.op = "merge",
           AbsorbsBy(plan[t]), plan'[t] = plan[t],
           \A q \in Entities : locks[q] = t => world'[q] = world[q] /\ \A k \in Key : world'[<<q, k>>] = world[<<q, k>>],
           \A x \in Edges : world'[x] # Nil =>
              \/ Exists(x) /\ \A c \in {"src", "dst"}, q \in Entities : locks[q] = t => (world'[x][c] = q <=> world[x][c] = q)
              \/ x \notin DOMAIN plan[t].writes /\ \A c \in {"src", "dst"} : locks[world'[x][c]] # t,
           \A x \in Mentions, q \in Entities : locks[q] = t =>
              (world'[x] # Nil /\ world'[x].entity = q <=> Exists(x) /\ world[x].entity = q),
           \A x \in Steps, q \in Entities : locks[q] = t =>
              (world'[x] # Nil /\ world'[x].quest = q <=> Exists(x) /\ world[x].quest = q)
    PROVE  AbsorbsBy(plan[t])'
<1> DEFINE w == plan[t].writes
<1>1. PICK a \in Entities, e \in Entities : a = plan[t].row.on /\ e = plan[t].row.entity
  BY DEF PlanOK, HistoryRow
<1>2. locks[a] = t /\ locks[e] = t
  BY <1>1 DEF MergesBy
<1>3. /\ world'[a] = world[a] /\ world'[e] = world[e]
      /\ \A k \in Key : world'[<<a, k>>] = world[<<a, k>>] /\ world'[<<e, k>>] = world[<<e, k>>]
  BY <1>2
<1>4. w[a] = Update([merged |-> e])
  BY <1>1 DEF AbsorbsBy
<1>5. ASSUME NEW x \in Edges, world'[x] # Nil
      PROVE  /\ x \in DOMAIN w <=> a \in {world'[x].src, world'[x].dst}
             /\ a \in {world'[x].src, world'[x].dst} =>
                    IF {world'[x].src, world'[x].dst} \subseteq {a, e} THEN w[x] = Delete
                    ELSE w[x].how = "update" /\ DOMAIN w[x].cols \ {"floor"} = {c \in {"src", "dst"} : world'[x][c] = a}
  <2>1. CASE Exists(x) /\ \A c \in {"src", "dst"}, q \in Entities : locks[q] = t => (world'[x][c] = q <=> world[x][c] = q)
    <3>1. /\ x \in DOMAIN w <=> a \in {world[x].src, world[x].dst}
          /\ a \in {world[x].src, world[x].dst} =>
                    IF {world[x].src, world[x].dst} \subseteq {a, e} THEN w[x] = Delete
                    ELSE w[x].how = "update" /\ DOMAIN w[x].cols \ {"floor"} = {c \in {"src", "dst"} : world[x][c] = a}
      BY <1>1, <2>1 DEF AbsorbsBy
    <3>2. \A c \in {"src", "dst"} : (world'[x][c] = a <=> world[x][c] = a) /\ (world'[x][c] = e <=> world[x][c] = e)
      BY <1>2, <2>1
    <3> HIDE DEF w
    <3>3. /\ a \in {world'[x].src, world'[x].dst} <=> a \in {world[x].src, world[x].dst}
          /\ {world'[x].src, world'[x].dst} \subseteq {a, e} <=> {world[x].src, world[x].dst} \subseteq {a, e}
      BY <3>2
    <3>4. {c \in {"src", "dst"} : world'[x][c] = a} = {c \in {"src", "dst"} : world[x][c] = a}
      BY <3>2
    <3>5. QED
      BY <3>1, <3>3, <3>4
  <2>2. CASE x \notin DOMAIN w /\ \A c \in {"src", "dst"} : locks[world'[x][c]] # t
    <3>1. a # world'[x]["src"] /\ a # world'[x]["dst"]
      BY <1>2, <2>2
    <3>2. QED
      BY <2>2, <3>1
  <2>3. QED
    BY <1>5, <2>1, <2>2
<1>6. ASSUME NEW x \in Mentions PROVE x \in DOMAIN w <=> world'[x] # Nil /\ world'[x].entity = a
  BY <1>1, <1>2 DEF AbsorbsBy
<1>7. ASSUME NEW x \in Steps
      PROVE  /\ x \in DOMAIN w <=> world'[x] # Nil /\ world'[x].quest = a
                                  /\ (world'[a].vis = "party" \/ world'[e].vis # "party")
             /\ x \in DOMAIN w => w[x] = Update([quest |-> e])
  <2>1. /\ x \in DOMAIN w <=> Exists(x) /\ world[x].quest = a /\ (world[a].vis = "party" \/ world[e].vis # "party")
        /\ x \in DOMAIN w => w[x] = Update([quest |-> e])
    BY <1>1 DEF AbsorbsBy, Serial!MoveStep
  <2>2. world'[x] # Nil /\ world'[x].quest = a <=> Exists(x) /\ world[x].quest = a
    BY <1>2
  <2>3. QED
    BY <1>3, <2>1, <2>2
<1>8. ASSUME NEW f \in Entities, NEW k \in Key
      PROVE  /\ f = a => (<<f, k>> \in DOMAIN w <=> world'[<<f, k>>] # Nil) /\ (<<f, k>> \in DOMAIN w => w[<<f, k>>] = Delete)
             /\ f = e => /\ <<f, k>> \in DOMAIN w <=> world'[<<e, k>>] = Nil /\ (world'[a].name = k \/ world'[<<a, k>>] # Nil)
                                                     /\ (world'[<<a, k>>] # Nil \/ world'[e].name # k)
                         /\ <<f, k>> \in DOMAIN w => w[<<f, k>>].how = "insert"
             /\ f \notin {a, e} => <<f, k>> \notin DOMAIN w
  <2>1. /\ f = a => (<<f, k>> \in DOMAIN w <=> Exists(<<f, k>>)) /\ (<<f, k>> \in DOMAIN w => w[<<f, k>>] = Delete)
        /\ f = e => /\ <<f, k>> \in DOMAIN w <=> ~Exists(<<e, k>>) /\ Serial!Named(a, k)
                                                /\ (Exists(<<a, k>>) \/ world[e].name # k)
                    /\ <<f, k>> \in DOMAIN w => w[<<f, k>>].how = "insert"
        /\ f \notin {a, e} => <<f, k>> \notin DOMAIN w
    BY <1>1 DEF AbsorbsBy
  <2>2. QED
    BY <1>3, <2>1 DEF Serial!Named, Serial!Exists, Exists
<1>9. plan'[t].writes = w /\ plan'[t].row.on = a /\ plan'[t].row.entity = e
  BY <1>1
<1> HIDE DEF w
<1>e. \A x \in Edges : world'[x] # Nil =>
         /\ x \in DOMAIN w <=> a \in {world'[x].src, world'[x].dst}
         /\ a \in {world'[x].src, world'[x].dst} =>
                IF {world'[x].src, world'[x].dst} \subseteq {a, e} THEN w[x] = Delete
                ELSE w[x].how = "update" /\ DOMAIN w[x].cols \ {"floor"} = {c \in {"src", "dst"} : world'[x][c] = a}
  BY <1>5
<1>m. \A x \in Mentions : x \in DOMAIN w <=> world'[x] # Nil /\ world'[x].entity = a
  BY <1>6
<1>s. \A x \in Steps : /\ x \in DOMAIN w <=> world'[x] # Nil /\ world'[x].quest = a /\ Serial!MoveStep(x, a, e)'
                       /\ x \in DOMAIN w => w[x] = Update([quest |-> e])
  BY <1>7 DEF Serial!MoveStep
<1>f. \A f \in Entities, k \in Key :
         /\ f = a => (<<f, k>> \in DOMAIN w <=> world'[<<f, k>>] # Nil) /\ (<<f, k>> \in DOMAIN w => w[<<f, k>>] = Delete)
         /\ f = e => /\ <<f, k>> \in DOMAIN w <=> world'[<<e, k>>] = Nil /\ Serial!Named(a, k)'
                                                 /\ (world'[<<a, k>>] # Nil \/ world'[e].name # k)
                     /\ <<f, k>> \in DOMAIN w => w[<<f, k>>].how = "insert"
         /\ f \notin {a, e} => <<f, k>> \notin DOMAIN w
  BY <1>8 DEF Serial!Named, Serial!Exists
<1>10. QED
  BY <1>4, <1>9, <1>e, <1>m, <1>s, <1>f DEF AbsorbsBy, Exists

\* ... and every plan's history row stays true of what it is to write.
LEMMA TellsStay ==
    ASSUME NEW t \in Session, PlanOK(plan[t]), MergesBy(t, plan[t]), TellsAll(t, plan[t]), plan'[t] = plan[t],
           \A x \in Id \cup Proposal : locks[x] = t => locks'[x] = t,
           \A x \in Id : locks[x] = t => world'[x] = world[x],
           \A x \in DOMAIN plan[t].writes : plan[t].writes[x].how = "delete" /\ x \notin Edges => world'[x] = world[x],
           plan[t].row.op = "merge" => AbsorbsBy(plan[t])'
    PROVE  TellsAll(t, plan[t])'
<1> DEFINE c == plan[t].row
           w == plan[t].writes
<1>1. TellsBy(t, plan[t]) /\ ReachesBy(t, plan[t]) /\ KeepsHome(c) /\ DOMAIN w \subseteq Id
  BY DEF TellsAll, PlanOK
<1>2. plan'[t].row = c /\ plan'[t].writes = w
  OBVIOUS
<1>3. KeepsHome(plan[t].row)'
  BY <1>1, <1>2 DEF KeepsHome
<1>4. ReachesBy(t, plan[t])'
  <2> SUFFICES ASSUME NEW x \in (Edges \cup Steps \cup Mentions) \cap DOMAIN w, w[x].how # "delete", NEW e \in Refs(x, w[x].cols)
               PROVE  locks'[e] = t
    BY <1>2 DEF ReachesBy, Refs
  <2>1. locks[e] = t
    BY <1>1 DEF ReachesBy
  <2>2. x \in Id /\ WriteOK(x, w[x])
    BY <1>1 DEF PlanOK
  <2>3. w[x].cols \in RowOf(x) \/ w[x].cols \in SetsOf(x)
    BY <2>2 DEF WriteOK
  <2>4. e \in Entities
    BY <2>2, <2>3, RefsAreEntities
  <2>5. QED
    BY <2>1, <2>4 DEF Id
<1>5. TellsBy(t, plan[t])'
  <2>1. CASE c.op = "merge"
    BY <1>2, <2>1 DEF TellsBy
  <2>2. CASE c.op = "note"
    BY <1>1, <1>2, <2>2 DEF TellsBy
  <2>3. CASE c.op \notin {"merge", "note"}
    <3> DEFINE x == c.on
    <3>1. /\ DOMAIN w = {x}
          /\ \/ /\ w[x] = Update(c.new) /\ DOMAIN c.new \cap Serial!Homes = {}
                /\ locks[x] = t /\ c.old = Only(world[x], DOMAIN c.new)
             \/ w[x].how = "insert" /\ c.old = Nil /\ c.new = Only(w[x].cols, DOMAIN c.new)
             \/ w[x] = Delete /\ c.new = Nil /\ (x \notin Edges => c.old = world[x])
      BY <1>1, <2>3 DEF TellsBy
    <3>2. x \in Id
      BY <1>1, <3>1
    <3>3. w[x] = Delete /\ x \notin Edges => world'[x] = world[x]
      BY <3>1 DEF Delete
    <3>4. locks[x] = t => locks'[x] = t /\ world'[x] = world[x]
      BY <3>2
    <3> HIDE DEF w, c, x
    <3>5. /\ DOMAIN w = {x}
          /\ \/ /\ w[x] = Update(c.new) /\ DOMAIN c.new \cap Serial!Homes = {}
                /\ locks'[x] = t /\ c.old = Only(world'[x], DOMAIN c.new)
             \/ w[x].how = "insert" /\ c.old = Nil /\ c.new = Only(w[x].cols, DOMAIN c.new)
             \/ w[x] = Delete /\ c.new = Nil /\ (x \notin Edges => c.old = world'[x])
      BY <3>1, <3>3, <3>4
    <3>6. QED
      BY <1>2, <2>3, <3>5 DEF TellsBy, x, Only, Serial!Homes
  <2>4. QED
    BY <2>1, <2>2, <2>3
<1>6. QED
  BY <1>3, <1>4, <1>5 DEF TellsAll

\* A session's commit hangs no step or Mention on an Entity another session
\* holds, and takes none from it; ...
LEMMA HangsApart ==
    ASSUME WorldOK, PlansOK, NEW s \in Session, Commits(s), HomesBy(s, plan[s]), ReachesBy(s, plan[s]),
           NEW q \in Entities, locks[q] # s
    PROVE  /\ \A x \in Mentions : world'[x] # Nil /\ world'[x].entity = q <=> Exists(x) /\ world[x].entity = q
           /\ \A x \in Steps : world'[x] # Nil /\ world'[x].quest = q <=> Exists(x) /\ world[x].quest = q
<1> DEFINE w == plan[s].writes
<1>1. /\ \A x \in Id : x \notin DOMAIN w => world'[x] = world[x]
      /\ \A x \in DOMAIN w :
            /\ WriteOK(x, w[x])
            /\ w[x].how = "insert" => ~Exists(x) /\ world'[x] = w[x].cols /\ world'[x] \in RowOf(x)
            /\ w[x].how = "update" => Exists(x) /\ world'[x] = Over(w[x].cols, world[x])
            /\ w[x].how = "delete" => world'[x] = Nil
            /\ w[x].how \in {"insert", "update", "delete"}
  BY CommitWrites DEF PlanOK
<1>2. \A x \in (Steps \cup Mentions) \cap DOMAIN w :
         /\ w[x].how # "insert" => Exists(x) /\ locks[Subject(x)] = s
         /\ w[x].how # "delete" => \A e \in Refs(x, w[x].cols) : locks[e] = s
  BY DEF HomesBy, ReachesBy
<1> HIDE DEF w
<1>3. ASSUME NEW x \in Mentions PROVE world'[x] # Nil /\ world'[x].entity = q <=> Exists(x) /\ world[x].entity = q
  <2>0. x \in Id
    BY DEF Id
  <2>1. CASE x \notin DOMAIN w
    BY <1>1, <2>0, <2>1 DEF Exists
  <2>2. CASE x \in DOMAIN w /\ w[x].how = "insert"
    <3>1. ~Exists(x) /\ world'[x] = w[x].cols /\ w[x].cols \in MentionRow
      BY <1>1, <2>0, <2>2, Kinds
    <3>2. w[x].cols.entity \in Refs(x, w[x].cols)
      BY <3>1 DEF Refs, MentionRow
    <3>3. QED
      BY <1>2, <2>2, <3>1, <3>2
  <2>3. CASE x \in DOMAIN w /\ w[x].how = "delete"
    <3>1. Exists(x) /\ locks[Subject(x)] = s /\ world'[x] = Nil
      BY <1>1, <1>2, <2>3
    <3>2. QED
      BY <2>0, <3>1, RowIs
  <2>4. CASE x \in DOMAIN w /\ w[x].how = "update"
    <3>1. Exists(x) /\ locks[Subject(x)] = s /\ world'[x] = Over(w[x].cols, world[x]) /\ w[x].cols \in MentionSets
      BY <1>1, <1>2, <2>0, <2>4, Kinds DEF WriteOK
    <3>2. world[x] \in MentionRow /\ world[x].entity # q
      BY <2>0, <3>1, RowIs
    <3>3. world'[x].entity = world[x].entity \/ ("entity" \in DOMAIN w[x].cols /\ world'[x].entity = w[x].cols.entity)
      BY <3>1, <3>2 DEF Over, MentionRow
    <3>4. "entity" \in DOMAIN w[x].cols => w[x].cols.entity \in Refs(x, w[x].cols)
      BY DEF Refs
    <3>5. world'[x].entity # q
      BY <1>2, <2>4, <3>2, <3>3, <3>4
    <3>6. QED
      BY <3>2, <3>5
  <2>5. QED
    BY <1>1, <2>1, <2>2, <2>3, <2>4
<1>4. ASSUME NEW x \in Steps PROVE world'[x] # Nil /\ world'[x].quest = q <=> Exists(x) /\ world[x].quest = q
  <2>0. x \in Id
    BY DEF Id
  <2>1. CASE x \notin DOMAIN w
    BY <1>1, <2>0, <2>1 DEF Exists
  <2>2. CASE x \in DOMAIN w /\ w[x].how = "insert"
    <3>1. ~Exists(x) /\ world'[x] = w[x].cols /\ w[x].cols \in StepRow
      BY <1>1, <2>0, <2>2, Kinds
    <3>2. w[x].cols.quest \in Refs(x, w[x].cols)
      BY <3>1 DEF Refs, StepRow
    <3>3. QED
      BY <1>2, <2>2, <3>1, <3>2
  <2>3. CASE x \in DOMAIN w /\ w[x].how = "delete"
    <3>1. Exists(x) /\ locks[Subject(x)] = s /\ world'[x] = Nil
      BY <1>1, <1>2, <2>3
    <3>2. QED
      BY <2>0, <3>1, RowIs
  <2>4. CASE x \in DOMAIN w /\ w[x].how = "update"
    <3>1. Exists(x) /\ locks[Subject(x)] = s /\ world'[x] = Over(w[x].cols, world[x]) /\ w[x].cols \in StepSets
      BY <1>1, <1>2, <2>0, <2>4, Kinds DEF WriteOK
    <3>2. world[x] \in StepRow /\ world[x].quest # q
      BY <2>0, <3>1, RowIs
    <3>3. world'[x].quest = world[x].quest \/ ("quest" \in DOMAIN w[x].cols /\ world'[x].quest = w[x].cols.quest)
      BY <3>1, <3>2 DEF Over, StepRow
    <3>4. "quest" \in DOMAIN w[x].cols => w[x].cols.quest \in Refs(x, w[x].cols)
      BY DEF Refs
    <3>5. world'[x].quest # q
      BY <1>2, <2>4, <3>2, <3>3, <3>4
    <3>6. QED
      BY <3>2, <3>5
  <2>5. QED
    BY <1>1, <2>1, <2>2, <2>3, <2>4
<1>5. QED
  BY <1>3, <1>4

\* ... nor does it hang an edge there, take one or move one, but that it may take
\* an edge back.
LEMMA EdgesApart ==
    ASSUME WorldOK, PlansOK, NEW s \in Session, Commits(s), ReachesBy(s, plan[s]), MergesBy(s, plan[s]),
           NEW x \in Edges, world'[x] # Nil
    PROVE  \/ Exists(x) /\ \A c \in {"src", "dst"}, q \in Entities : locks[q] # s => (world'[x][c] = q <=> world[x][c] = q)
           \/ /\ x \in DOMAIN plan[s].writes /\ plan[s].writes[x].how = "insert"
              /\ \A c \in {"src", "dst"} : locks[world'[x][c]] = s
<1> DEFINE w == plan[s].writes
<1>1. /\ \A y \in Id : y \notin DOMAIN w => world'[y] = world[y]
      /\ \A y \in DOMAIN w :
            /\ WriteOK(y, w[y])
            /\ w[y].how = "insert" => ~Exists(y) /\ world'[y] = w[y].cols /\ world'[y] \in RowOf(y)
            /\ w[y].how = "update" => Exists(y) /\ world'[y] = Over(w[y].cols, world[y])
            /\ w[y].how = "delete" => world'[y] = Nil
            /\ w[y].how \in {"insert", "update", "delete"}
      /\ PlanOK(plan[s])
  BY CommitWrites DEF PlanOK
<1>0. x \in Id
  BY DEF Id
<1>2. CASE x \notin DOMAIN w
  BY <1>0, <1>1, <1>2 DEF Exists
<1>3. CASE x \in DOMAIN w /\ w[x].how = "insert"
  <2>1. world'[x] = w[x].cols /\ w[x].cols \in EdgeRow
    BY <1>0, <1>1, <1>3, Kinds
  <2>2. \A e \in Refs(x, w[x].cols) : locks[e] = s
    BY <1>3 DEF ReachesBy
  <2> HIDE DEF w
  <2>3. \A c \in {"src", "dst"} : w[x].cols[c] \in Refs(x, w[x].cols)
    BY <2>1 DEF Refs, EdgeRow
  <2>4. \A c \in {"src", "dst"} : locks[world'[x][c]] = s
    BY <2>1, <2>2, <2>3
  <2>5. QED
    BY <1>3, <2>4 DEF w
<1>4. CASE x \in DOMAIN w /\ w[x].how = "update"
  <2>1. Exists(x) /\ world'[x] = Over(w[x].cols, world[x])
    BY <1>1, <1>4
  <2>2. world[x] \in EdgeRow
    BY <1>0, <2>1, RowIs
  <2>3. \A c \in {"src", "dst"} : world'[x][c] = IF c \in DOMAIN w[x].cols THEN w[x].cols[c] ELSE world[x][c]
    <3> HIDE DEF w
    <3>1. QED
      BY <2>1, <2>2 DEF Over, EdgeRow
  <2>4. CASE plan[s].row.op # "merge"
    <3>1. w[x].cols \in EdgeSets
      BY <1>4, <2>4 DEF MergesBy
    <3> HIDE DEF w
    <3>2. DOMAIN w[x].cols \cap {"src", "dst"} = {}
      BY <3>1 DEF EdgeSets
    <3>3. QED
      BY <2>1, <2>3, <3>2
  <2>5. CASE plan[s].row.op = "merge"
    <3> DEFINE b == plan[s].row.on
               e == plan[s].row.entity
    <3>1. /\ locks[b] = s /\ locks[e] = s
          /\ \A c \in DOMAIN w[x].cols \ {"floor"} : w[x].cols[c] = e /\ world[x][c] = b
      BY <1>4, <2>1, <2>5 DEF MergesBy
    <3> HIDE DEF w, b, e
    <3>2. ASSUME NEW c \in {"src", "dst"}, NEW q \in Entities, locks[q] # s
          PROVE  world'[x][c] = q <=> world[x][c] = q
      <4>1. CASE c \in DOMAIN w[x].cols
        BY <2>3, <3>1, <3>2, <4>1
      <4>2. CASE c \notin DOMAIN w[x].cols
        BY <2>3, <4>2
      <4>3. QED
        BY <4>1, <4>2
    <3>3. QED
      BY <2>1, <3>2
  <2>6. QED
    BY <2>4, <2>5
<1>5. QED
  BY <1>1, <1>2, <1>3, <1>4

\* What a plan's history row tells is kept by every step of another session.
LEMMA TellsStep ==
    ASSUME HomesInv, MergesHeld, TellsHeld, HomesTold, [Next]_vars
    PROVE  TellsHeld' /\ HomesTold'
<1>t. TypeOK /\ WorldOK /\ HistoryOK /\ PlansOK /\ ShapesOK /\ HomesKept
  BY DEF HomesInv, TypeOK
<1>n. ShapesOK /\ \A t \in Session : t # Nil
  BY <1>t, CanonAssumption
<1>h. ASSUME NEW t \in Session, pc[t] = "flush" PROVE TellsAll(t, plan[t]) /\ MergesBy(t, plan[t]) /\ PlanOK(plan[t])
  BY <1>h, <1>t DEF TellsHeld, HomesTold, TellsAll, MergesHeld, Flushing, PlansOK
<1>g. ASSUME \A t \in Session : pc'[t] = "flush" => TellsAll(t, plan[t])', \A i \in DOMAIN changes' : KeepsHome(changes'[i])
      PROVE  TellsHeld' /\ HomesTold'
  BY <1>g DEF TellsHeld, HomesTold, TellsAll, Flushing, KeepsHome
<1>u. ASSUME UNCHANGED <<world, changes>>, NEW t \in Session, pc[t] = "flush", plan'[t] = plan[t],
             \A x \in Id \cup Proposal : locks[x] = t => locks'[x] = t
      PROVE  TellsAll(t, plan[t])'
  <2>1. TellsAll(t, plan[t]) /\ MergesBy(t, plan[t]) /\ PlanOK(plan[t])
    BY <1>h, <1>u
  <2>2. \A x : world'[x] = world[x]
    BY <1>u
  <2>3. ASSUME plan[t].row.op = "merge" PROVE AbsorbsBy(plan[t])'
    <3>1. AbsorbsBy(plan[t])
      BY <2>1, <2>3 DEF TellsAll, TellsBy
    <3>2. QED
      BY <1>u, <3>1 DEF AbsorbsBy, Exists, Serial!MoveStep, Serial!Named, Serial!Exists
  <2>4. QED
    BY <1>u, <2>1, <2>2, <2>3, TellsStay
<1>1. CASE Quiet
  <2>1. /\ UNCHANGED <<world, changes>>
        /\ \A t \in Session : pc'[t] = "flush" => pc[t] = "flush" /\ plan'[t] = plan[t]
        /\ \A t \in Session, x \in Id \cup Proposal : pc'[t] = "flush" /\ locks[x] = t => locks'[x] = t
    BY <1>1 DEF Quiet
  <2>2. \A t \in Session : pc'[t] = "flush" => TellsAll(t, plan[t])'
    BY <1>u, <2>1
  <2>3. \A i \in DOMAIN changes' : KeepsHome(changes'[i])
    BY <2>1 DEF HomesTold
  <2>4. QED
    BY <1>g, <2>2, <2>3
<1>2. ASSUME NEW s \in Session, Plans(s) PROVE TellsHeld' /\ HomesTold'
  <2>1. /\ UNCHANGED <<world, changes, locks>>
        /\ \A t \in Session : pc'[t] = "flush" => t = s \/ (pc[t] = "flush" /\ plan'[t] = plan[t])
    BY <1>2 DEF Plans
  <2>2. TellsAll(s, plan'[s])
    BY <1>2, <1>t, PlanTells
  <2>3. TellsAll(s, plan[s])'
    <3>1. AbsorbsBy(plan'[s]) => AbsorbsBy(plan[s])'
      BY <2>1 DEF AbsorbsBy, Exists, Serial!MoveStep, Serial!Named, Serial!Exists
    <3>2. TellsBy(s, plan[s])'
      BY <2>1, <2>2, <3>1 DEF TellsAll, TellsBy, Only, Serial!Homes
    <3>3. ReachesBy(s, plan[s])'
      BY <2>1, <2>2 DEF TellsAll, ReachesBy, Refs
    <3>4. QED
      BY <2>2, <3>2, <3>3 DEF TellsAll, KeepsHome
  <2>4. \A t \in Session : pc'[t] = "flush" => TellsAll(t, plan[t])'
    BY <1>u, <2>1, <2>3
  <2>5. \A i \in DOMAIN changes' : KeepsHome(changes'[i])
    BY <2>1 DEF HomesTold
  <2>6. QED
    BY <1>g, <2>4, <2>5
<1>3. ASSUME NEW s \in Session, Commits(s) PROVE TellsHeld' /\ HomesTold'
  <2> DEFINE w == plan[s].writes
  <2>1. /\ \A t \in Session : pc'[t] = "flush" => t # s /\ pc[t] = "flush" /\ plan'[t] = plan[t]
        /\ \A t \in Session, x \in Id \cup Proposal : pc'[t] = "flush" /\ locks[x] = t => locks'[x] = t
        /\ (\A x \in DOMAIN w : locks[x] = s) /\ pc[s] = "flush" /\ changes' = Append(changes, plan[s].row)
    BY <1>3 DEF Commits
  <2>2. \A x \in Id : x \notin DOMAIN w => world'[x] = world[x]
    BY <1>3, <1>t, CommitWrites
  <2>3. HomesBy(s, plan[s]) /\ NewBy(s, plan[s]) /\ InsertsBy(plan[s]) /\ TellsAll(s, plan[s]) /\ MergesBy(s, plan[s])
    BY <1>h, <1>t, <2>1 DEF HomesInv, HomesHeld, NewIsNew, OnlyAdditionsInsert, Flushing
  <2>4. ASSUME NEW t \in Session, pc'[t] = "flush" PROVE TellsAll(t, plan[t])'
    <3>1. /\ t # s /\ pc[t] = "flush" /\ plan'[t] = plan[t]
          /\ TellsAll(t, plan[t]) /\ MergesBy(t, plan[t]) /\ PlanOK(plan[t])
      BY <1>h, <2>1, <2>4
    <3>2. \A x \in Id \cup Proposal : locks[x] = t => locks'[x] = t
      BY <2>1, <2>4
    <3>3. \A x \in Id : locks[x] = t => world'[x] = world[x]
      BY <2>1, <2>2, <3>1
    <3>4. ASSUME NEW q \in Entities, locks[q] = t
          PROVE  world'[q] = world[q] /\ \A k \in Key : world'[<<q, k>>] = world[<<q, k>>]
      <4>1. q \in Id /\ \A k \in Key : <<q, k>> \in Id
        BY DEF Id
      <4>2. \A k \in Key : <<q, k>> \notin DOMAIN w
        BY <2>3, <3>1, <3>4 DEF HomesBy
      <4>3. QED
        BY <2>2, <3>3, <3>4, <4>1, <4>2
    <3>5. ASSUME NEW x \in DOMAIN plan[t].writes, plan[t].writes[x].how = "delete", x \notin Edges PROVE world'[x] = world[x]
      <4>1. x \in Id /\ x \notin Entities
        BY <3>1, <3>5 DEF PlanOK, WriteOK
      <4>2. CASE x \in Steps \cup Mentions
        BY <1>3, <3>1, <3>5, <4>2, HomesApart
      <4>3. CASE x \in Entities \X Key
        <5>1. PICK q \in Entities, k \in Key : x = <<q, k>>
          BY <4>3
        <5>2. locks[q] = t
          BY <3>1, <5>1 DEF HomesInv, HomesHeld, HomesBy, Flushing
        <5>3. QED
          BY <3>4, <5>1, <5>2
      <4>4. QED
        BY <3>5, <4>1, <4>2, <4>3 DEF Id
    <3>6. ASSUME NEW x \in Edges, world'[x] # Nil
          PROVE  \/ Exists(x) /\ \A c \in {"src", "dst"}, q \in Entities : locks[q] = t => (world'[x][c] = q <=> world[x][c] = q)
                 \/ x \notin DOMAIN plan[t].writes /\ \A c \in {"src", "dst"} : locks[world'[x][c]] # t
      <4>1. CASE Exists(x) /\ \A c \in {"src", "dst"}, q \in Entities : locks[q] # s => (world'[x][c] = q <=> world[x][c] = q)
        BY <3>1, <4>1
      <4>2. CASE x \in DOMAIN w /\ w[x].how = "insert" /\ \A c \in {"src", "dst"} : locks[world'[x][c]] = s
        <5>1. plan[s].row.op \in Additions /\ plan[s].row.on = x
          BY <2>3, <4>2 DEF InsertsBy
        <5>2. x \notin DOMAIN plan[t].writes
          BY <2>3, <3>1, <5>1 DEF NewBy, Flushing
        <5>3. QED
          BY <3>1, <4>2, <5>2
      <4>3. QED
        BY <1>3, <1>t, <2>3, <3>6, <4>1, <4>2, EdgesApart DEF TellsAll
    <3>7. ASSUME NEW q \in Entities, locks[q] = t
          PROVE  /\ \A x \in Mentions : world'[x] # Nil /\ world'[x].entity = q <=> Exists(x) /\ world[x].entity = q
                 /\ \A x \in Steps : world'[x] # Nil /\ world'[x].quest = q <=> Exists(x) /\ world[x].quest = q
      BY <1>3, <1>t, <2>3, <3>1, <3>7, HangsApart DEF TellsAll
    <3>8. ASSUME plan[t].row.op = "merge" PROVE AbsorbsBy(plan[t])'
      <4>1. AbsorbsBy(plan[t])
        BY <3>1, <3>8 DEF TellsAll, TellsBy
      <4> HIDE DEF w
      <4>2. QED
        BY <3>1, <3>4, <3>6, <3>7, <3>8, <4>1, AbsorbsStay
    <3> HIDE DEF w
    <3>9. QED
      BY <3>1, <3>2, <3>3, <3>5, <3>8, TellsStay
  <2>5. \A i \in DOMAIN changes' : KeepsHome(changes'[i])
    BY <1>t, <2>1, <2>3 DEF TellsAll, HomesTold, ShapesOK
  <2>6. QED
    BY <1>g, <2>4, <2>5
<1>4. QED
  BY <1>1, <1>2, <1>3, <1>t, StepIs

\* Every state is one in which what is about to be written is what will be told.
LEMMA TellsHold == Spec => []TellsInv
<1>1. Init => MergesHeld /\ TellsHeld /\ HomesTold
  BY DEF Init, MergesHeld, TellsHeld, HomesTold, Flushing
<1>2. HomesInv /\ MergesHeld /\ [Next]_vars => MergesHeld'
  BY MergesStep
<1>3. HomesInv /\ MergesHeld /\ TellsHeld /\ HomesTold /\ [Next]_vars => TellsHeld' /\ HomesTold'
  BY TellsStep
<1>4. TellsInv <=> HomesInv /\ MergesHeld /\ TellsHeld /\ HomesTold
  BY DEF TellsInv, MergeInv
<1>5. QED
  BY <1>1, <1>2, <1>3, <1>4, HomesHold, PTL DEF Spec

\* What is set in a row are columns it has.
LEMMA SetsAreColumns ==
    ASSUME NEW x \in Id, NEW row \in RowOf(x), NEW cols \in SetsOf(x)
    PROVE  DOMAIN cols \subseteq DOMAIN row
<1>1. CASE x \in Entities
  <2>1. row \in EntityRow /\ cols \in EntitySets
    BY <1>1, Kinds
  <2>2. QED
    BY <2>1 DEF EntityRow, EntitySets, FieldCols
<1>2. CASE x \in Edges
  <2>1. row \in EdgeRow /\ cols \in EdgeSets \cup EdgeMoves
    BY <1>2, Kinds
  <2>2. QED
    BY <2>1 DEF EdgeRow, EdgeSets, EdgeMoves
<1>3. CASE x \in Steps
  <2>1. row \in StepRow /\ cols \in StepSets
    BY <1>3, Kinds
  <2>2. QED
    BY <2>1 DEF StepRow, StepSets
<1>4. CASE x \in Mentions
  <2>1. row \in MentionRow /\ cols \in MentionSets
    BY <1>4, Kinds
  <2>2. QED
    BY <2>1 DEF MentionRow, MentionSets
<1>5. CASE x \in Entities \X Key
  BY <1>5, Kinds
<1>6. QED
  BY <1>1, <1>2, <1>3, <1>4, <1>5 DEF Id

\* A commit of a change of one row is an edit, an addition or a removal of it, as
\* its history row tells.
LEMMA PlainCommit ==
    ASSUME WorldOK, PlansOK, NEW s \in Session, Commits(s), TellsBy(s, plan[s]), plan[s].row.op \notin {"note", "merge"}
    PROVE  LET c == plan[s].row IN Serial!Edit(c) \/ Serial!Add(c) \/ Serial!Remove(c)
<1> DEFINE c == plan[s].row
           x == c.on
           w == plan[s].writes
<1>1. /\ DOMAIN w = {x}
      /\ \/ /\ w[x] = Update(c.new) /\ DOMAIN c.new \cap Serial!Homes = {}
            /\ locks[x] = s /\ c.old = Only(world[x], DOMAIN c.new)
         \/ w[x].how = "insert" /\ c.old = Nil /\ c.new = Only(w[x].cols, DOMAIN c.new)
         \/ w[x] = Delete /\ c.new = Nil /\ (x \notin Edges => c.old = world[x])
  BY DEF TellsBy
<1>2. /\ x \in Id /\ WriteOK(x, w[x])
      /\ w[x].how = "insert" => ~Exists(x) /\ world'[x] = w[x].cols /\ world'[x] # Nil
      /\ w[x].how = "update" => Exists(x) /\ world'[x] = Over(w[x].cols, world[x]) /\ world'[x] # Nil
      /\ w[x].how = "delete" => world'[x] = Nil /\ x \notin Entities
  <2>1. /\ \A y \in DOMAIN w : WriteOK(y, w[y])
        /\ \A y \in DOMAIN w :
              /\ y \in Id
              /\ w[y].how = "insert" => ~Exists(y) /\ world'[y] = w[y].cols /\ world'[y] # Nil
              /\ w[y].how = "update" => Exists(y) /\ world'[y] = Over(w[y].cols, world[y]) /\ world'[y] # Nil
              /\ w[y].how = "delete" => world'[y] = Nil /\ y \notin Entities
    BY CommitWrites DEF PlanOK
  <2>2. x \in DOMAIN w
    BY <1>1
  <2> HIDE DEF w, c, x
  <2>3. QED
    BY <2>1, <2>2
<1>3. Serial!OthersStay(x)
  <2>1. \A y \in Id : y \notin DOMAIN w => world'[y] = world[y]
    BY CommitWrites
  <2> HIDE DEF w, c, x
  <2>2. QED
    BY <1>1, <2>1 DEF Serial!OthersStay
<1>4. CASE w[x] = Update(c.new) /\ DOMAIN c.new \cap Serial!Homes = {} /\ c.old = Only(world[x], DOMAIN c.new)
  <2>1. w[x].how = "update" /\ w[x].cols = c.new
    BY <1>4 DEF Update
  <2>2. world[x] \in RowOf(x) /\ c.new \in SetsOf(x)
    BY <1>2, <2>1 DEF WorldOK, WriteOK
  <2> HIDE DEF w, c, x
  <2>3. DOMAIN c.new \subseteq DOMAIN world[x]
    BY <1>2, <2>2, SetsAreColumns
  <2>4. Over(c.new, world[x]) = Serial!With(world[x], c.new)
    BY <2>3 DEF Over, Serial!With
  <2>5. Serial!Edit(c)
    BY <1>2, <1>3, <1>4, <2>1, <2>4 DEF Serial!Edit, Serial!Exists, Exists, Serial!Only, Only, x
  <2>6. QED
    BY <2>5 DEF c
<1>5. CASE w[x].how = "insert" /\ c.old = Nil /\ c.new = Only(w[x].cols, DOMAIN c.new)
  <2> HIDE DEF w, c, x
  <2>1. Serial!Add(c)
    BY <1>2, <1>3, <1>5 DEF Serial!Add, Serial!Exists, Exists, Serial!Only, Only, x
  <2>2. QED
    BY <2>1 DEF c
<1>6. CASE w[x] = Delete /\ c.new = Nil /\ (x \notin Edges => c.old = world[x])
  <2>1. w[x].how = "delete"
    BY <1>6 DEF Delete
  <2> HIDE DEF w, c, x
  <2>2. Serial!Remove(c)
    BY <1>2, <1>3, <1>6, <2>1 DEF Serial!Remove, x
  <2>3. QED
    BY <2>2 DEF c
<1>7. QED
  BY <1>1, <1>4, <1>5, <1>6

\* A commit of a merge absorbs the Entity, with all that hangs on it then.
LEMMA MergeCommit ==
    ASSUME WorldOK, PlansOK, NEW s \in Session, Commits(s), TellsBy(s, plan[s]), MergesBy(s, plan[s]), plan[s].row.op = "merge"
    PROVE  Serial!Merge(plan[s].row)
<1> DEFINE w == plan[s].writes
<1>0. PlanOK(plan[s]) /\ AbsorbsBy(plan[s])
  BY CommitWrites DEF TellsBy
<1>1. PICK a \in Entities, e \in Entities : a = plan[s].row.on /\ e = plan[s].row.entity /\ a # e
  BY <1>0 DEF PlanOK, HistoryRow
<1>2. /\ Live(a) /\ Live(e)
      /\ \A x \in DOMAIN w :
            /\ x \in Entities => x = a
            /\ x \in Edges /\ w[x].how # "delete" =>
                  w[x].how = "update" /\ w[x].cols \in EdgeMoves /\ \A c \in DOMAIN w[x].cols \ {"floor"} : w[x].cols[c] = e
            /\ x \in Mentions => w[x].how = "update" /\ w[x].cols.entity = e /\ w[x].cols \notin [confirmed : BOOLEAN]
  BY <1>1 DEF MergesBy
<1>3. /\ \A x \in Id : x \notin DOMAIN w => world'[x] = world[x]
      /\ \A x \in DOMAIN w :
            /\ x \in Id /\ WriteOK(x, w[x])
            /\ w[x].how = "insert" => ~Exists(x) /\ world'[x] # Nil
            /\ w[x].how = "update" => Exists(x) /\ world'[x] = Over(w[x].cols, world[x]) /\ world'[x] # Nil
            /\ w[x].how = "delete" => world'[x] = Nil
            /\ w[x].how \in {"insert", "update", "delete"}
  BY CommitWrites DEF PlanOK
<1>4. a \in DOMAIN w /\ w[a] = Update([merged |-> e])
  BY <1>0, <1>1, PlanRow DEF AbsorbsBy
<1>u. \A cols : Update(cols).how = "update" /\ Update(cols).cols = cols
  BY DEF Update
<1>d. Delete.how = "delete"
  BY DEF Delete
<1>e. ASSUME NEW x \in Edges, Exists(x)
      PROVE  /\ x \in DOMAIN w <=> a \in {world[x].src, world[x].dst}
             /\ a \in {world[x].src, world[x].dst} =>
                    IF {world[x].src, world[x].dst} \subseteq {a, e} THEN w[x] = Delete
                    ELSE w[x].how = "update" /\ DOMAIN w[x].cols \ {"floor"} = {c \in {"src", "dst"} : world[x][c] = a}
  BY <1>0, <1>1, <1>e DEF AbsorbsBy
<1>m. \A x \in Mentions : x \in DOMAIN w <=> Exists(x) /\ world[x].entity = a
  BY <1>0, <1>1 DEF AbsorbsBy
<1>s. \A x \in Steps : /\ x \in DOMAIN w <=> Exists(x) /\ world[x].quest = a /\ Serial!MoveStep(x, a, e)
                       /\ x \in DOMAIN w => w[x] = Update([quest |-> e])
  BY <1>0, <1>1 DEF AbsorbsBy
<1>f. ASSUME NEW f \in Entities, NEW k \in Key
      PROVE  /\ f = a => (<<f, k>> \in DOMAIN w <=> Exists(<<f, k>>)) /\ (<<f, k>> \in DOMAIN w => w[<<f, k>>] = Delete)
             /\ f = e => /\ <<f, k>> \in DOMAIN w <=> ~Exists(<<e, k>>) /\ Serial!Named(a, k)
                                                     /\ (Exists(<<a, k>>) \/ world[e].name # k)
                         /\ <<f, k>> \in DOMAIN w => w[<<f, k>>].how = "insert"
             /\ f \notin {a, e} => <<f, k>> \notin DOMAIN w
  BY <1>0, <1>1 DEF AbsorbsBy
<1>i. Entities \cup Edges \cup Steps \cup Mentions \subseteq Id /\ \A f \in Entities, k \in Key : <<f, k>> \in Id
  BY DEF Id
<1> HIDE DEF w
<1>5. world'[a] = [world[a] EXCEPT !.merged = e]
  <2>1. world'[a] = Over([merged |-> e], world[a])
    BY <1>3, <1>4, <1>u
  <2>2. world[a] \in EntityRow
    BY <1>2, <1>i, RowIs DEF Live
  <2>3. QED
    BY <2>1, <2>2 DEF Over, EntityRow
<1>6. \A f \in Entities \ {a} : Serial!Keeps(f)
  BY <1>2, <1>3, <1>i DEF Serial!Keeps
<1>7. ASSUME NEW x \in Edges
      PROVE  IF ~Serial!Exists(x) \/ a \notin Serial!Ends(x) THEN Serial!Keeps(x)
             ELSE IF Serial!Ends(x) \subseteq {a, e} THEN world'[x] = Nil
             ELSE Serial!Moves(x, a, e)
  <2>0. x \in Id
    BY <1>i
  <2>1. CASE ~Exists(x)
    <3>1. world'[x] = world[x]
      BY <1>2, <1>3, <2>0, <2>1 DEF Exists
    <3>2. QED
      BY <2>1, <3>1 DEF Serial!Exists, Exists, Serial!Keeps
  <2>2. CASE Exists(x) /\ a \notin Serial!Ends(x)
    <3>1. world'[x] = world[x]
      BY <1>3, <1>e, <2>0, <2>2 DEF Serial!Ends
    <3>2. QED
      BY <2>2, <3>1 DEF Serial!Keeps
  <2>3. CASE Exists(x) /\ a \in Serial!Ends(x) /\ Serial!Ends(x) \subseteq {a, e}
    <3>1. x \in DOMAIN w /\ w[x] = Delete
      BY <1>e, <2>3 DEF Serial!Ends
    <3>2. world'[x] = Nil
      BY <1>3, <1>d, <3>1
    <3>3. QED
      BY <2>3, <3>2 DEF Serial!Exists, Exists
  <2>4. CASE Exists(x) /\ a \in Serial!Ends(x) /\ ~(Serial!Ends(x) \subseteq {a, e})
    <3> DEFINE cols == w[x].cols
               row == world[x]
    <3>1. x \in DOMAIN w /\ w[x].how = "update" /\ DOMAIN cols \ {"floor"} = {c \in {"src", "dst"} : row[c] = a}
      BY <1>e, <2>4 DEF Serial!Ends
    <3>2. /\ cols \in EdgeMoves /\ \A c \in DOMAIN cols \ {"floor"} : cols[c] = e
          /\ world'[x] = Over(cols, row) /\ world'[x] # Nil
      BY <1>2, <1>3, <3>1
    <3>3. row \in EdgeRow
      BY <2>0, <2>4, RowIs
    <3> HIDE DEF cols, row
    <3>4. DOMAIN row = {"src", "dst", "note", "ended", "vis", "floor"}
      BY <3>3 DEF EdgeRow
    <3>5. DOMAIN cols \subseteq {"src", "dst", "floor"}
      BY <3>2 DEF EdgeMoves
    <3>6. DOMAIN Over(cols, row) = DOMAIN row
      BY <3>4, <3>5 DEF Over
    <3>7. ASSUME NEW c \in DOMAIN row \ {"floor"}
          PROVE  Over(cols, row)[c] = IF c \in Serial!Homes /\ row[c] = a THEN e ELSE row[c]
      <4>1. Over(cols, row)[c] = IF c \in DOMAIN cols THEN cols[c] ELSE row[c]
        BY DEF Over
      <4>2. c \in DOMAIN cols <=> c \in {"src", "dst"} /\ row[c] = a
        BY <3>1
      <4>3. c \in Serial!Homes <=> c \in {"src", "dst"}
        BY <3>4 DEF Serial!Homes
      <4>4. c \in DOMAIN cols => cols[c] = e
        BY <3>2
      <4>5. QED
        BY <4>1, <4>2, <4>3, <4>4
    <3>8. Serial!Only(Over(cols, row), DOMAIN Over(cols, row) \ {"floor"}) = Serial!Renamed(row, a, e)
      BY <3>6, <3>7 DEF Serial!Only, Serial!Renamed
    <3>9. Serial!Moves(x, a, e)
      BY <3>2, <3>8 DEF Serial!Moves, row
    <3>10. QED
      BY <2>4, <3>9 DEF Serial!Exists, Exists
  <2>5. QED
    BY <2>1, <2>2, <2>3, <2>4
<1>8. ASSUME NEW x \in Mentions
      PROVE  IF ~Serial!Exists(x) \/ world[x].entity # a THEN Serial!Keeps(x) ELSE Serial!Moves(x, a, e)
  <2>0. x \in Id
    BY <1>i
  <2>1. CASE ~Exists(x) \/ world[x].entity # a
    <3>1. world'[x] = world[x]
      BY <1>3, <1>m, <2>0, <2>1
    <3>2. QED
      BY <2>1, <3>1 DEF Serial!Exists, Exists, Serial!Keeps
  <2>2. CASE Exists(x) /\ world[x].entity = a
    <3> DEFINE cols == w[x].cols
               row == world[x]
    <3>1. x \in DOMAIN w /\ w[x].how = "update" /\ cols.entity = e /\ cols \notin [confirmed : BOOLEAN] /\ WriteOK(x, w[x])
      BY <1>2, <1>3, <1>m, <2>2
    <3>2. cols \in MentionSets /\ row \in MentionRow
      BY <2>0, <2>2, <3>1, Kinds, RowIs DEF WriteOK
    <3>3. world'[x] = Over(cols, row) /\ world'[x] # Nil
      BY <1>3, <3>1
    <3> HIDE DEF cols, row
    <3>4. DOMAIN row = {"entity", "confirmed", "floor"} /\ DOMAIN cols \ {"floor"} = {"entity"} /\ row.entity = a
      BY <2>2, <3>1, <3>2 DEF MentionRow, MentionSets, row
    <3>5. DOMAIN Over(cols, row) = DOMAIN row
      BY <3>4 DEF Over
    <3>6. ASSUME NEW c \in DOMAIN row \ {"floor"}
          PROVE  Over(cols, row)[c] = IF c \in Serial!Homes /\ row[c] = a THEN e ELSE row[c]
      <4>1. Over(cols, row)[c] = IF c \in DOMAIN cols THEN cols[c] ELSE row[c]
        BY DEF Over
      <4>2. c \in DOMAIN cols <=> c = "entity"
        BY <3>4
      <4>3. c \in Serial!Homes <=> c = "entity"
        BY <3>4 DEF Serial!Homes
      <4>4. QED
        BY <3>1, <3>4, <4>1, <4>2, <4>3
    <3>7. Serial!Only(Over(cols, row), DOMAIN Over(cols, row) \ {"floor"}) = Serial!Renamed(row, a, e)
      BY <3>5, <3>6 DEF Serial!Only, Serial!Renamed
    <3>8. Serial!Moves(x, a, e)
      BY <3>3, <3>7 DEF Serial!Moves, row
    <3>9. QED
      BY <2>2, <3>8 DEF Serial!Exists, Exists
  <2>3. QED
    BY <2>1, <2>2
<1>9. ASSUME NEW x \in Steps
      PROVE  IF Serial!Exists(x) /\ world[x].quest = a /\ Serial!MoveStep(x, a, e)
             THEN world'[x] = [world[x] EXCEPT !.quest = e] ELSE Serial!Keeps(x)
  <2>0. x \in Id
    BY <1>i
  <2>1. CASE x \notin DOMAIN w
    BY <1>3, <1>s, <2>0, <2>1 DEF Serial!Exists, Exists, Serial!Keeps
  <2>2. CASE x \in DOMAIN w
    <3>1. /\ Exists(x) /\ world[x].quest = a /\ Serial!MoveStep(x, a, e)
          /\ world'[x] = Over([quest |-> e], world[x])
      BY <1>3, <1>s, <1>u, <2>2
    <3>2. world[x] \in StepRow
      BY <2>0, <3>1, RowIs
    <3>3. world'[x] = [world[x] EXCEPT !.quest = e]
      BY <3>1, <3>2 DEF Over, StepRow
    <3>4. QED
      BY <3>1, <3>3 DEF Serial!Exists, Exists
  <2>3. QED
    BY <2>1, <2>2
<1>10. ASSUME NEW f \in Entities, NEW k \in Key
       PROVE  IF f = a THEN world'[<<f, k>>] = Nil
              ELSE IF f # e \/ Serial!Exists(<<e, k>>) THEN Serial!Keeps(<<f, k>>)
              ELSE world'[<<e, k>>] # Nil <=> Serial!Named(a, k) /\ (Serial!Exists(<<a, k>>) \/ world[e].name # k)
  <2>0. <<f, k>> \in Id
    BY <1>i
  <2>1. CASE f = a
    BY <1>3, <1>d, <1>f, <2>0, <2>1, ZenonT(40) DEF Exists
  <2>2. CASE f \notin {a, e}
    BY <1>3, <1>f, <2>0, <2>2 DEF Serial!Keeps
  <2>3. CASE f = e
    BY <1>1, <1>3, <1>f, <2>0, <2>3 DEF Exists, Serial!Exists, Serial!Keeps
  <2>4. QED
    BY <2>1, <2>2, <2>3
<1>11. \A f \in {a, e} : Serial!Exists(f) /\ world[f].deleted = Nil /\ world[f].merged = Nil
  BY <1>2 DEF Live, Exists, Serial!Exists
<1>12. QED
  BY <1>1, <1>5, <1>6, <1>7, <1>8, <1>9, <1>10, <1>11 DEF Serial!Merge

\* Every step, of whatever sessions, is to a reader of the tables and of the
\* history one whole change, or nothing.
LEMMA HistoryStep == TellsInv /\ [Next]_vars => [Serial!Next]_<<world, changes>>
<1> SUFFICES ASSUME TellsInv, [Next]_vars PROVE [Serial!Next]_<<world, changes>>
  OBVIOUS
<1>1. WorldOK /\ PlansOK /\ ShapesOK
  BY DEF TellsInv, MergeInv, HomesInv, TypeOK
<1>2. CASE Quiet \/ \E s \in Session : Plans(s)
  BY <1>2 DEF Quiet, Plans
<1>3. ASSUME NEW s \in Session, Commits(s) PROVE Serial!Next
  <2> DEFINE c == plan[s].row
  <2>1. changes' = Append(changes, c) /\ pc[s] = "flush"
    BY <1>3 DEF Commits
  <2>2. TellsBy(s, plan[s]) /\ MergesBy(s, plan[s])
    BY <2>1 DEF TellsInv, MergeInv, TellsHeld, MergesHeld, Flushing
  <2>3. c.op = "note" => \A x \in Id : Serial!Keeps(x)
    BY <1>1, <1>3, <2>2, CommitWrites DEF TellsBy, Serial!Keeps
  <2>4. c.op = "merge" => Serial!Merge(c)
    BY <1>1, <1>3, <2>2, MergeCommit
  <2>5. c.op \notin {"note", "merge"} => Serial!Edit(c) \/ Serial!Add(c) \/ Serial!Remove(c)
    BY <1>1, <1>3, <2>2, PlainCommit
  <2> HIDE DEF c
  <2>6. Len(changes') = Len(changes) + 1 /\ changes'[Len(changes')] = c
    BY <1>1, <2>1 DEF ShapesOK
  <2>7. QED
    BY <2>1, <2>3, <2>4, <2>5, <2>6 DEF Serial!Next
<1>4. QED
  BY <1>1, <1>2, <1>3, StepIs

\* However sessions' changes, merges and reverts interleave, deadlock or roll
\* back, what a reader of the tables and of the history sees is one change at a
\* time, done at once to the rows as they are then, and told by its history row.
THEOREM HistoryRefined == Spec => HistorySpec
<1>1. Init => Serial!Init
  BY DEF Init, Serial!Init
<1>2. TellsInv /\ [Next]_vars => [Serial!Next]_<<world, changes>>
  BY HistoryStep
<1>3. QED
  BY <1>1, <1>2, TellsHold, PTL DEF Spec, HistorySpec, Serial!Spec
=============================================================================
