------------------------------- MODULE Stream -------------------------------
(***************************************************************************)
(* A Member's campaign event stream, end to end: the grant and its         *)
(* publishes (access/grants.py), the close watch (grant_watch), the        *)
(* listener (core/pubsub.py), the viewer's filter (access/events.py), the  *)
(* bounded response (core/sse.py) and the client that refetches            *)
(* (frontend/src/hooks/useCampaignEvents.ts).                              *)
(*                                                                         *)
(* One Member, who has one stream at a time, and one row of the Campaign;  *)
(* the GM edits, hides and deletes the row and changes the Member's grant. *)
(* A query, a Valkey command, a frame and a refetch each take effect at a  *)
(* step of their own; commits and their publishes are apart.               *)
(***************************************************************************)
EXTENDS Naturals, Sequences, FiniteSets

CONSTANTS
    Changes,    \* what the GM does: "edit", "hide", "delete", "role", "remove", "invite"
    MaxChanges, \* bound on how often
    QueueMax,   \* SSE_QUEUE_MAX
    Faults,     \* the disturbances a run allows
    MaxFaults   \* bound on how many of them happen

ASSUME StreamAssumption ==
    /\ MaxChanges \in Nat
    /\ QueueMax \in Nat \ {0}
    /\ MaxFaults \in Nat

VARIABLES
    \* Postgres
    row, grant, invites,
    \* publishes of committed changes that are still to run
    due, grantDue,
    \* the server's side of the connection
    spc, ctx,
    wpc, wchan, wmsg,      \* grant_watch, its channel, a message waiting there
    lchan, inbox, queue,   \* the listener, its messages, the response's queue
    announced,             \* `subscribed` was queued
    \* the client
    cpc, net, fetch, copy,
    \* history
    lost,      \* an invalidation's publish failed
    changes, faults

database == <<row, grant, invites, changes>>
posts    == <<due, grantDue>>
watch    == <<wpc, wchan, wmsg>>
listener == <<lchan, inbox, announced>>
client   == <<cpc, fetch, copy>>
vars == <<database, posts, spc, ctx, watch, listener, queue, client, net, lost, faults>>

NetMax    == 1    \* frames sent that the client has not read
NoGrant   == [id |-> 0, role |-> "none", epoch |-> 0]
Ids       == 1..(MaxChanges + 1)
Version   == 0..(MaxChanges + 1)    \* what the Member's screen shows of the row; 0: nothing
Kinds     == {"keyed", "all"}       \* an invalidation with an id, without
Unasked   == MaxChanges + 2         \* no refetch is under way
Unread    == MaxChanges + 3         \* a refetch the server has not read yet

GrantOK(g) ==
    \/ g = NoGrant
    \/ g \in [id : 1..invites, role : {"player", "gm"}, epoch : Nat]

DatabaseOK ==
    /\ changes \in 0..MaxChanges
    /\ row \in [ver : 1..(changes + 1), st : {"party", "gm", "deleted"}]
    /\ invites \in 1..(changes + 1)
    /\ GrantOK(grant)

PostsOK ==
    /\ due \in [Kinds -> Nat] /\ grantDue \in [Ids -> Nat]
    /\ faults \in 0..MaxFaults

WatchOK ==
    /\ GrantOK(ctx)
    /\ wpc \in {"start", "poll", "wait", "changed", "silent"}
    /\ wchan \in {"none", "sent", "live"}

ListenerOK ==
    /\ lchan \in {"none", "sent", "live", "over"}
    /\ inbox \in Seq(Kinds)

FramesOK ==
    /\ queue \in Seq({"subscribed", "invalidate"}) /\ Len(queue) <= QueueMax
    /\ net \in Seq({"subscribed", "invalidate", "access_changed"}) /\ Len(net) <= NetMax

EndsOK ==
    /\ spc \in {"none", "open", "ended"}
    /\ spc = "none" <=> ctx = NoGrant
    /\ cpc \in {"away", "reading", "stopped"}
    /\ cpc = "reading" => spc # "none"
    /\ fetch \in 0..Unread /\ copy \in Version

FlagsOK == wmsg \in BOOLEAN /\ announced \in BOOLEAN /\ lost \in BOOLEAN

TypeOK == FlagsOK /\ DatabaseOK /\ PostsOK /\ WatchOK /\ ListenerOK /\ FramesOK /\ EndsOK

NoStream ==
    /\ ctx' = NoGrant
    /\ wpc' = "start" /\ wchan' = "none" /\ wmsg' = FALSE
    /\ lchan' = "none" /\ inbox' = <<>> /\ announced' = FALSE
    /\ queue' = <<>>

Init ==
    /\ row = [ver |-> 1, st |-> "party"]
    /\ grant = [id |-> 1, role |-> "player", epoch |-> 0] /\ invites = 1
    /\ due = [k \in Kinds |-> 0] /\ grantDue = [i \in Ids |-> 0]
    /\ spc = "none" /\ ctx = NoGrant
    /\ wpc = "start" /\ wchan = "none" /\ wmsg = FALSE
    /\ lchan = "none" /\ inbox = <<>> /\ announced = FALSE /\ queue = <<>>
    /\ cpc = "away" /\ net = <<>> /\ fetch = Unasked /\ copy = 1
    /\ lost = FALSE /\ changes = 0 /\ faults = 0

Disturb(kind) ==
    /\ kind \in Faults
    /\ faults < MaxFaults
    /\ faults' = faults + 1

\* The registry's rule: a Player sees a Party row that is not deleted.
Visible(role) == role = "gm" \/ row.st = "party"

\* What the Member's requests answer now.
View == IF Visible(grant.role) THEN row.ver ELSE 0

-----------------------------------------------------------------------------
(* The GM's commits                                                        *)

Change(kind) ==
    /\ kind \in Changes
    /\ changes < MaxChanges
    /\ changes' = changes + 1
    /\ UNCHANGED <<spc, ctx, watch, listener, queue, client, net, lost, faults>>

\* apply_change of a field; canon_changed publishes its id.
Edit ==
    /\ Change("edit") /\ row.st # "deleted"
    /\ row' = [row EXCEPT !.ver = @ + 1]
    /\ due' = [due EXCEPT !["keyed"] = @ + 1]
    /\ UNCHANGED <<grant, invites, grantDue>>

\* apply_change(delete_entity): GM only from now on; canon_changed as well.
Delete ==
    /\ Change("delete") /\ row.st # "deleted"
    /\ row' = [row EXCEPT !.st = "deleted"]
    /\ due' = [due EXCEPT !["keyed"] = @ + 1]
    /\ UNCHANGED <<grant, invites, grantDue>>

\* mutant: set_visibility publishes the row's id
VisibilityKeyed == "keyed"

\* _publish_visibility: without an id.
VisibilityMessage == "all"

\* set_visibility, both ways.
SetVisibility ==
    /\ Change("hide") /\ row.st # "deleted"
    /\ row' = [row EXCEPT !.st = IF @ = "gm" THEN "party" ELSE "gm"]
    /\ due' = [due EXCEPT ![VisibilityMessage] = @ + 1]
    /\ UNCHANGED <<grant, invites, grantDue>>

\* change_member_role to the other Role.
ChangeRole ==
    /\ Change("role") /\ grant # NoGrant
    /\ grant' = [id |-> grant.id, role |-> IF grant.role = "gm" THEN "player" ELSE "gm",
                 epoch |-> grant.epoch + 1]
    /\ grantDue' = [grantDue EXCEPT ![grant.id] = @ + 1]
    /\ UNCHANGED <<row, invites, due>>

\* remove_member
Remove ==
    /\ Change("remove") /\ grant # NoGrant
    /\ grant' = NoGrant
    /\ grantDue' = [grantDue EXCEPT ![grant.id] = @ + 1]
    /\ UNCHANGED <<row, invites, due>>

\* The Member joins again: a new grant, with nothing published.
Invite ==
    /\ Change("invite") /\ grant = NoGrant
    /\ grant' = [id |-> invites + 1, role |-> "player", epoch |-> 0]
    /\ invites' = invites + 1
    /\ UNCHANGED <<row, due, grantDue>>

-----------------------------------------------------------------------------
(* The publishes, after the commits                                        *)

\* PUBLISH on the campaign's channel.
Publish(k) ==
    /\ due[k] > 0
    /\ due' = [due EXCEPT ![k] = @ - 1]
    /\ \/ /\ inbox' = IF lchan = "live" THEN Append(inbox, k) ELSE inbox
          /\ UNCHANGED <<lost, faults>>
       \/ Disturb("lose") /\ lost' = TRUE /\ UNCHANGED inbox
    /\ UNCHANGED <<database, grantDue, spc, ctx, watch, lchan, announced, queue, client, net>>

\* _dispatch: the grant's channel, then the `role` invalidation.
PublishGrant(i) ==
    /\ grantDue[i] > 0
    /\ grantDue' = [grantDue EXCEPT ![i] = @ - 1]
    /\ due' = [due EXCEPT !["all"] = @ + 1]
    /\ \/ wmsg' = (wmsg \/ (wchan = "live" /\ ctx.id = i)) /\ UNCHANGED faults
       \/ Disturb("lose") /\ UNCHANGED wmsg
    /\ UNCHANGED <<database, spc, ctx, wpc, wchan, listener, queue, client, net, lost>>

-----------------------------------------------------------------------------
(* The request, and the close watch                                        *)

Refetch == fetch' = Unread

\* The client connects: 404 for no grant stops it for good, with a last
\* refetch; otherwise the stream stands on the grant as it is now.
Connect ==
    /\ cpc = "away" /\ spc = "none"
    /\ IF grant = NoGrant
       THEN cpc' = "stopped" /\ Refetch /\ UNCHANGED <<spc, ctx>>
       ELSE cpc' = "reading" /\ spc' = "open" /\ ctx' = grant /\ UNCHANGED fetch
    /\ UNCHANGED <<database, posts, watch, listener, queue, net, copy, lost, faults>>

ServerSide == UNCHANGED <<database, posts, client, lost>>

\* grant_watch subscribes to the grant's channel (sent, not confirmed);
\* without Valkey it only polls.
WatchStart ==
    /\ spc = "open" /\ wpc = "start"
    /\ wpc' = "poll"
    /\ \/ wchan' = "sent" /\ UNCHANGED faults
       \/ Disturb("deaf") /\ UNCHANGED wchan
    /\ UNCHANGED <<spc, ctx, wmsg, listener, queue, net>> /\ ServerSide

WatchLive ==
    /\ wchan = "sent"
    /\ wchan' = "live"
    /\ UNCHANGED <<spc, ctx, wpc, wmsg, listener, queue, net, faults>> /\ ServerSide

\* mutant: the Role is compared, not the grant
RoleChanged == grant.role # ctx.role

\* _changed: missing, or another role, grant_id or access_epoch.
Changed == grant # ctx

\* One poll; one that cannot run fires the watch.
Poll ==
    /\ spc = "open" /\ wpc = "poll"
    /\ \/ wpc' = (IF Changed THEN "changed" ELSE "wait") /\ UNCHANGED faults
       \/ Disturb("db") /\ wpc' = "silent"
    /\ UNCHANGED <<spc, ctx, wchan, wmsg, listener, queue, net>> /\ ServerSide

\* GRANT_POLL_S passed without a message.
PollDue ==
    /\ spc = "open" /\ wpc = "wait"
    /\ wpc' = "poll"
    /\ UNCHANGED <<spc, ctx, wchan, wmsg, listener, queue, net, faults>> /\ ServerSide

HearGrant ==
    /\ spc = "open" /\ wpc = "wait" /\ wmsg
    /\ wpc' = "changed" /\ wmsg' = FALSE
    /\ UNCHANGED <<spc, ctx, wchan, listener, queue, net, faults>> /\ ServerSide

\* The watch's Valkey connection fails: it only polls from now on.
WatchDeaf ==
    /\ spc = "open" /\ wpc = "wait" /\ wchan # "none"
    /\ Disturb("deaf")
    /\ wchan' = "none" /\ wmsg' = FALSE
    /\ UNCHANGED <<spc, ctx, wpc, listener, queue, net>> /\ ServerSide

-----------------------------------------------------------------------------
(* The listener and the pump                                               *)

\* _listen subscribes, or fails to and ends.
ListenStart ==
    /\ spc = "open" /\ lchan = "none"
    /\ \/ lchan' = "sent" /\ UNCHANGED faults
       \/ Disturb("listen") /\ lchan' = "over"
    /\ UNCHANGED <<spc, ctx, watch, inbox, announced, queue, net>> /\ ServerSide

ListenLive ==
    /\ lchan = "sent"
    /\ lchan' = "live"
    /\ UNCHANGED <<spc, ctx, watch, inbox, announced, queue, net, faults>> /\ ServerSide

\* mutant: a full queue takes one more
RoomForOne == Len(queue) <= QueueMax

HasRoom == Len(queue) < QueueMax

\* put_nowait, or the overflow that ends the stream.
Enqueue(frame) ==
    IF HasRoom THEN queue' = Append(queue, frame) /\ UNCHANGED spc
               ELSE spc' = "ended" /\ UNCHANGED queue

\* `subscribed`, once the server confirmed the SUBSCRIBE.
Announce ==
    /\ spc = "open" /\ lchan = "live" /\ ~announced
    /\ announced' = TRUE
    /\ Enqueue("subscribed")
    /\ UNCHANGED <<ctx, watch, lchan, inbox, net, faults>> /\ ServerSide

\* One message: a GM and an unkeyed one pass, a keyed one passes when the
\* row is visible now; a check that cannot run ends the listener.
Filter ==
    /\ spc = "open" /\ announced /\ lchan = "live" /\ inbox # <<>>
    /\ inbox' = Tail(inbox)
    /\ \/ /\ Head(inbox) = "all" \/ Visible(ctx.role)
          /\ Enqueue("invalidate")
          /\ UNCHANGED <<lchan, faults>>
       \/ /\ Head(inbox) = "keyed" /\ ~Visible(ctx.role)
          /\ UNCHANGED <<spc, queue, lchan, faults>>
       \/ /\ Head(inbox) = "keyed" /\ ctx.role # "gm"
          /\ Disturb("db")
          /\ lchan' = "over"
          /\ UNCHANGED <<spc, queue>>
    /\ UNCHANGED <<ctx, watch, announced, net>> /\ ServerSide

\* Valkey ends the subscription, or never confirms it.
ListenFails ==
    /\ spc = "open" /\ lchan \in {"sent", "live"}
    /\ Disturb("listen")
    /\ lchan' = "over" /\ inbox' = <<>>
    /\ UNCHANGED <<spc, ctx, watch, announced, queue, net>> /\ ServerSide

-----------------------------------------------------------------------------
(* The response                                                            *)

Fired == wpc \in {"changed", "silent"}

Send ==
    /\ spc = "open" /\ ~Fired /\ queue # <<>>
    /\ Len(net) < NetMax
    /\ net' = Append(net, Head(queue))
    /\ queue' = Tail(queue)
    /\ UNCHANGED <<spc, ctx, watch, listener, faults>> /\ ServerSide

\* The client does not read for SEND_TIMEOUT_S.
SendTimesOut ==
    /\ spc = "open" /\ ~Fired /\ queue # <<>> /\ Len(net) = NetMax
    /\ Disturb("slow")
    /\ spc' = "ended"
    /\ UNCHANGED <<ctx, watch, listener, queue, net>> /\ ServerSide

\* The watch fired: `access_changed` where that is what it means and the
\* client reads, then the end; queued frames are dropped.
Close ==
    /\ spc = "open" /\ Fired
    /\ spc' = "ended"
    /\ net' = IF wpc = "changed" /\ Len(net) < NetMax THEN Append(net, "access_changed") ELSE net
    /\ UNCHANGED <<ctx, watch, listener, queue, faults>> /\ ServerSide

\* The listener ended: the response ends once its frames are sent, or at once
\* if the queue has no room for the end.
End ==
    /\ spc = "open" /\ lchan = "over"
    /\ queue = <<>> \/ ~HasRoom
    /\ spc' = "ended"
    /\ UNCHANGED <<ctx, watch, listener, queue, net, faults>> /\ ServerSide

-----------------------------------------------------------------------------
(* The client                                                              *)

\* mutant: `subscribed` is not a reason to refetch
OnlyInvalidations == {"invalidate"}

\* The frames that start the refetch anew (applyFrame).
RefetchFrames == {"subscribed", "invalidate"}

\* A frame; `access_changed` refetches the Role only.
Apply ==
    /\ cpc = "reading" /\ net # <<>>
    /\ net' = Tail(net)
    /\ IF Head(net) \in RefetchFrames THEN Refetch ELSE UNCHANGED fetch
    /\ UNCHANGED <<database, posts, spc, ctx, watch, listener, queue, cpc, copy, lost, faults>>

\* nextStep: it reconnects, after access_changed and after any other end.
SeeEnd ==
    /\ cpc = "reading" /\ spc = "ended" /\ net = <<>>
    /\ cpc' = "away" /\ spc' = "none"
    /\ NoStream
    /\ UNCHANGED <<database, posts, net, fetch, copy, lost, faults>>

\* The connection breaks, for both sides.
Drop ==
    /\ cpc = "reading"
    /\ Disturb("drop")
    /\ cpc' = "away" /\ spc' = "none" /\ net' = <<>>
    /\ NoStream
    /\ UNCHANGED <<database, posts, fetch, copy, lost>>

\* The refetch at the server; a request without a grant fails and the
\* screen keeps what it has.
Answer ==
    /\ fetch = Unread
    /\ fetch' = IF grant = NoGrant THEN Unasked ELSE View
    /\ UNCHANGED <<database, posts, spc, ctx, watch, listener, queue, net, cpc, copy, lost, faults>>

Show ==
    /\ fetch \in Version
    /\ copy' = fetch /\ fetch' = Unasked
    /\ UNCHANGED <<database, posts, spc, ctx, watch, listener, queue, net, cpc, lost, faults>>

-----------------------------------------------------------------------------
GM       == Edit \/ Delete \/ SetVisibility \/ ChangeRole \/ Remove \/ Invite
Watch    == WatchStart \/ WatchLive \/ Poll \/ PollDue \/ HearGrant \/ WatchDeaf
Listen   == ListenStart \/ ListenLive \/ Announce \/ Filter \/ ListenFails
Respond  == Send \/ SendTimesOut \/ Close \/ End
ClientDo == Connect \/ Apply \/ SeeEnd \/ Drop \/ Answer \/ Show

Next ==
    \/ GM
    \/ \E k \in Kinds : Publish(k)
    \/ \E i \in Ids : PublishGrant(i)
    \/ Watch \/ Listen \/ Respond \/ ClientDo

Spec == Init /\ [][Next]_vars

\* Publishes run, tasks of the response and the client run on, requests are
\* answered and periods pass; the GM and the faults need not happen.
Fairness ==
    /\ \A k \in Kinds : WF_vars(Publish(k))
    /\ \A i \in Ids : WF_vars(PublishGrant(i))
    /\ WF_vars(WatchStart) /\ WF_vars(WatchLive) /\ WF_vars(Poll) /\ WF_vars(PollDue)
    /\ WF_vars(ListenStart) /\ WF_vars(ListenLive) /\ WF_vars(Announce) /\ WF_vars(Filter)
    /\ WF_vars(Send) /\ WF_vars(Close) /\ WF_vars(End)
    /\ WF_vars(Connect) /\ WF_vars(Apply) /\ WF_vars(SeeEnd) /\ WF_vars(Answer) /\ WF_vars(Show)

FairSpec == Spec /\ Fairness

-----------------------------------------------------------------------------
(* Properties                                                              *)

\* Whether a published message makes the Member's client refetch.
Useful(k) == k = "all" \/ Visible(ctx.role)

\* What still leads the client to a refetch.
RefetchComes ==
    \/ cpc = "away" \/ spc = "ended" \/ Fired \/ lchan = "over" \/ ~announced
    \/ grant # ctx
    \/ queue # <<>>
    \/ \E i \in DOMAIN net : net[i] # "access_changed"
    \/ \E i \in DOMAIN inbox : Useful(inbox[i])
    \/ \E k \in Kinds : due[k] > 0 /\ Useful(k)
    \/ \E i \in Ids : grantDue[i] > 0
    \/ fetch = Unread

UpToDate == copy = View \/ fetch = View \/ cpc = "stopped" \/ lost \/ RefetchComes

\* While no invalidation's publish fails, a screen that does not show what
\* the Member may see now is about to be refetched: no gap between a read, a
\* SUBSCRIBE, its announcement, a reconnect, a role change and the filter's
\* own read of the row loses a change ("reconnect, `subscribed`, refetch").
FreshOrRefetched == row.st # "deleted" => UpToDate

\* ... so that in the end the screen is fresh, unless the client was told 404.
EndsFresh == <>[](copy = View \/ row.st = "deleted" \/ cpc = "stopped" \/ lost)

\* A stream never outlives the grant it stands on, though every publish of
\* the change be lost and the Role be the same again: a poll finds it.
EndsWithGrant == (spc = "open" /\ grant # ctx) ~> spc # "open"

-----------------------------------------------------------------------------
(* Inductive invariant, for the proofs                                     *)

\* FreshOrRefetched, where an answer on its way that is older than the screen
\* does not count: nothing would replace it.
FreshInv ==
    /\ spc = "none" => lchan = "none"
    /\ lchan \in {"none", "sent"} => ~announced
    /\ \/ row.st = "deleted" \/ cpc = "stopped" \/ lost
       \/ fetch = View
       \/ fetch = Unasked /\ copy = View
       \/ RefetchComes

=============================================================================
