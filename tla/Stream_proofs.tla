---------------------------- MODULE Stream_proofs ----------------------------
(***************************************************************************)
(* Theorems about Stream for every set and number of changes, every queue  *)
(* length and every number of disturbances; and about Throttle, which says *)
(* when the messages a stream listens for are published, for every number  *)
(* of publishes of one process and of disturbances.                        *)
(***************************************************************************)
EXTENDS Stream, SequenceTheorems, FiniteSetTheorems, TLAPS

\* What a request answers is a version the screen can show.
LEMMA ViewTypes == TypeOK => View \in Version
BY StreamAssumption DEF TypeOK, DatabaseOK, View, Version

\* The members of a sequence that lost its head ...
LEMMA TailMember ==
    ASSUME NEW S, NEW s \in Seq(S), s # <<>>, NEW i \in DOMAIN s, i # 1
    PROVE  (i - 1) \in DOMAIN Tail(s) /\ Tail(s)[i - 1] = s[i]
BY HeadTailProperties, LenProperties

\* ... or got one more at its end.
LEMMA AppendMember ==
    ASSUME NEW S, NEW s \in Seq(S), NEW e \in S
    PROVE  /\ \A i \in DOMAIN s : i \in DOMAIN Append(s, e) /\ Append(s, e)[i] = s[i]
           /\ Len(s) + 1 \in DOMAIN Append(s, e) /\ Append(s, e)[Len(s) + 1] = e
BY AppendProperties, LenProperties

\* Every variable keeps its type: in particular the response's queue and what
\* is sent and unread never outgrow their bounds.
THEOREM TypeCorrect == Spec => []TypeOK
<1>1. Init => TypeOK
  <2> SUFFICES ASSUME Init PROVE TypeOK
    OBVIOUS
  <2> USE StreamAssumption DEF Init
  <2>0. FlagsOK
    BY Zenon DEF FlagsOK
  <2>1. DatabaseOK /\ WatchOK
    BY DEF DatabaseOK, WatchOK, GrantOK, NoGrant
  <2>2. PostsOK
    BY DEF PostsOK
  <2>3. ListenerOK /\ FramesOK
    BY EmptySeq DEF ListenerOK, FramesOK, NetMax
  <2>4. EndsOK
    BY DEF EndsOK, NoGrant, Unasked, Unread, Version
  <2>5. QED
    BY <2>0, <2>1, <2>2, <2>3, <2>4 DEF TypeOK
<1>2. TypeOK /\ [Next]_vars => TypeOK'
  <2> SUFFICES ASSUME TypeOK, [Next]_vars PROVE TypeOK'
    OBVIOUS
  <2> USE StreamAssumption DEF TypeOK
  <2>0. FlagsOK'
    <3>1. wmsg' \in BOOLEAN
      BY Zenon DEF FlagsOK, Next, vars, GM, Change, Watch, Listen, Respond, ClientDo, Edit, Delete, SetVisibility,
            ChangeRole, Remove, Invite, Publish, PublishGrant, WatchStart, WatchLive, Poll, PollDue, HearGrant,
            WatchDeaf, ListenStart, ListenLive, Announce, Filter, ListenFails, Send, SendTimesOut, Close, End,
            Connect, Apply, SeeEnd, Drop, Answer, Show, NoStream, ServerSide, watch
    <3>2. announced' \in BOOLEAN
      BY Zenon DEF FlagsOK, Next, vars, GM, Change, Watch, Listen, Respond, ClientDo, Edit, Delete, SetVisibility,
            ChangeRole, Remove, Invite, Publish, PublishGrant, WatchStart, WatchLive, Poll, PollDue, HearGrant,
            WatchDeaf, ListenStart, ListenLive, Announce, Filter, ListenFails, Send, SendTimesOut, Close, End,
            Connect, Apply, SeeEnd, Drop, Answer, Show, NoStream, ServerSide, listener
    <3>3. lost' \in BOOLEAN
      BY Zenon DEF FlagsOK, Next, vars, GM, Change, Watch, Listen, Respond, ClientDo, Edit, Delete, SetVisibility,
            ChangeRole, Remove, Invite, Publish, PublishGrant, WatchStart, WatchLive, Poll, PollDue, HearGrant,
            WatchDeaf, ListenStart, ListenLive, Announce, Filter, ListenFails, Send, SendTimesOut, Close, End,
            Connect, Apply, SeeEnd, Drop, Answer, Show, NoStream, ServerSide
    <3>4. QED
      BY <3>1, <3>2, <3>3 DEF FlagsOK
  <2>1. CASE GM
    <3> USE DEF Change, watch, listener, client
    <3>1. PostsOK'
      <4>1. grant # NoGrant => grant.id \in Ids
        BY DEF DatabaseOK, GrantOK, Ids
      <4>2. QED
        BY <2>1, <4>1 DEF GM, Edit, Delete, SetVisibility, VisibilityMessage, ChangeRole, Remove, Invite,
                          PostsOK, Kinds
    <3>2. DatabaseOK'
      <4>1. CASE Edit
        BY <4>1 DEF Edit, DatabaseOK, GrantOK
      <4>2. CASE Delete
        BY <4>2 DEF Delete, DatabaseOK, GrantOK
      <4>3. CASE SetVisibility
        BY <4>3 DEF SetVisibility, DatabaseOK, GrantOK
      <4>4. CASE ChangeRole
        <5>1. grant \in [id : 1..invites, role : {"player", "gm"}, epoch : Nat]
          BY <4>4 DEF ChangeRole, DatabaseOK, GrantOK
        <5>2. grant' \in [id : 1..invites, role : {"player", "gm"}, epoch : Nat]
          BY <4>4, <5>1 DEF ChangeRole
        <5>3. GrantOK(grant)'
          BY <4>4, <5>2 DEF ChangeRole, GrantOK
        <5>4. /\ changes' \in 0..MaxChanges /\ invites' \in 1..(changes' + 1)
              /\ row' \in [ver : 1..(changes' + 1), st : {"party", "gm", "deleted"}]
          BY <4>4 DEF ChangeRole, DatabaseOK
        <5>5. QED
          BY <5>3, <5>4 DEF DatabaseOK
      <4>5. CASE Remove \/ Invite
        BY <4>5 DEF Remove, Invite, DatabaseOK, GrantOK
      <4>6. QED
        BY <2>1, <4>1, <4>2, <4>3, <4>4, <4>5 DEF GM
    <3>3. WatchOK' /\ EndsOK'
      BY <2>1 DEF GM, Edit, Delete, SetVisibility, ChangeRole, Remove, Invite, DatabaseOK, WatchOK, EndsOK, GrantOK
    <3>4. ListenerOK' /\ FramesOK'
      BY <2>1 DEF GM, Edit, Delete, SetVisibility, ChangeRole, Remove, Invite, ListenerOK, FramesOK
    <3>5. QED
      BY <2>0, <3>1, <3>2, <3>3, <3>4
  <2>2. ASSUME NEW k \in Kinds, Publish(k) PROVE TypeOK'
    <3>1. DatabaseOK' /\ WatchOK' /\ FramesOK' /\ EndsOK'
      BY <2>2 DEF Publish, DatabaseOK, WatchOK, FramesOK, EndsOK, GrantOK, database, watch, client
    <3>2. ListenerOK'
      BY <2>2, AppendProperties DEF Publish, ListenerOK
    <3>3. PostsOK'
      <4>1. due[k] \in Nat /\ due[k] > 0
        BY <2>2 DEF Publish, PostsOK
      <4>2. due' \in [Kinds -> Nat] /\ grantDue' \in [Ids -> Nat]
        BY <2>2, <4>1 DEF Publish, PostsOK
      <4>3. faults' \in 0..MaxFaults
        BY <2>2 DEF Publish, PostsOK, Disturb
      <4>4. QED
        BY <4>2, <4>3 DEF PostsOK
    <3>4. QED
      BY <2>0, <3>1, <3>2, <3>3
  <2>3. ASSUME NEW i \in Ids, PublishGrant(i) PROVE TypeOK'
    <3>1. DatabaseOK' /\ ListenerOK' /\ FramesOK' /\ EndsOK'
      BY <2>3 DEF PublishGrant, DatabaseOK, ListenerOK, FramesOK, EndsOK, GrantOK, database, listener, client
    <3>2. WatchOK'
      BY <2>3 DEF PublishGrant, WatchOK, GrantOK, database
    <3>3. PostsOK'
      BY <2>3 DEF PublishGrant, PostsOK, Kinds, Disturb
    <3>4. QED
      BY <2>0, <3>1, <3>2, <3>3
  <2>4. CASE Watch
    <3> USE DEF Watch, WatchStart, WatchLive, Poll, PollDue, HearGrant, WatchDeaf, ServerSide
    <3>1. DatabaseOK' /\ EndsOK'
      BY <2>4 DEF DatabaseOK, EndsOK, GrantOK, database, client
    <3>2. ListenerOK' /\ FramesOK'
      BY <2>4 DEF ListenerOK, FramesOK, listener
    <3>3. WatchOK'
      BY <2>4 DEF WatchOK, GrantOK, database
    <3>4. PostsOK'
      BY <2>4 DEF PostsOK, posts, Disturb
    <3>5. QED
      BY <2>0, <3>1, <3>2, <3>3, <3>4
  <2>5. CASE Listen
    <3> USE DEF Listen, ListenStart, ListenLive, Announce, Filter, ListenFails, ServerSide
    <3>1. DatabaseOK' /\ WatchOK'
      BY <2>5 DEF DatabaseOK, WatchOK, GrantOK, database, watch
    <3>2. PostsOK'
      BY <2>5 DEF PostsOK, posts, Disturb
    <3>3. ListenerOK'
      BY <2>5, HeadTailProperties, EmptySeq DEF ListenerOK
    <3>4. FramesOK'
      <4>1. ASSUME NEW frame \in {"subscribed", "invalidate"}, Enqueue(frame)
            PROVE  queue' \in Seq({"subscribed", "invalidate"}) /\ Len(queue') <= QueueMax
        <5>1. Len(queue) \in Nat
          BY LenProperties DEF FramesOK
        <5>2. QED
          BY <4>1, <5>1, AppendProperties DEF FramesOK, Enqueue, HasRoom
      <4>2. queue' \in Seq({"subscribed", "invalidate"}) /\ Len(queue') <= QueueMax
        BY <2>5, <4>1 DEF FramesOK
      <4>3. QED
        BY <2>5, <4>2 DEF FramesOK
    <3>5. EndsOK'
      BY <2>5 DEF EndsOK, Enqueue, client
    <3>6. QED
      BY <2>0, <3>1, <3>2, <3>3, <3>4, <3>5
  <2>6. CASE Respond
    <3> USE DEF Respond, Send, SendTimesOut, Close, End, ServerSide
    <3>1. DatabaseOK' /\ WatchOK'
      BY <2>6 DEF DatabaseOK, WatchOK, GrantOK, database, watch
    <3>2. PostsOK'
      BY <2>6 DEF PostsOK, posts, Disturb
    <3>3. ListenerOK'
      BY <2>6 DEF ListenerOK, listener
    <3>4. FramesOK'
      <4>1. CASE Send
        <5>1. /\ Head(queue) \in {"subscribed", "invalidate"}
              /\ Tail(queue) \in Seq({"subscribed", "invalidate"}) /\ Len(Tail(queue)) = Len(queue) - 1
          BY <4>1, HeadTailProperties DEF FramesOK
        <5>2. Len(queue) \in Nat /\ Len(net) \in Nat
          BY LenProperties DEF FramesOK
        <5>3. QED
          BY <4>1, <5>1, <5>2, AppendProperties DEF FramesOK, NetMax
      <4>2. CASE Close
        BY <4>2, AppendProperties DEF FramesOK, NetMax
      <4>3. QED
        BY <2>6, <4>1, <4>2 DEF FramesOK
    <3>5. EndsOK'
      BY <2>6 DEF EndsOK, client
    <3>6. QED
      BY <2>0, <3>1, <3>2, <3>3, <3>4, <3>5
  <2>7. CASE ClientDo
    <3> USE DEF ClientDo, Connect, Apply, SeeEnd, Drop, Answer, Show, NoStream
    <3>1. DatabaseOK'
      BY <2>7 DEF DatabaseOK, GrantOK, database
    <3>2. PostsOK'
      BY <2>7 DEF PostsOK, posts, Disturb
    <3>3. WatchOK'
      BY <2>7 DEF WatchOK, DatabaseOK, GrantOK, watch, database
    <3>4. ListenerOK'
      BY <2>7, EmptySeq DEF ListenerOK, listener
    <3>5. FramesOK'
      <4>1. CASE Apply
        <5>1. /\ Tail(net) \in Seq({"subscribed", "invalidate", "access_changed"})
              /\ Len(Tail(net)) = Len(net) - 1 /\ Len(net) \in Nat
          BY <4>1, HeadTailProperties, LenProperties DEF FramesOK
        <5>2. QED
          BY <4>1, <5>1 DEF FramesOK, NetMax, listener
      <4>2. CASE SeeEnd \/ Drop
        <5>1. net' = <<>> /\ queue' = <<>>
          BY <4>2
        <5>2. QED
          BY <5>1, EmptySeq DEF FramesOK, NetMax
      <4>3. CASE Connect \/ Answer \/ Show
        BY <4>3 DEF FramesOK
      <4>4. QED
        BY <2>7, <4>1, <4>2, <4>3
    <3>6. EndsOK'
      BY <2>7, ViewTypes DEF EndsOK, Refetch, Unread, Unasked, Version
    <3>7. QED
      BY <2>0, <3>1, <3>2, <3>3, <3>4, <3>5, <3>6
  <2>8. CASE UNCHANGED vars
    BY <2>0, <2>8 DEF vars, DatabaseOK, PostsOK, WatchOK, ListenerOK, FramesOK, EndsOK, GrantOK,
                database, posts, watch, listener, client
  <2>9. QED
    BY <2>1, <2>2, <2>3, <2>4, <2>5, <2>6, <2>7, <2>8 DEF Next
<1>3. QED
  BY <1>1, <1>2, PTL DEF Spec

-----------------------------------------------------------------------------
\* What FreshInv asks of a state, with the cases that a step has to keep apart.
LEMMA FreshInvInductive ==
    ASSUME TypeOK, FreshInv, [Next]_vars
    PROVE  FreshInv'
<1> USE StreamAssumption DEF TypeOK, FreshInv, RefetchComes, View, Visible, Useful, Fired
<1>1. CASE Edit
  BY <1>1 DEF Edit, Change, DatabaseOK, PostsOK, WatchOK, Kinds, watch, listener, client
<1>2. CASE Delete
  BY <1>2 DEF Delete, Change, DatabaseOK, watch, listener, client
<1>3. CASE SetVisibility
  BY <1>3 DEF SetVisibility, VisibilityMessage, Change, PostsOK, Kinds, watch, listener, client
<1>4. CASE ChangeRole
  <2>1. grant.id \in Ids
    BY <1>4 DEF ChangeRole, DatabaseOK, GrantOK, Ids
  <2>2. grantDue'[grant.id] > 0
    BY <1>4, <2>1 DEF ChangeRole, PostsOK
  <2>3. RefetchComes'
    BY <2>1, <2>2
  <2> HIDE DEF RefetchComes, View
  <2>4. QED
    BY <1>4, <2>3 DEF ChangeRole, Change, listener
<1>5. CASE Remove
  BY <1>5 DEF Remove, Change, DatabaseOK, GrantOK, PostsOK, Ids, watch, listener, client
<1>6. CASE Invite
  BY <1>6 DEF Invite, Change, DatabaseOK, WatchOK, EndsOK, GrantOK, watch, listener, client
<1>7. ASSUME NEW k \in Kinds, Publish(k) PROVE FreshInv'
  <2>1. /\ UNCHANGED <<row, grant, grantDue, spc, ctx, wpc, lchan, announced, queue, cpc, fetch, copy, net>>
        /\ \A j \in Kinds \ {k} : due'[j] = due[j]
    BY <1>7 DEF Publish, PostsOK, database, watch, client
  <2>2. View' = View /\ \A j : Useful(j)' <=> Useful(j)
    BY <2>1
  <2> HIDE DEF View
  <2>3. CASE lost' = TRUE
    BY <2>1, <2>3
  <2>4. CASE lchan = "live" /\ inbox' = Append(inbox, k) /\ UNCHANGED lost
    <3>1. \A i \in DOMAIN inbox : i \in DOMAIN inbox' /\ inbox'[i] = inbox[i]
      BY <2>4, AppendMember DEF ListenerOK
    <3>2. Len(inbox) + 1 \in DOMAIN inbox' /\ inbox'[Len(inbox) + 1] = k
      BY <2>4, AppendMember DEF ListenerOK
    <3>3. (\E j \in Kinds : due[j] > 0 /\ Useful(j)) =>
            \/ \E j \in Kinds : due'[j] > 0 /\ Useful(j)'
            \/ \E i \in DOMAIN inbox' : Useful(inbox[i])'
      <4> SUFFICES ASSUME NEW j \in Kinds, due[j] > 0, Useful(j)
                   PROVE  \/ \E l \in Kinds : due'[l] > 0 /\ Useful(l)'
                          \/ \E i \in DOMAIN inbox' : Useful(inbox[i])'
        OBVIOUS
      <4>1. CASE j = k
        BY <4>1, <2>2, <3>2
      <4>2. CASE j # k
        BY <4>2, <2>1, <2>2
      <4>3. QED
        BY <4>1, <4>2
    <3>4. (\E i \in DOMAIN inbox : Useful(inbox[i])) => \E i \in DOMAIN inbox' : Useful(inbox[i])'
      BY <2>2, <3>1
    <3>5. QED
      BY <2>1, <2>2, <2>4, <3>3, <3>4
  <2>5. CASE lchan # "live" /\ UNCHANGED lost
    BY <2>1, <2>2, <2>5 DEF ListenerOK
  <2> HIDE DEF FreshInv
  <2>6. \/ lost' = TRUE
        \/ UNCHANGED lost /\ lchan = "live" /\ inbox' = Append(inbox, k)
        \/ UNCHANGED lost /\ lchan # "live"
    BY <1>7, SMT DEF Publish, Disturb
  <2>7. QED
    BY <2>3, <2>4, <2>5, <2>6
<1>8. ASSUME NEW i \in Ids, PublishGrant(i) PROVE FreshInv'
  BY <1>8 DEF PublishGrant, PostsOK, Kinds, database, listener, client
<1>9. CASE Watch
  BY <1>9 DEF Watch, WatchStart, WatchLive, Poll, PollDue, HearGrant, WatchDeaf, ServerSide,
              database, posts, listener, client
<1>10. CASE ListenStart \/ ListenLive \/ ListenFails
  BY <1>10 DEF ListenStart, ListenLive, ListenFails, ServerSide, database, posts, watch, client
<1>11. CASE Announce
  BY <1>11, AppendMember DEF Announce, Enqueue, ServerSide, FramesOK, database, posts, watch, client
<1>12. CASE Filter
  <2>1. /\ UNCHANGED <<row, grant, due, grantDue, ctx, wpc, announced, cpc, fetch, copy, lost, net>>
        /\ announced /\ lchan = "live" /\ inbox' = Tail(inbox)
    BY <1>12 DEF Filter, ServerSide, database, posts, watch, client
  <2>2. View' = View /\ \A j : Useful(j)' <=> Useful(j)
    BY <2>1
  <2>3. CASE Enqueue("invalidate") /\ UNCHANGED lchan
    <3>1. CASE spc' = "ended"
      BY <2>1, <2>3, <3>1
    <3>2. CASE queue' = Append(queue, "invalidate") /\ UNCHANGED spc
      <4>1. queue' # <<>>
        BY <3>2, AppendProperties DEF FramesOK
      <4>2. QED
        BY <2>1, <2>3, <3>2, <4>1
    <3>3. QED
      BY <1>12, <2>3, <3>1, <3>2 DEF Filter, Enqueue
  <2>4. CASE Head(inbox) = "keyed" /\ ~Visible(ctx.role) /\ UNCHANGED <<spc, queue, lchan>>
    <3>1. inbox[1] = Head(inbox) /\ ~Useful(Head(inbox))
      BY <2>4
    <3>2. \A i \in DOMAIN inbox : i # 1 => (i - 1) \in DOMAIN inbox' /\ inbox'[i - 1] = inbox[i]
      BY <1>12, TailMember DEF ListenerOK, Filter
    <3> HIDE DEF View
    <3>3. (\E i \in DOMAIN inbox : Useful(inbox[i])) => \E i \in DOMAIN inbox' : Useful(inbox[i])'
      BY <2>2, <3>1, <3>2
    <3>4. QED
      BY <2>1, <2>2, <2>4, <3>3
  <2>5. CASE lchan' = "over" /\ UNCHANGED spc
    BY <2>1, <2>5
  <2> HIDE DEF FreshInv
  <2>6. QED
    BY <1>12, <2>3, <2>4, <2>5 DEF Filter
<1>13. CASE Send
  BY <1>13, AppendMember, HeadTailProperties DEF Send, ServerSide, FramesOK, database, posts, watch, listener, client
<1>14. CASE SendTimesOut \/ Close \/ End
  BY <1>14 DEF SendTimesOut, Close, End, ServerSide, database, posts, watch, listener, client
<1>15. CASE Connect
  BY <1>15 DEF Connect, database, posts, watch, listener
<1>16. CASE Apply
  <2> USE <1>16 DEF Apply, database, posts, watch, listener
  <2>1. CASE Head(net) \in RefetchFrames
    BY <2>1 DEF Refetch
  <2>2. CASE Head(net) \notin RefetchFrames
    <3>1. net[1] = Head(net) /\ Head(net) = "access_changed"
      BY <2>2, HeadTailProperties DEF FramesOK, RefetchFrames
    <3>2. \A i \in DOMAIN net : i # 1 => (i - 1) \in DOMAIN net' /\ net'[i - 1] = net[i]
      BY TailMember DEF FramesOK
    <3>3. (\E i \in DOMAIN net : net[i] # "access_changed") => \E i \in DOMAIN net' : net'[i] # "access_changed"
      BY <3>1, <3>2
    <3>4. QED
      BY <2>2, <3>3
  <2>3. QED
    BY <2>1, <2>2
<1>17. CASE SeeEnd \/ Drop
  BY <1>17 DEF SeeEnd, Drop, NoStream, database, posts
<1>18. CASE Answer
  BY <1>18 DEF Answer, EndsOK, database, posts, watch, listener
<1>19. CASE Show
  BY <1>19 DEF Show, Unasked, Unread, Version, database, posts, watch, listener
<1>20. CASE UNCHANGED vars
  BY <1>20 DEF vars, database, posts, watch, listener, client
<1>21. QED
  BY <1>1, <1>2, <1>3, <1>4, <1>5, <1>6, <1>7, <1>8, <1>9, <1>10, <1>11, <1>12, <1>13, <1>14, <1>15,
     <1>16, <1>17, <1>18, <1>19, <1>20 DEF Next, GM, Listen, Respond, ClientDo

\* No change of a row that is not deleted is lost on its way to a screen,
\* whatever reconnects, polls, filters and races come between (access/events.py,
\* core/pubsub.py, core/sse.py, useCampaignEvents.ts), while publishes succeed.
THEOREM FreshOrRefetchedHolds == Spec => []FreshOrRefetched
<1>1. Init => FreshInv
  BY DEF Init, FreshInv, RefetchComes
<1>2. TypeOK /\ FreshInv /\ [Next]_vars => FreshInv'
  BY FreshInvInductive
<1>3. TypeOK /\ FreshInv => FreshOrRefetched
  BY DEF FreshInv, FreshOrRefetched, UpToDate
<1>4. QED
  BY TypeCorrect, <1>1, <1>2, <1>3, PTL DEF Spec

-----------------------------------------------------------------------------
(* The throttled publishes.                                                *)

CONSTANTS Call, Process, Home, Status
VARIABLES pc, value, trail, stopped, window, outgoing, sent, covered, overlapped
T == INSTANCE Throttle

\* An instance has its own names for the size of a set.
LEMMA SameSizes ==
    ASSUME NEW S
    PROVE  (T!IsFiniteSet(S) <=> IsFiniteSet(S)) /\ T!Cardinality(S) = Cardinality(S)
<1>1. T!IsFiniteSet(S) <=> IsFiniteSet(S)
  BY DEF T!IsFiniteSet, IsFiniteSet
<1>2. T!Cardinality(S) = Cardinality(S)
  BY DEF T!Cardinality, Cardinality
<1> QED BY <1>1, <1>2

\* What a publish is numbered with.
LEMMA NewValue ==
    ASSUME T!ThrottleAssumption
    PROVE  T!Cardinality(T!Started) + 1 \in Nat /\ T!Cardinality(T!Started) + 1 > 0
<1>1. IsFiniteSet(Call)
  BY SameSizes DEF T!ThrottleAssumption
<1>2. Cardinality(T!Started) \in Nat
  BY <1>1, FS_Subset, FS_CardinalityType DEF T!Started
<1> QED BY <1>2, SameSizes

\* Each step keeps it: a publish ends with a message or a trail, and what removes
\* a trail sends one or gives way to a publish that will.
LEMMA AnnounceStep ==
    ASSUME T!ThrottleAssumption, NEW p \in Process, Process = {p}, T!AnnounceInv, [T!Next]_T!vars
    PROVE  T!AnnounceInv'
<1> USE DEF T!AnnounceInv, T!Numbered, T!GivesWay
<1>1. \A c \in Call : Home[c] = p
  BY DEF T!ThrottleAssumption
<1>0. T!Cardinality(T!Started) + 1 \in Nat /\ T!Cardinality(T!Started) + 1 > 0
  BY NewValue
<1>2. ASSUME NEW c \in Call, T!Publish(c) PROVE T!AnnounceInv'
  BY <1>2, <1>0 DEF T!Publish, T!Types, T!NothingUnannounced
<1>3. ASSUME NEW c \in Call, T!PublishStatus(c) PROVE T!AnnounceInv'
  BY <1>1, <1>3, <1>0 DEF T!PublishStatus, T!Types, T!NoTrail, T!NothingUnannounced
<1>4. ASSUME NEW c \in Call, T!Acquire(c) PROVE T!AnnounceInv'
  <2>1. T!Types'
    <3>1. window' \in BOOLEAN /\ faults' \in Nat
      <4>1. window' = TRUE \/ window' = window
        BY <1>4, Zenon DEF T!Acquire, T!TakeWindow
      <4>2. faults' = faults \/ faults' = faults + 1
        BY <1>4, Zenon DEF T!Acquire, T!Disturb
      <4>3. window' \in BOOLEAN
        BY <4>1, Zenon DEF T!Types
      <4>4. faults' \in Nat
        BY <4>2 DEF T!Types
      <4> QED BY <4>3, <4>4
    <3>2. /\ \E st \in {"won", "refused", "over"} : pc' = [pc EXCEPT ![c] = st]
          /\ UNCHANGED <<value, trail>>
      BY <1>4 DEF T!Acquire
    <3> QED BY <3>1, <3>2 DEF T!Types
  <2>2. T!Numbered'
    BY <1>4 DEF T!Acquire, T!TakeWindow, T!Disturb, T!Types
  <2>3. T!GivesWay'
    BY <1>4 DEF T!Acquire, T!TakeWindow, T!Disturb, T!Types
  <2>4. T!NothingUnannounced'
    BY <1>4 DEF T!Acquire, T!TakeWindow, T!Disturb, T!Types, T!NothingUnannounced
  <2> QED BY <2>1, <2>2, <2>3, <2>4
<1>5. ASSUME NEW c \in Call, T!Lead(c) PROVE T!AnnounceInv'
  BY <1>1, <1>5 DEF T!Lead, T!Types, T!NoTrail, T!NothingUnannounced, T!history
<1>6. ASSUME NEW c \in Call, T!Follow(c) PROVE T!AnnounceInv'
  BY <1>1, <1>6 DEF T!Follow, T!TrailMessage, T!Types, T!NothingUnannounced, T!history
<1>7. ASSUME T!Sleep(p) PROVE T!AnnounceInv'
  BY <1>7 DEF T!Sleep, T!Types, T!NothingUnannounced, T!history
<1>8. ASSUME T!Wake(p) PROVE T!AnnounceInv'
  <2>1. T!Types'
    BY <1>8 DEF T!Wake, T!TakeWindow, T!history, T!Types, T!ThrottleAssumption
  <2>2. T!Numbered'
    BY <1>8 DEF T!Wake, T!TakeWindow, T!history, T!Types
  <2>3. T!GivesWay'
    <3>1. /\ trail[p].st = "awake" /\ trail'[p].msg = trail[p].msg
          /\ trail'[p].st = IF window THEN "refused" ELSE "won"
          /\ pc' = pc /\ faults' = faults
      <4>1. PICK got \in BOOLEAN : /\ got = ~window
                                  /\ trail' = [trail EXCEPT ![p].st = IF got THEN "won" ELSE "refused"]
        BY <1>8, Zenon DEF T!Wake, T!TakeWindow
      <4>2. trail[p].st = "awake" /\ pc' = pc /\ faults' = faults
        BY <1>8, Zenon DEF T!Wake, T!history
      <4>3. CASE window
        BY <4>1, <4>2, <4>3 DEF T!Types
      <4>4. CASE ~window
        BY <4>1, <4>2, <4>4 DEF T!Types
      <4> QED BY <4>3, <4>4
    <3> QED BY <3>1
  <2>4. T!NothingUnannounced'
    BY <1>8 DEF T!Wake, T!TakeWindow, T!history, T!Types, T!NothingUnannounced
  <2> QED BY <2>1, <2>2, <2>3, <2>4
<1>9. ASSUME T!Trail(p) PROVE T!AnnounceInv'
  <2>1. T!Types'
    BY <1>9 DEF T!Trail, T!TrailOver, T!NoTrail, T!history, T!Types, T!ThrottleAssumption
  <2>2. T!Numbered'
    BY <1>9 DEF T!Trail, T!TrailOver, T!NoTrail, T!history, T!Types
  <2>3. T!GivesWay'
    BY <1>9 DEF T!Trail, T!TrailOver, T!NoTrail, T!history, T!Types
  <2>4. T!NothingUnannounced'
    BY <1>9 DEF T!Trail, T!TrailOver, T!NoTrail, T!history, T!Types, T!NothingUnannounced
  <2> QED BY <2>1, <2>2, <2>3, <2>4
<1>10. ASSUME T!TrailFails(p) PROVE T!AnnounceInv'
  BY <1>10 DEF T!TrailFails, T!Disturb, T!NoTrail, T!Types, T!NothingUnannounced
<1>11. ASSUME T!LoopEnds(p) PROVE T!AnnounceInv'
  BY <1>1, <1>11 DEF T!LoopEnds, T!Flushed, T!NoTrail, T!Types, T!NothingUnannounced, T!history
<1>12. ASSUME NEW m \in outgoing, T!Send(m) PROVE T!AnnounceInv'
  BY <1>12 DEF T!Send, T!Disturb, T!Started, T!Types, T!NothingUnannounced
<1>13. CASE T!WindowEnds
  <2>1. T!Types'
    <3>1. \A q \in Process : T!Woken(trail[q]) \in [st : {"none", "new", "sleep", "awake", "won", "refused"}, msg : Nat]
      BY DEF T!Woken, T!Types
    <3> QED BY <1>13, <3>1 DEF T!WindowEnds, T!history, T!Types
  <2>2. T!Numbered'
    BY <1>13 DEF T!WindowEnds, T!Woken, T!history, T!Types
  <2>3. T!GivesWay'
    BY <1>13 DEF T!WindowEnds, T!Woken, T!history, T!Types
  <2>4. T!NothingUnannounced'
    BY <1>13 DEF T!WindowEnds, T!Woken, T!history, T!Types, T!NothingUnannounced
  <2> QED BY <2>1, <2>2, <2>3, <2>4
<1>14. CASE UNCHANGED T!vars
  BY <1>14 DEF T!vars, T!history, T!Types, T!NothingUnannounced
<1> QED BY <1>2, <1>3, <1>4, <1>5, <1>6, <1>7, <1>8, <1>9, <1>10, <1>11, <1>12, <1>13, <1>14 DEF T!Next

\* While Valkey works, no publish of a key by one process goes unannounced: a
\* message follows it, or is on its way, or waits in the trail (pubsub.py,
\* _throttled, _run_trail, flush_pending).  Of two processes this is false: a
\* publish may be refused the window that the other process took, and give its
\* value to a trail that has been refused it too.
THEOREM NothingUnannouncedHolds ==
    ASSUME T!ThrottleAssumption, NEW p \in Process, Process = {p}
    PROVE  T!Spec => []T!NothingUnannounced
<1>1. T!Init => T!AnnounceInv
  <2> SUFFICES ASSUME T!Init PROVE T!AnnounceInv
    OBVIOUS
  <2>1. T!Types
    BY DEF T!Init, T!Types, T!NoTrail
  <2>2. T!NothingUnannounced /\ \A q \in Process : trail[q].st = "none"
    BY DEF T!Init, T!NothingUnannounced, T!NoTrail
  <2> QED BY <2>1, <2>2 DEF T!AnnounceInv, T!Numbered, T!GivesWay, T!Init
<1>2. T!AnnounceInv /\ [T!Next]_T!vars => T!AnnounceInv'
  BY AnnounceStep
<1>3. T!AnnounceInv => T!NothingUnannounced
  BY DEF T!AnnounceInv
<1> QED BY <1>1, <1>2, <1>3, PTL DEF T!Spec
=============================================================================
