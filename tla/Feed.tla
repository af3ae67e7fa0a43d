------------------------------- MODULE Feed -------------------------------
(***************************************************************************)
(* How healing events reach the dashboard: the watchdog POSTs a message    *)
(* after each change of a row, EventsHandler broadcasts it unless a chaos  *)
(* run is active, the broker fans it out, and the page                     *)
(* (sse-provider.tsx) keeps its list of active events from one snapshot,   *)
(* fetched when it is mounted, and the messages that reach it.  A page     *)
(* that reconnects does not fetch again.                                   *)
(*                                                                         *)
(* Both the snapshot and the list have a limit, so with more active events *)
(* than that the page does without the oldest.                             *)
(*                                                                         *)
(* missed is a history variable: the events about which the page may have  *)
(* lost a message, in one of the ways the code accepts, and those that a   *)
(* limit took off it.  About every other event the page must agree with    *)
(* the table.                                                              *)
(***************************************************************************)
EXTENDS Watchdog, SseBroker, Functions

CONSTANTS
  NoClient, NoPost,
  PageLimit,      \* MAX_HEALING_EVENTS, for the page's list (50)
  SnapshotLimit   \* of the rows in the summary (100)

ASSUME FeedAssumption ==
  /\ PageLimit \in Nat \ {0} /\ SnapshotLimit \in Nat \ {0}
  /\ NoClient \notin Clients
  /\ NoPost \notin Messages
  /\ Messages = [event : Events, status : {"active", "acknowledged", "resolved"}]

VARIABLES
  post,       \* the message the watchdog POSTs, until it is answered
  arrived,    \* the API has it
  handling,   \* messages in calls of EventsHandler or Acknowledge
  chaos,      \* a chaos_runs row says 'running'
  during,     \* rows created since it began ...
  hidden,     \* ... and during a completed run: the snapshot leaves both out
  client,     \* the page's connection, NoClient between two
  boot,       \* the page's snapshot: "reading", "answered", "done"
  snapshot,   \* the answer, a list of rows
  since,      \* events the page heard of since the snapshot was read
  shown,      \* activeHealingEvents, a list with what came last in front
  missed

postVars == <<post, arrived, handling>>
chaosVars == <<chaos, during, hidden>>
bootVars == <<boot, snapshot, since>>
pageVars == <<client, bootVars, shown>>
wdRest == <<envVars, rowVars, active, todo, opVars, failures>>
feedVars == <<postVars, chaosVars, pageVars, missed, brokerVars>>
allVars == <<wdVars, feedVars>>

Msg(e, status) == [event |-> e, status |-> status]

FeedTypeOK ==
  /\ BrokerTypeOK
  /\ post \in Messages \cup {NoPost}
  /\ arrived \in BOOLEAN /\ (arrived => post # NoPost)
  /\ handling \in SUBSET Messages
  /\ chaos \in BOOLEAN
  /\ client \in subscribers \cup {NoClient}
  /\ boot \in {"reading", "answered", "done"}
  /\ {during, hidden, since, missed} \subseteq SUBSET Events
  /\ {snapshot, shown} \subseteq Seq(Events)
  /\ IsInjective(snapshot) /\ IsInjective(shown)

FeedInit ==
  /\ Init /\ BrokerInit
  /\ post = NoPost /\ arrived = FALSE /\ handling = {}
  /\ chaos = FALSE /\ during = {} /\ hidden = {}
  /\ client = NoClient
  /\ boot = "reading" /\ snapshot = <<>> /\ since = {}
  /\ shown = <<>> /\ missed = {}

----------------------------------------------------------------------------
(* The watchdog: emit posts between the row and the map entry, resolve     *)
(* after the row; the poll loop waits for the answer.                      *)

EmitAndPost(k) ==
  /\ Emit(k)
  /\ post' = Msg(count + 1, "active")
  /\ during' = IF chaos THEN during \cup {count + 1} ELSE during
  /\ UNCHANGED <<arrived, handling, chaos, hidden, pageVars, missed, brokerVars>>

\* An insert that reports an error is not announced, even if it was done.
EmitUnannounced(k) ==
  /\ EmitError(k)
  /\ during' = IF chaos THEN during \cup ((count + 1)..count') ELSE during
  /\ missed' = missed \cup ((count + 1)..count')
  /\ UNCHANGED <<postVars, chaos, hidden, pageVars, brokerVars>>

\* A resolution that reports an error is not announced, even if it was done.
ResolveAndPost ==
  /\ ResolveHealingEvent
  /\ IF faults' = faults
       THEN post' = Msg(opEvent, "resolved") /\ UNCHANGED missed
       ELSE missed' = missed \cup {opEvent} /\ UNCHANGED post
  /\ UNCHANGED <<arrived, handling, chaosVars, pageVars, brokerVars>>

PollOtherwise ==
  /\ \/ ReconcileActiveState \/ Register
     \/ \E k \in Keys : DetectNothing(k) \/ DetectError(k) \/ Resolve(k)
  /\ UNCHANGED feedVars

WatchdogStep ==
  /\ post = NoPost
  /\ \/ PollOtherwise \/ ResolveAndPost
     \/ \E k \in Keys : EmitAndPost(k) \/ EmitUnannounced(k)

PostArrives ==
  /\ post # NoPost /\ ~arrived
  /\ arrived' = TRUE
  /\ handling' = handling \cup {post}
  /\ UNCHANGED <<wdVars, post, chaosVars, pageVars, missed, brokerVars>>

InProgress(m) == m \in handling \/ \E p \in publishing : p.msg = m

PostAnswered ==
  /\ arrived /\ ~InProgress(post)
  /\ post' = NoPost /\ arrived' = FALSE
  /\ UNCHANGED <<wdVars, handling, chaosVars, pageVars, missed, brokerVars>>

\* The POST does not get through (an error, a 429), or no answer comes within
\* three seconds and the handler goes on by itself.  It is only logged.
PostFails ==
  /\ post # NoPost
  /\ Fault
  /\ post' = NoPost /\ arrived' = FALSE
  /\ missed' = missed \cup {post.event}
  /\ UNCHANGED <<wdRest, handling, chaosVars, pageVars, brokerVars>>

\* The watchdog stops; what it inserted last, or was about to post, may never
\* be announced.
WatchdogRestarts ==
  /\ Restart
  /\ post' = NoPost /\ arrived' = FALSE
  /\ missed' = missed \cup (IF post = NoPost THEN {} ELSE {post.event})
  /\ UNCHANGED <<handling, chaosVars, pageVars, brokerVars>>

----------------------------------------------------------------------------
(* The API.                                                                *)

\* Somebody publishes m: a page that has no connection will not hear of it,
\* and its snapshot, if it has been read, does not know.
Broadcast(m) ==
  /\ Publish(m)
  /\ missed' = IF client = NoClient /\ boot # "reading"
                 THEN missed \cup {m.event} ELSE missed

\* EventsHandler: broadcast, unless IsChaosRunActive.  The query counts as FALSE
\* when it fails, and it runs under the request's context, which is over when
\* the watchdog has given up.
HandleEvent(m) ==
  /\ m \in handling /\ m.status # "acknowledged"
  /\ handling' = handling \ {m}
  /\ \/ /\ ~chaos \/ post # m
        /\ Broadcast(m)
        /\ UNCHANGED faultVars
     \/ /\ chaos
        /\ Fault
        /\ Broadcast(m)
     \/ /\ chaos
        /\ missed' = missed \cup {m.event}
        /\ UNCHANGED <<faultVars, brokerVars>>
  /\ UNCHANGED <<wdRest, post, arrived, chaosVars, pageVars>>

\* Acknowledge publishes without asking.
PublishAcknowledged(m) ==
  /\ m \in handling /\ m.status = "acknowledged"
  /\ handling' = handling \ {m}
  /\ Broadcast(m)
  /\ UNCHANGED <<wdVars, post, arrived, chaosVars, pageVars>>

\* The broker's loop; a full buffer loses the message for the page behind it.
FanOut(p, c) ==
  /\ Send(p, c)
  /\ missed' = IF c = client /\ Full(c) THEN missed \cup {p.msg.event} ELSE missed
  /\ UNCHANGED <<wdVars, postVars, chaosVars, pageVars>>

\* The handler of a connection that the page has left sees its context end.
HandlerLeaves(c) ==
  /\ c # client
  /\ Unsubscribe(c)
  /\ UNCHANGED <<wdVars, postVars, chaosVars, pageVars, missed>>

\* The messages on their way to the page over its connection.
OnTheWay ==
  IF client = NoClient THEN {}
  ELSE {buffer[client][i].event : i \in DOMAIN buffer[client]}
         \cup {p.msg.event : p \in {q \in publishing : client \in q.left}}

ApiRestarts ==
  /\ CrashHappens
  /\ BrokerStops
  /\ handling' = {}
  /\ post' = IF arrived THEN NoPost ELSE post
  /\ arrived' = FALSE
  /\ client' = NoClient
  /\ missed' = missed \cup OnTheWay \cup {m.event : m \in handling}
  /\ UNCHANGED <<wdRest, chaosVars, bootVars, shown>>

----------------------------------------------------------------------------
(* Changes from outside.                                                   *)

ConditionChanges(k) == ConditionChange(k) /\ UNCHANGED feedVars

AcknowledgeAndPublish(e) ==
  /\ Acknowledge(e)
  /\ handling' = handling \cup {Msg(e, "acknowledged")}
  /\ UNCHANGED <<post, arrived, chaosVars, pageVars, missed, brokerVars>>

\* The chaos runner closes events by SQL and tells nobody.
ResolveAllSilently ==
  /\ ResolveAllActiveEvents
  /\ missed' = missed \cup {e \in Events : state[e] = "active"}
  /\ UNCHANGED <<postVars, chaosVars, pageVars, brokerVars>>

\* A chaos run begins; it ends as 'completed', which hides the rows of its
\* time for good, or as 'failed', which does not.  MaxInputs bounds the runs.
ChaosChanges ==
  /\ IF chaos THEN UNCHANGED inputs ELSE Input
  /\ chaos' = ~chaos
  /\ during' = {}
  /\ \/ hidden' = hidden \cup during /\ UNCHANGED missed
     \/ missed' = missed \cup during /\ UNCHANGED hidden
  /\ UNCHANGED <<holds, rowVars, active, todo, opVars, failures, faultVars,
                 postVars, pageVars, brokerVars>>

----------------------------------------------------------------------------
(* The page.                                                               *)

\* Mutant of Connect: only a page that is being loaded connects.
ConnectWhileLoading(c) ==
  /\ client = NoClient /\ boot # "done"
  /\ Subscribe(c)
  /\ client' = c
  /\ UNCHANGED <<wdVars, postVars, chaosVars, bootVars, shown, missed>>

\* connect, at once and from the timer of scheduleReconnect.
Connect(c) ==
  /\ client = NoClient
  /\ Subscribe(c)
  /\ client' = c
  /\ UNCHANGED <<wdVars, postVars, chaosVars, bootVars, shown, missed>>

ConnectionLost ==
  /\ client # NoClient
  /\ Fault
  /\ client' = NoClient
  /\ missed' = missed \cup OnTheWay
  /\ UNCHANGED <<wdRest, postVars, chaosVars, bootVars, shown, brokerVars>>

\* The rows that ListActiveHealingEvents selects, the newest of them, and those
\* in descending order.
Selected == {e \in Events : state[e] = "active"} \ (during \cup hidden)

Newest(S) == {e \in S : Cardinality({f \in S : f > e}) < SnapshotLimit}

Descending(S) ==
  {s \in [1..Cardinality(S) -> S] :
     Range(s) = S /\ \A i, j \in DOMAIN s : i < j => s[i] > s[j]}

\* GET /api/operations/summary.
ReadSnapshot ==
  /\ boot = "reading"
  /\ boot' = "answered"
  /\ snapshot' \in Descending(Newest(Selected))
  /\ since' = {}
  /\ missed' = missed \cup (Selected \ Newest(Selected))
  /\ UNCHANGED <<wdVars, postVars, chaosVars, client, shown, brokerVars>>

\* The fetch fails and is never repeated: what it heard of the rows so far may
\* not be all there was to know.
ReadFails ==
  /\ boot = "reading"
  /\ Fault
  /\ boot' = "done"
  /\ missed' = missed \cup 1..count
  /\ UNCHANGED <<wdRest, postVars, chaosVars, client, snapshot, since, shown, brokerVars>>

\* Mutant of ApplySnapshot: the answer is added to what is shown.
ApplySnapshotMerged ==
  /\ boot = "answered"
  /\ boot' = "done"
  /\ shown' = snapshot \o SelectSeq(shown, LAMBDA e : e \notin Range(snapshot))
  /\ missed' = missed \cup since
  /\ UNCHANGED <<wdVars, postVars, chaosVars, client, snapshot, since, brokerVars>>

\* setActiveHealingEvents replaces the list, and with it what the page heard
\* after the snapshot was read.
ApplySnapshot ==
  /\ boot = "answered"
  /\ boot' = "done"
  /\ shown' = snapshot
  /\ missed' = missed \cup since
  /\ UNCHANGED <<wdVars, postVars, chaosVars, client, snapshot, since, brokerVars>>

\* The list s without e, which is in it once at most.
Without(s, e) ==
  LET gone == CHOOSE i \in DOMAIN s : s[i] = e
  IN  IF e \in Range(s)
        THEN [j \in 1..(Len(s) - 1) |-> s[IF j < gone THEN j ELSE j + 1]]
        ELSE s

\* The list s with e in front, cut to its limit.
WithFirst(s, e) ==
  [j \in 1..(IF Len(s) < PageLimit THEN Len(s) + 1 ELSE PageLimit) |->
     IF j = 1 THEN e ELSE s[j - 1]]

\* handleHealingEvent; "acknowledged" is no HealingSSEEvent and is ignored.
OnMessage(m) ==
  shown' = CASE m.status = "active" -> WithFirst(Without(shown, m.event), m.event)
             [] m.status = "resolved" -> Without(shown, m.event)
             [] OTHER -> shown

\* What the limit took off the list counts as lost, unless the snapshot is
\* still to replace the list.
Receive ==
  LET e == Head(buffer[client]).event
  IN  /\ client # NoClient
      /\ WriteNext(client)
      /\ OnMessage(Head(buffer[client]))
      /\ since' = IF boot = "answered" THEN since \cup {e} ELSE since
      /\ missed' = IF boot = "done"
                     THEN missed \cup (Range(shown) \ (Range(shown') \cup {e}))
                     ELSE missed
      /\ UNCHANGED <<wdVars, postVars, chaosVars, client, boot, snapshot>>

----------------------------------------------------------------------------
PostStep == PostArrives \/ PostAnswered

ApiStep ==
  \/ \E m \in handling : HandleEvent(m) \/ PublishAcknowledged(m)
  \/ \E p \in publishing : \E c \in p.left : FanOut(p, c)

PageStep == ReadSnapshot \/ ApplySnapshot \/ Receive

FeedNext ==
  \/ WatchdogStep \/ PostStep \/ PostFails \/ WatchdogRestarts
  \/ ApiStep \/ ApiRestarts \/ \E c \in Clients : HandlerLeaves(c)
  \/ \E k \in Keys : ConditionChanges(k)
  \/ \E e \in Events : AcknowledgeAndPublish(e)
  \/ ResolveAllSilently \/ ChaosChanges
  \/ PageStep \/ ReadFails \/ ConnectionLost \/ \E c \in Clients : Connect(c)

FeedSpec == FeedInit /\ [][FeedNext]_allVars

\* Calls end and the page's loop runs: the POST has a timeout, Publish never
\* waits, a handler notices that its client is gone, and the page reconnects
\* from a timer, however often it fails.
FairFeedSpec ==
  /\ FeedSpec
  /\ WF_allVars(WatchdogStep) /\ WF_allVars(PostStep) /\ WF_allVars(ApiStep)
  /\ WF_allVars(PageStep)
  /\ WF_allVars(\E c \in Clients : HandlerLeaves(c))
  /\ WF_allVars(\E c \in Clients : Connect(c))

----------------------------------------------------------------------------
Announcing(e) ==
  \/ post # NoPost /\ post.event = e
  \/ \E m \in handling : m.event = e
  \/ e \in OnTheWay

\* Once the page is up and no message about an event is under way, the page
\* shows the event as active only while nobody has resolved it, and shows
\* every active event that belongs to no chaos run: whatever the order in
\* which snapshot, connection, posts and broadcasts met, unless a message was
\* lost in one of the ways the code accepts, or newer events took its place in
\* the snapshot (LIMIT 100) or on the list (MAX_HEALING_EVENTS).
PageAgrees ==
  boot = "done" =>
    \A e \in Events \ missed :
      ~Announcing(e) =>
        /\ e \in Range(shown) => state[e] \in {"active", "acknowledged"}
        /\ e \in Selected => e \in Range(shown)

\* An event that is resolved leaves the page's list, and stays away.
ResolvedLeavesPage ==
  \A e \in Events :
    <>(state[e] = "resolved") => <>[](e \notin Range(shown) \/ e \in missed)

\* The page has a connection again and again, whatever failed.
PageReconnects == []<>(client # NoClient)
==========================================================================
