---------------------------- MODULE FeedProofs ----------------------------
(***************************************************************************)
(* Theorems about Feed, for any number of events, connections, changes,    *)
(* faults and crashes, and for any size of the buffers.                    *)
(*                                                                         *)
(* The broker is treated on its own first: whatever is composed with it,   *)
(* a step of the feed is one of its operations or none.  FeedInv adds to   *)
(* the broker's invariant what the watchdog's own proof knows of the rows: *)
(* a message names a row that exists.                                      *)
(***************************************************************************)
EXTENDS Feed, WatchdogProofs

BrokerInv == BrokerTypeOK /\ NoSendOnClosed

\* The steps of the broker, whoever takes them.
BrokerStep ==
  \/ \E c \in Clients : Subscribe(c) \/ Unsubscribe(c) \/ WriteNext(c)
  \/ \E m \in Messages : Publish(m)
  \/ \E p \in publishing, c \in Clients : Send(p, c)
  \/ BrokerStops

\* The variables of the feed's own, without the broker's.
PageTypeOK ==
  /\ post \in Messages \cup {NoPost}
  /\ arrived \in BOOLEAN /\ (arrived => post # NoPost)
  /\ handling \in SUBSET Messages
  /\ chaos \in BOOLEAN
  /\ client \in subscribers \cup {NoClient}
  /\ boot \in {"reading", "answered", "done"}
  /\ {during, hidden, since, missed} \subseteq SUBSET Events
  /\ {snapshot, shown} \subseteq Seq(Events)
  /\ IsInjective(snapshot) /\ IsInjective(shown)

FeedInv == WdInv /\ BrokerInv /\ PageTypeOK

\* The messages that change the page's list.
A(e) == Msg(e, "active")
R(e) == Msg(e, "resolved")

\* m is in the buffer of the page's connection.
Queued(m) ==
  client # NoClient /\ \E i \in DOMAIN buffer[client] : buffer[client][i] = m

\* m is still to come to the page, if nothing is lost.
Coming(m) ==
  \/ post = m /\ ~arrived
  \/ m \in handling
  \/ client # NoClient /\ \E p \in publishing : p.msg = m /\ client \in p.left
  \/ Queued(m)

\* In the buffer nothing says active after something said resolved.
Ordered(e) ==
  client # NoClient =>
    \A i, j \in DOMAIN buffer[client] :
      i < j /\ buffer[client][i] = R(e) => buffer[client][j] # A(e)

Listed == IF boot = "answered" THEN Range(snapshot) ELSE Range(shown)
Lost == IF boot = "answered" THEN missed \cup since ELSE missed

\* What is said of a row is true of it, or was.
SaidInv(e) ==
  /\ e <= count => state[e] # "none"
  /\ e \in Range(shown) \cup Range(snapshot) => state[e] # "none"
  /\ post = A(e) \/ InProgress(A(e)) \/ Queued(A(e)) => state[e] # "none"
  /\ post = R(e) \/ InProgress(R(e)) \/ Queued(R(e)) => state[e] = "resolved"

\* The watchdog waits for its POST: what is in progress is what it waits for.
PostInv(e) ==
  e \notin missed =>
    /\ post = A(e) => state[e] \in {"active", "acknowledged"}
    /\ \A m \in {A(e), R(e)} : InProgress(m) => post = m /\ arrived

\* So the messages about e are in order, and the last one is true.
QueueInv(e) ==
  e \notin missed =>
    /\ Ordered(e)
    /\ Queued(A(e)) /\ state[e] = "resolved" => Coming(R(e))

\* What the list says of e is true, or will be corrected.
ListInv(e) ==
  boot # "reading" /\ e \notin Lost =>
    /\ state[e] = "resolved" => Coming(R(e)) \/ e \notin Listed
    /\ state[e] = "active" /\ e \notin during \cup hidden => Coming(A(e)) \/ e \in Listed

EventInv(e) == SaidInv(e) /\ PostInv(e) /\ QueueInv(e) /\ ListInv(e)

AgreeInv == \A e \in Events : EventInv(e)

----------------------------------------------------------------------------
(* The broker.                                                             *)

\* What is left of a call of Publish after one more subscriber was served.
LEMMA ServedOne ==
  ASSUME NEW p \in Publishings, NEW c
  PROVE  /\ [p EXCEPT !.left = @ \ {c}] \in Publishings
         /\ [p EXCEPT !.left = @ \ {c}].left = p.left \ {c}
BY DEF Publishings

\* Every operation of the broker keeps its buffers within their capacity, and
\* a Publish in progress serves subscribers only: Subscribe and Unsubscribe
\* wait for the write lock.
LEMMA BrokerKeepsInv ==
  ASSUME BrokerInv, BrokerStep
  PROVE  BrokerInv'
<1> USE BrokerAssumption DEF BrokerInv, BrokerTypeOK, NoSendOnClosed
<1>1. ASSUME NEW c \in Clients, Subscribe(c) PROVE BrokerInv'
  BY <1>1 DEF Subscribe, WriteLock
<1>2. ASSUME NEW c \in Clients, Unsubscribe(c) PROVE BrokerInv'
  BY <1>2 DEF Unsubscribe, WriteLock
<1>3. ASSUME NEW c \in Clients, WriteNext(c) PROVE BrokerInv'
  BY <1>3 DEF WriteNext
<1>4. ASSUME NEW m \in Messages, Publish(m) PROVE BrokerInv'
  BY <1>4 DEF Publish, Publishings
<1>5. ASSUME NEW p \in publishing, NEW c \in Clients, Send(p, c) PROVE BrokerInv'
  <2>1. p \in Publishings /\ p.msg \in Messages
    BY DEF Publishings
  <2>2. /\ buffer' \in [Clients -> Seq(Messages)]
        /\ \A d \in Clients : Len(buffer'[d]) <= BufferSize
    BY <1>5, <2>1 DEF Send, Full
  <2>3. \A q \in publishing' : q \in Publishings /\ q.left \subseteq subscribers
    BY <1>5, <2>1, ServedOne DEF Send
  <2> QED BY <1>5, <2>2, <2>3 DEF Send
<1>6. CASE BrokerStops
  BY <1>6 DEF BrokerStops
<1> QED BY <1>1, <1>2, <1>3, <1>4, <1>5, <1>6 DEF BrokerStep

\* Steps that leave the broker alone.
LEMMA BrokerFrame ==
  ASSUME BrokerInv, UNCHANGED brokerVars
  PROVE  BrokerInv'
BY DEF BrokerInv, BrokerTypeOK, NoSendOnClosed, brokerVars

\* A step of the feed is one of the broker's operations, or none of them.
LEMMA FeedMovesBroker ==
  ASSUME FeedInv, [FeedNext]_allVars
  PROVE  BrokerStep \/ UNCHANGED brokerVars
<1> USE DEF Broadcast
<1>1. CASE WatchdogStep \/ PostStep \/ PostFails \/ WatchdogRestarts
  BY <1>1 DEF WatchdogStep, PollOtherwise, feedVars, ResolveAndPost, EmitAndPost,
     EmitUnannounced, PostStep, PostArrives, PostAnswered, PostFails, WatchdogRestarts
<1>2. ASSUME NEW m \in handling, HandleEvent(m) \/ PublishAcknowledged(m)
      PROVE  BrokerStep \/ UNCHANGED brokerVars
  BY <1>2 DEF HandleEvent, PublishAcknowledged, BrokerStep, FeedInv, PageTypeOK
<1>3. ASSUME NEW p \in publishing, NEW c \in p.left, FanOut(p, c)
      PROVE  BrokerStep
  <2>1. c \in Clients
    BY DEF FeedInv, BrokerInv, BrokerTypeOK, Publishings
  <2> QED BY <1>3, <2>1 DEF FanOut, BrokerStep
<1>4. CASE ApiRestarts
  BY <1>4 DEF ApiRestarts, BrokerStep
<1>5. ASSUME NEW c \in Clients, HandlerLeaves(c) \/ Connect(c)
      PROVE  BrokerStep
  BY <1>5 DEF HandlerLeaves, Connect, BrokerStep
<1>6. ASSUME \/ \E k \in Keys : ConditionChanges(k)
             \/ \E e \in Events : AcknowledgeAndPublish(e)
             \/ ResolveAllSilently \/ ChaosChanges
      PROVE  UNCHANGED brokerVars
  BY <1>6 DEF ConditionChanges, feedVars, AcknowledgeAndPublish, ResolveAllSilently,
     ChaosChanges
<1>7. CASE ReadSnapshot \/ ApplySnapshot \/ ReadFails \/ ConnectionLost
  BY <1>7 DEF ReadSnapshot, ApplySnapshot, ReadFails, ConnectionLost
<1>8. CASE Receive
  <2>1. client \in Clients
    BY <1>8 DEF Receive, FeedInv, PageTypeOK, BrokerInv, BrokerTypeOK
  <2> QED BY <1>8, <2>1 DEF Receive, BrokerStep
<1>9. CASE UNCHANGED allVars
  BY <1>9 DEF allVars, feedVars
<1> QED BY <1>1, <1>2, <1>3, <1>4, <1>5, <1>6, <1>7, <1>8, <1>9
        DEF FeedNext, ApiStep, PageStep

----------------------------------------------------------------------------
(* The watchdog within the feed.                                           *)

\* Faults, crashes and inputs that concern others leave its rows alone.
LEMMA WatchdogFrame ==
  ASSUME WdInv, UNCHANGED <<holds, rowVars, active, todo, opVars, failures>>,
         inputs' \in 0..MaxInputs, FaultTypeOK'
  PROVE  WdInv'
BY DEF WdInv, WatchdogTypeOK, RowInv, EntryInv, OpInv, rowVars, opVars, Events

\* A step of the feed is a step of the watchdog, or leaves its rows alone.
LEMMA FeedMovesWatchdog ==
  ASSUME FeedInv, [FeedNext]_allVars
  PROVE  WdInv'
<1>0. WdInv /\ FaultTypeOK /\ inputs \in 0..MaxInputs
  BY DEF FeedInv, WdInv, WatchdogTypeOK
<1>1. CASE WatchdogStep
  <2>1. PollStep
    BY <1>1 DEF WatchdogStep, PollOtherwise, ResolveAndPost, EmitAndPost,
       EmitUnannounced, PollStep
  <2> QED BY <1>0, <2>1, PollKeepsWd
<1>2. CASE WatchdogRestarts
  BY <1>0, <1>2, RestartKeepsWd DEF WatchdogRestarts
<1>3. ASSUME \/ \E k \in Keys : ConditionChanges(k)
             \/ \E e \in Events : AcknowledgeAndPublish(e)
             \/ ResolveAllSilently
      PROVE  WdInv'
  <2>1. Outside
    BY <1>3 DEF ConditionChanges, AcknowledgeAndPublish, ResolveAllSilently, Outside
  <2> QED BY <1>0, <2>1, OutsideKeepsWd
<1>4. CASE PostFails \/ ReadFails \/ ConnectionLost
  <2>1. Fault /\ UNCHANGED wdRest
    BY <1>4 DEF PostFails, ReadFails, ConnectionLost
  <2> QED BY <1>0, <2>1, FaultAssumption, WatchdogFrame
          DEF Fault, FaultTypeOK, wdRest, envVars
<1>5. CASE ApiRestarts
  BY <1>0, <1>5, FaultAssumption, WatchdogFrame
     DEF ApiRestarts, CrashHappens, FaultTypeOK, wdRest, envVars
<1>6. CASE ChaosChanges
  BY <1>0, <1>6, WatchdogAssumption, WatchdogFrame
     DEF ChaosChanges, Input, FaultTypeOK, faultVars, WdInv, WatchdogTypeOK
<1>7. ASSUME \/ PostStep \/ PageStep
             \/ \E m \in handling : PublishAcknowledged(m)
             \/ \E p \in publishing : \E c \in p.left : FanOut(p, c)
             \/ \E c \in Clients : HandlerLeaves(c) \/ Connect(c)
      PROVE  WdInv'
  <2>1. UNCHANGED wdVars
    BY <1>7 DEF PostStep, PostArrives, PostAnswered, PublishAcknowledged, FanOut,
       PageStep, ReadSnapshot, ApplySnapshot, Receive, HandlerLeaves, Connect
  <2> QED BY <1>0, <2>1, WdStep
<1>8. CASE UNCHANGED allVars
  BY <1>0, <1>8, WdStep DEF allVars
<1>9. ASSUME NEW m \in handling, HandleEvent(m) PROVE WdInv'
  <2>1. UNCHANGED wdRest /\ (Fault \/ UNCHANGED faultVars)
    BY <1>9 DEF HandleEvent
  <2> QED BY <1>0, <2>1, FaultAssumption, WatchdogFrame
          DEF Fault, FaultTypeOK, faultVars, wdRest, envVars
<1> QED BY <1>1, <1>2, <1>3, <1>4, <1>5, <1>6, <1>7, <1>8, <1>9 DEF FeedNext, ApiStep

----------------------------------------------------------------------------
(* What is posted, broadcast and shown.                                    *)

\* The history of losses only ever names rows.
LEMMA LossesAreEvents ==
  ASSUME FeedInv
  PROVE  /\ \A m \in Messages : m.event \in Events
         /\ \A e \in Events, s \in {"active", "acknowledged", "resolved"} : Msg(e, s) \in Messages
         /\ {m.event : m \in handling} \subseteq Events
         /\ OnTheWay \subseteq Events
         /\ 1..count \subseteq Events
<1>1. /\ \A m \in Messages : m.event \in Events
      /\ \A e \in Events, s \in {"active", "acknowledged", "resolved"} : Msg(e, s) \in Messages
  BY FeedAssumption DEF Msg
<1>2. {m.event : m \in handling} \subseteq Events
  BY <1>1 DEF FeedInv, PageTypeOK
<1>3. OnTheWay \subseteq Events
  <2>1. \A p \in publishing : p.msg.event \in Events
    BY <1>1 DEF FeedInv, BrokerInv, BrokerTypeOK, Publishings
  <2>2. client # NoClient =>
          \A i \in DOMAIN buffer[client] : buffer[client][i].event \in Events
    BY <1>1 DEF FeedInv, BrokerInv, BrokerTypeOK, PageTypeOK
  <2> QED BY <2>1, <2>2 DEF OnTheWay
<1>4. 1..count \subseteq Events
  BY WatchdogAssumption DEF FeedInv, WdInv, WatchdogTypeOK, Events
<1> QED BY <1>1, <1>2, <1>3, <1>4

\* The watchdog's steps: the row that emit inserts and the row that resolve
\* closes are rows, and so are the messages about them.
LEMMA WatchdogKeepsPage ==
  ASSUME FeedInv, WatchdogStep \/ WatchdogRestarts
  PROVE  PageTypeOK'
<1> USE LossesAreEvents DEF FeedInv, PageTypeOK
<1>1. CASE PollOtherwise
  BY <1>1 DEF PollOtherwise, feedVars, postVars, chaosVars, pageVars, bootVars, brokerVars
<1>2. CASE ResolveAndPost
  <2>1. opEvent \in Events
    BY <1>2 DEF ResolveAndPost, ResolveHealingEvent, WdInv, OpInv
  <2>2. post' \in Messages \cup {NoPost} /\ (arrived' => post' # NoPost)
    BY <1>2, <2>1, FeedAssumption DEF ResolveAndPost
  <2>3. missed' \in SUBSET Events
    BY <1>2, <2>1 DEF ResolveAndPost
  <2> QED BY <1>2, <2>2, <2>3
          DEF ResolveAndPost, chaosVars, pageVars, bootVars, brokerVars
<1>3. ASSUME NEW k \in Keys, EmitAndPost(k) PROVE PageTypeOK'
  <2>1. count + 1 \in Events
    BY <1>3, WatchdogAssumption DEF EmitAndPost, Emit, InsertHealingEvent,
       WdInv, WatchdogTypeOK, Events
  <2>2. post' \in Messages /\ post' # NoPost
    BY <1>3, <2>1, FeedAssumption DEF EmitAndPost
  <2>3. during' \in SUBSET Events
    BY <1>3, <2>1 DEF EmitAndPost
  <2> QED BY <1>3, <2>2, <2>3 DEF EmitAndPost, pageVars, bootVars, brokerVars
<1>4. ASSUME NEW k \in Keys, EmitUnannounced(k) PROVE PageTypeOK'
  <2>1. (count + 1)..count' \subseteq Events
    BY <1>4, WatchdogAssumption DEF EmitUnannounced, EmitError, InsertHealingEvent,
       rowVars, WdInv, WatchdogTypeOK, Events
  <2>2. during' \in SUBSET Events /\ missed' \in SUBSET Events
    BY <1>4, <2>1 DEF EmitUnannounced
  <2> QED BY <1>4, <2>2 DEF EmitUnannounced, postVars, pageVars, bootVars, brokerVars
<1>5. CASE WatchdogRestarts
  <2>1. missed' \in SUBSET Events
    BY <1>5 DEF WatchdogRestarts
  <2> QED BY <1>5, <2>1 DEF WatchdogRestarts, chaosVars, pageVars, bootVars, brokerVars
<1> QED BY <1>1, <1>2, <1>3, <1>4, <1>5 DEF WatchdogStep

\* The POST, and what EventsHandler and the broker make of it.
LEMMA ApiKeepsPage ==
  ASSUME FeedInv,
         \/ PostStep \/ PostFails \/ ApiStep \/ ApiRestarts
         \/ \E c \in Clients : HandlerLeaves(c)
  PROVE  PageTypeOK'
<1> USE LossesAreEvents DEF FeedInv, PageTypeOK, postVars, chaosVars, pageVars, bootVars
<1>1. CASE PostArrives
  BY <1>1 DEF PostArrives, brokerVars
<1>2. CASE PostAnswered
  BY <1>2 DEF PostAnswered, brokerVars
<1>3. CASE PostFails
  <2>1. missed' \in SUBSET Events
    BY <1>3 DEF PostFails
  <2> QED BY <1>3, <2>1 DEF PostFails, brokerVars
<1>4. ASSUME NEW m \in handling, HandleEvent(m) \/ PublishAcknowledged(m)
      PROVE  PageTypeOK'
  <2>1. missed' \in SUBSET Events /\ UNCHANGED subscribers
    BY <1>4 DEF HandleEvent, PublishAcknowledged, Broadcast, Publish, brokerVars
  <2> QED BY <1>4, <2>1 DEF HandleEvent, PublishAcknowledged
<1>5. ASSUME NEW p \in publishing, NEW c \in p.left, FanOut(p, c)
      PROVE  PageTypeOK'
  <2>1. p.msg \in Messages
    BY DEF BrokerInv, BrokerTypeOK, Publishings
  <2>2. missed' \in SUBSET Events /\ UNCHANGED subscribers
    BY <1>5, <2>1 DEF FanOut, Send
  <2> QED BY <1>5, <2>2 DEF FanOut
<1>6. CASE ApiRestarts
  <2>1. missed' \in SUBSET Events
    BY <1>6 DEF ApiRestarts
  <2> QED BY <1>6, <2>1 DEF ApiRestarts
<1>7. ASSUME NEW c \in Clients, HandlerLeaves(c) PROVE PageTypeOK'
  BY <1>7 DEF HandlerLeaves, Unsubscribe
<1> QED BY <1>1, <1>2, <1>3, <1>4, <1>5, <1>6, <1>7 DEF PostStep, ApiStep

\* Operators and the chaos runner.
LEMMA OutsideKeepsPage ==
  ASSUME FeedInv,
         \/ \E k \in Keys : ConditionChanges(k)
         \/ \E e \in Events : AcknowledgeAndPublish(e)
         \/ ResolveAllSilently \/ ChaosChanges
  PROVE  PageTypeOK'
<1> USE LossesAreEvents
    DEF FeedInv, PageTypeOK, postVars, chaosVars, pageVars, bootVars, brokerVars
<1>1. ASSUME NEW k \in Keys, ConditionChanges(k) PROVE PageTypeOK'
  BY <1>1 DEF ConditionChanges, feedVars
<1>2. ASSUME NEW e \in Events, AcknowledgeAndPublish(e) PROVE PageTypeOK'
  BY <1>2 DEF AcknowledgeAndPublish
<1>3. CASE ResolveAllSilently
  BY <1>3 DEF ResolveAllSilently
<1>4. CASE ChaosChanges
  BY <1>4 DEF ChaosChanges
<1> QED BY <1>1, <1>2, <1>3, <1>4

\* Taking an element out of a list that holds it once.
LEMMA WithoutElements ==
  ASSUME NEW S, NEW s \in Seq(S), IsInjective(s), NEW e
  PROVE  /\ Without(s, e) \in Seq(S)
         /\ IsInjective(Without(s, e))
         /\ Range(Without(s, e)) = Range(s) \ {e}
<1>0. DOMAIN s = 1..Len(s) /\ Len(s) \in Nat /\ \A i \in 1..Len(s) : s[i] \in S
  OBVIOUS
<1>1. CASE e \notin Range(s)
  BY <1>1 DEF Without
<1>2. CASE e \in Range(s)
  <2> DEFINE gone == CHOOSE i \in DOMAIN s : s[i] = e
             from(j) == IF j < gone THEN j ELSE j + 1
             t == Without(s, e)
  <2>1. gone \in DOMAIN s /\ s[gone] = e
    BY <1>2 DEF Range
  <2>2. t = [j \in 1..(Len(s) - 1) |-> s[from(j)]]
    BY <1>2 DEF Without
  <2> HIDE DEF gone, t
  <2>3. /\ \A j \in 1..(Len(s) - 1) : from(j) \in DOMAIN s /\ from(j) # gone
        /\ \A i, j \in 1..(Len(s) - 1) : from(i) = from(j) => i = j
        /\ \A i \in DOMAIN s \ {gone} : \E j \in 1..(Len(s) - 1) : from(j) = i
    <3>1. \A j \in 1..(Len(s) - 1) : from(j) \in DOMAIN s /\ from(j) # gone
      BY <1>0, <2>1
    <3>2. \A i, j \in 1..(Len(s) - 1) : from(i) = from(j) => i = j
      BY <1>0, <2>1
    <3>3. ASSUME NEW i \in DOMAIN s \ {gone}
          PROVE  \E j \in 1..(Len(s) - 1) : from(j) = i
      <4>1. CASE i < gone
        BY <1>0, <2>1, <4>1
      <4>2. CASE i > gone
        <5>1. i - 1 \in 1..(Len(s) - 1) /\ from(i - 1) = i
          BY <1>0, <2>1, <4>2
        <5> QED BY <5>1
      <4> QED BY <1>0, <2>1, <4>1, <4>2
    <3> QED BY <3>1, <3>2, <3>3
  <2> HIDE DEF from
  <2>4. \A i \in DOMAIN s \ {gone} : s[i] # e
    BY <2>1 DEF IsInjective
  <2>5. t \in Seq(S) /\ DOMAIN t = 1..(Len(s) - 1)
    <3>1. Len(s) - 1 \in Nat
      BY <1>0, <2>1
    <3>2. \A j \in 1..(Len(s) - 1) : s[from(j)] \in S
      BY <1>0, <2>3
    <3> QED BY <2>2, <3>1, <3>2
  <2>6. IsInjective(t)
    BY <2>2, <2>3, <2>5 DEF IsInjective
  <2>7. Range(t) = Range(s) \ {e}
    <3>1. \A j \in DOMAIN t : t[j] \in Range(s) \ {e}
      BY <2>2, <2>3, <2>4, <2>5 DEF Range
    <3>2. ASSUME NEW i \in DOMAIN s, s[i] # e PROVE \E j \in DOMAIN t : t[j] = s[i]
      <4>1. PICK j \in 1..(Len(s) - 1) : from(j) = i
        BY <2>1, <2>3, <3>2
      <4> QED BY <2>2, <2>5, <4>1
    <3> QED BY <3>1, <3>2 DEF Range
  <2> QED BY <2>5, <2>6, <2>7 DEF t
<1> QED BY <1>1, <1>2

\* Putting an element in front of a list that does not hold it.
LEMMA WithFirstElements ==
  ASSUME NEW S, NEW s \in Seq(S), IsInjective(s), NEW e \in S, e \notin Range(s)
  PROVE  /\ WithFirst(s, e) \in Seq(S)
         /\ IsInjective(WithFirst(s, e))
         /\ e \in Range(WithFirst(s, e))
         /\ Range(WithFirst(s, e)) \subseteq Range(s) \cup {e}
<1> DEFINE n == IF Len(s) < PageLimit THEN Len(s) + 1 ELSE PageLimit
           t == WithFirst(s, e)
<1>0. /\ DOMAIN s = 1..Len(s) /\ Len(s) \in Nat /\ \A i \in 1..Len(s) : s[i] \in S
      /\ \A i \in 1..Len(s) : s[i] # e
  BY DEF Range
<1>1. n \in Nat /\ 1 \in 1..n /\ \A j \in 1..n : j = 1 \/ j - 1 \in DOMAIN s
  BY <1>0, FeedAssumption
<1>2. t = [j \in 1..n |-> IF j = 1 THEN e ELSE s[j - 1]]
  BY DEF WithFirst
<1> HIDE DEF n, t
<1>3. t \in Seq(S) /\ DOMAIN t = 1..n
  BY <1>0, <1>1, <1>2
<1>4. IsInjective(t)
  <2> SUFFICES ASSUME NEW i \in 1..n, NEW j \in 1..n, t[i] = t[j] PROVE i = j
    BY <1>3 DEF IsInjective
  <2>1. CASE i = 1 \/ j = 1
    BY <1>0, <1>1, <1>2, <2>1
  <2>2. CASE i # 1 /\ j # 1
    <3>1. i - 1 \in DOMAIN s /\ j - 1 \in DOMAIN s /\ s[i - 1] = s[j - 1]
      BY <1>1, <1>2, <2>2
    <3>2. i - 1 = j - 1
      BY <3>1 DEF IsInjective
    <3> QED BY <1>1, <3>2
  <2> QED BY <2>1, <2>2
<1>5. e \in Range(t) /\ Range(t) \subseteq Range(s) \cup {e}
  <2>1. t[1] = e
    BY <1>1, <1>2
  <2>2. \A j \in 1..n : t[j] = e \/ t[j] \in Range(s)
    BY <1>0, <1>1, <1>2 DEF Range
  <2> QED BY <1>1, <1>3, <2>1, <2>2 DEF Range
<1> QED BY <1>3, <1>4, <1>5 DEF t

\* What a message does to the page's list, which holds every event once.
LEMMA HeardMessage ==
  ASSUME FeedInv, NEW m \in Messages, OnMessage(m)
  PROVE  /\ shown' \in Seq(Events) /\ IsInjective(shown')
         /\ m.status = "active" =>
              m.event \in Range(shown') /\ Range(shown') \subseteq Range(shown) \cup {m.event}
         /\ m.status = "resolved" => Range(shown') = Range(shown) \ {m.event}
         /\ m.status \notin {"active", "resolved"} => shown' = shown
<1> DEFINE rest == Without(shown, m.event)
<1>1. shown \in Seq(Events) /\ IsInjective(shown) /\ m.event \in Events
  BY LossesAreEvents DEF FeedInv, PageTypeOK
<1>2. /\ rest \in Seq(Events) /\ IsInjective(rest)
      /\ Range(rest) = Range(shown) \ {m.event}
  BY <1>1, WithoutElements
<1> HIDE DEF rest
<1>3. /\ WithFirst(rest, m.event) \in Seq(Events)
      /\ IsInjective(WithFirst(rest, m.event))
      /\ m.event \in Range(WithFirst(rest, m.event))
      /\ Range(WithFirst(rest, m.event)) \subseteq Range(rest) \cup {m.event}
  BY <1>1, <1>2, WithFirstElements
<1> QED BY <1>1, <1>2, <1>3 DEF OnMessage, rest

\* The page's snapshot lists each of its rows once.
LEMMA DescendingElements ==
  ASSUME NEW S \in SUBSET Events, NEW s \in Descending(S)
  PROVE  s \in Seq(Events) /\ IsInjective(s) /\ Range(s) = S
<1>1. Cardinality(S) \in Nat
  <2>1. IsFiniteSet(Events)
    BY WatchdogAssumption, FS_Interval DEF Events
  <2>2. IsFiniteSet(S)
    BY <2>1, FS_Subset
  <2> QED BY <2>2, FS_CardinalityType
<1>2. s \in [1..Cardinality(S) -> S] /\ Range(s) = S
      /\ \A i, j \in DOMAIN s : i < j => s[i] > s[j]
  BY DEF Descending
<1>3. s \in Seq(S) /\ DOMAIN s = 1..Cardinality(S)
  BY <1>1, <1>2
<1>4. s \in Seq(Events) /\ \A i \in DOMAIN s : i \in Int /\ s[i] \in Int
  <2>1. \A i \in DOMAIN s : i \in Int /\ s[i] \in Events
    BY <1>1, <1>2, <1>3
  <2>2. s \in Seq(Events)
    BY <1>1, <1>2, <1>3, <2>1
  <2> QED BY <2>1, <2>2, WatchdogAssumption DEF Events
<1>5. IsInjective(s)
  <2> SUFFICES ASSUME NEW i \in DOMAIN s, NEW j \in DOMAIN s, s[i] = s[j] PROVE i = j
    BY DEF IsInjective
  <2>1. ~(i < j) /\ ~(j < i)
    BY <1>2, <1>4
  <2> QED BY <1>4, <2>1
<1> QED BY <1>2, <1>4, <1>5

LEMMA SnapshotRows ==
  /\ Newest(Selected) \subseteq Selected /\ Selected \subseteq Events
  /\ \A s \in Descending(Newest(Selected)) :
       s \in Seq(Events) /\ IsInjective(s) /\ Range(s) = Newest(Selected)
<1>1. Newest(Selected) \subseteq Selected /\ Selected \subseteq Events
  BY DEF Newest, Selected
<1> QED BY <1>1, DescendingElements

\* The page itself.
LEMMA PageKeepsPage ==
  ASSUME FeedInv,
         PageStep \/ ReadFails \/ ConnectionLost \/ \E c \in Clients : Connect(c)
  PROVE  PageTypeOK'
<1> USE LossesAreEvents DEF FeedInv, PageTypeOK, postVars, chaosVars, bootVars
<1>1. CASE ReadSnapshot
  <2>1. snapshot' \in Seq(Events) /\ IsInjective(snapshot')
    BY <1>1, SnapshotRows DEF ReadSnapshot
  <2>2. missed' \in SUBSET Events
    BY <1>1, SnapshotRows DEF ReadSnapshot
  <2> QED BY <1>1, <2>1, <2>2 DEF ReadSnapshot, brokerVars
<1>2. CASE ApplySnapshot
  BY <1>2 DEF ApplySnapshot, brokerVars
<1>3. CASE Receive
  <2>1. Head(buffer[client]) \in Messages
    BY <1>3 DEF Receive, WriteNext, BrokerInv, BrokerTypeOK
  <2>2. shown' \in Seq(Events) /\ IsInjective(shown')
    BY <1>3, <2>1, HeardMessage DEF Receive
  <2>3. since' \in SUBSET Events
    BY <1>3, <2>1 DEF Receive
  <2>4. missed' \in SUBSET Events
    <3>1. Range(shown) \subseteq Events
      BY DEF Range
    <3> QED BY <1>3, <3>1 DEF Receive
  <2> QED BY <1>3, <2>2, <2>3, <2>4 DEF Receive, WriteNext
<1>4. CASE ReadFails
  BY <1>4 DEF ReadFails, brokerVars
<1>5. CASE ConnectionLost
  BY <1>5 DEF ConnectionLost, brokerVars
<1>6. ASSUME NEW c \in Clients, Connect(c) PROVE PageTypeOK'
  BY <1>6 DEF Connect, Subscribe
<1> QED BY <1>1, <1>2, <1>3, <1>4, <1>5, <1>6 DEF PageStep

----------------------------------------------------------------------------
\* Nothing is posted, published or shown at first.
LEMMA FeedInvInit == FeedInit => FeedInv
<1> SUFFICES ASSUME FeedInit PROVE FeedInv
  OBVIOUS
<1>1. WdInv
  BY WdInit DEF FeedInit
<1>2. BrokerInv
  BY BrokerAssumption
     DEF FeedInit, BrokerInit, BrokerInv, BrokerTypeOK, NoSendOnClosed
<1>3. PageTypeOK
  <2>1. <<>> \in Seq(Events) /\ IsInjective(<<>>)
    BY DEF IsInjective
  <2> QED BY <2>1 DEF FeedInit, PageTypeOK
<1> QED BY <1>1, <1>2, <1>3 DEF FeedInv

\* FeedInv is inductive.
LEMMA FeedInvStep == FeedInv /\ [FeedNext]_allVars => FeedInv'
<1> SUFFICES ASSUME FeedInv, [FeedNext]_allVars PROVE FeedInv'
  OBVIOUS
<1>1. BrokerInv'
  BY FeedMovesBroker, BrokerKeepsInv, BrokerFrame DEF FeedInv
<1>2. WdInv'
  BY FeedMovesWatchdog
<1>3. PageTypeOK'
  <2>1. CASE UNCHANGED allVars
    BY <2>1 DEF FeedInv, PageTypeOK, allVars, feedVars, postVars, chaosVars, pageVars,
       bootVars, brokerVars
  <2> QED BY <2>1, WatchdogKeepsPage, ApiKeepsPage, OutsideKeepsPage, PageKeepsPage
          DEF FeedNext
<1> QED BY <1>1, <1>2, <1>3 DEF FeedInv

\* So it holds throughout.
LEMMA FeedInductive == FeedSpec => []FeedInv
BY FeedInvInit, FeedInvStep, PTL DEF FeedSpec

\* For any number of events, connections and failures no buffer gets past its
\* capacity, every message names a row, and the page's connection has a handler.
THEOREM FeedTypeCorrect == FeedSpec => []FeedTypeOK
<1>1. FeedInv => FeedTypeOK
  BY DEF FeedInv, BrokerInv, PageTypeOK, FeedTypeOK
<1> QED BY <1>1, FeedInductive, PTL

\* For any number of publishers and connections that come and go, Publish
\* never sends on a closed channel (broker.go: the channel is closed under the
\* write lock, the sends are made under the read lock).
THEOREM PublishersMeetOpenChannels == FeedSpec => []NoSendOnClosed
<1>1. FeedInv => NoSendOnClosed
  BY DEF FeedInv, BrokerInv
<1> QED BY <1>1, FeedInductive, PTL

----------------------------------------------------------------------------
(* The page agrees with the table: EventInv(e) is kept for each row e.     *)

USE DEF EventInv, SaidInv, PostInv, QueueInv, ListInv

\* Messages about different rows, or with different statuses, differ, and
\* "nothing to post" is none of them.
LEMMA MessagesDiffer ==
  ASSUME NEW e \in Events
  PROVE  /\ {A(e), R(e)} \subseteq Messages
         /\ NoPost \notin {A(e), R(e)}
         /\ A(e) # R(e)
         /\ A(e).event = e /\ R(e).event = e
         /\ A(e).status = "active" /\ R(e).status = "resolved"
         /\ \A m \in Messages : m.event = e /\ m.status = "active" => m = A(e)
         /\ \A m \in Messages : m.event = e /\ m.status = "resolved" => m = R(e)
BY FeedAssumption DEF A, R, Msg

\* At first there is no row, and nothing is said.
LEMMA AgreeInit == FeedInit => AgreeInv
<1> SUFFICES ASSUME FeedInit, NEW e \in Events PROVE EventInv(e)
  BY DEF AgreeInv
<1>1. ~(e <= count) /\ e \notin Range(shown) \cup Range(snapshot) /\ boot = "reading" /\ client = NoClient
  BY WatchdogAssumption DEF FeedInit, Init, Events, Range
<1> QED BY <1>1, MessagesDiffer
        DEF FeedInit, Init, BrokerInit, InProgress, Queued, Ordered

\* What is in a buffer after a message was appended.
LEMMA AppendedElements ==
  ASSUME NEW S, NEW s \in Seq(S), NEW x \in S, NEW y
  PROVE  (\E i \in DOMAIN Append(s, x) : Append(s, x)[i] = y)
           <=> (\E i \in DOMAIN s : s[i] = y) \/ y = x
<1>1. /\ DOMAIN Append(s, x) = 1..Len(s) + 1 /\ DOMAIN s = 1..Len(s) /\ Len(s) \in Nat
      /\ \A i \in 1..Len(s) : Append(s, x)[i] = s[i]
      /\ Append(s, x)[Len(s) + 1] = x
  OBVIOUS
<1>2. Len(s) + 1 \in DOMAIN Append(s, x)
  BY <1>1
<1>3. \A i \in DOMAIN Append(s, x) : i \in DOMAIN s \/ i = Len(s) + 1
  BY <1>1
<1>4. DOMAIN s \subseteq DOMAIN Append(s, x)
  BY <1>1
<1> QED BY <1>1, <1>2, <1>3, <1>4

\* What is left in it after its head was taken out.
LEMMA RemainingElements ==
  ASSUME NEW S, NEW s \in Seq(S), s # <<>>, NEW y
  PROVE  /\ (\E i \in DOMAIN Tail(s) : Tail(s)[i] = y) => \E i \in DOMAIN s : s[i] = y
         /\ (\E i \in DOMAIN s : s[i] = y)
              => (\E i \in DOMAIN Tail(s) : Tail(s)[i] = y) \/ y = Head(s)
<1>1. /\ DOMAIN Tail(s) = 1..Len(s) - 1 /\ DOMAIN s = 1..Len(s) /\ Len(s) \in Nat \ {0}
      /\ \A i \in 1..Len(s) - 1 : Tail(s)[i] = s[i + 1]
      /\ Head(s) = s[1]
  OBVIOUS
<1>2. \A i \in DOMAIN Tail(s) : i + 1 \in DOMAIN s /\ Tail(s)[i] = s[i + 1]
  BY <1>1
<1>3. \A i \in DOMAIN s : i = 1 \/ (i - 1 \in DOMAIN Tail(s) /\ Tail(s)[i - 1] = s[i])
  BY <1>1
<1> QED BY <1>1, <1>2, <1>3

\* The watchdog works on its map, or looks at another condition.
LEMMA PollKeepsAgreement ==
  ASSUME FeedInv, AgreeInv, NEW e \in Events, PollOtherwise
  PROVE  EventInv(e)'
BY MessagesDiffer
   DEF AgreeInv, PollOtherwise, ReconcileActiveState, Register, DetectNothing, DetectError,
       Resolve, feedVars, rowVars, postVars, chaosVars, pageVars, bootVars, brokerVars,
       InProgress, Coming, Queued, Ordered, Listed, Lost, A, R

\* emit: nothing was ever said of the new row, and now the POST says it.
LEMMA EmitKeepsAgreement ==
  ASSUME FeedInv, AgreeInv, NEW e \in Events, NEW k \in Keys, post = NoPost, EmitAndPost(k)
  PROVE  EventInv(e)'
<1>1. /\ post' = A(count + 1) /\ state' = [state EXCEPT ![count + 1] = "active"]
      /\ count' = count + 1 /\ count \in Nat /\ count + 1 \in Events
      /\ UNCHANGED <<arrived, handling, chaos, pageVars, missed, brokerVars>>
      /\ e # count + 1 => (e \in (during \cup hidden)' <=> e \in during \cup hidden)
  BY WatchdogAssumption DEF EmitAndPost, Emit, InsertHealingEvent, A, FeedInv, WdInv,
     WatchdogTypeOK, Events
<1>2. state \in [Events -> {"none", "active", "acknowledged", "resolved"}]
  BY DEF FeedInv, WdInv, WatchdogTypeOK
<1>3. \A x \in Messages :
             /\ InProgress(x)' <=> InProgress(x)
             /\ Queued(x)' <=> Queued(x)
             /\ x # A(count + 1) /\ Coming(x) => Coming(x)'
             /\ x # A(count + 1) /\ Coming(x)' => Coming(x)
  <2>1. UNCHANGED <<handling, client, buffer, publishing>>
    BY <1>1 DEF pageVars, brokerVars
  <2> QED BY <1>1, <2>1, FeedAssumption DEF InProgress, Queued, Coming
<1>4. Ordered(e)' <=> Ordered(e)
  BY <1>1 DEF Ordered, A, R, pageVars, brokerVars
<1>5. UNCHANGED <<shown, snapshot, boot, Listed, Lost>>
  BY <1>1 DEF pageVars, bootVars, Listed, Lost
<1>6. ~arrived
  BY DEF FeedInv, PageTypeOK
<1>7. CASE e = count + 1
  <2>1. state[e] = "none"
    BY <1>1, <1>7 DEF FeedInv, WdInv, RowInv, Events
  <2>2. ~InProgress(A(e)) /\ ~InProgress(R(e)) /\ ~Queued(A(e)) /\ ~Queued(R(e))
    BY <2>1 DEF AgreeInv
  <2>3. Coming(A(e))'
    BY <1>1, <1>6, <1>7 DEF Coming, A
  <2>4. e \notin Range(shown) \cup Range(snapshot)
    BY <2>1 DEF AgreeInv
  <2>5. SaidInv(e)' /\ PostInv(e)'
    BY <1>1, <1>2, <1>3, <1>5, <1>7, <2>2, <2>4, MessagesDiffer DEF A, R
  <2>6. QueueInv(e)' /\ ListInv(e)'
    BY <1>1, <1>2, <1>3, <1>4, <1>5, <1>7, <2>2, <2>3, MessagesDiffer DEF A, R, AgreeInv
  <2> QED BY <2>5, <2>6
<1>8. CASE e # count + 1
  <2>1. A(e) # A(count + 1) /\ R(e) # A(count + 1)
    BY <1>1, <1>8, MessagesDiffer
  <2>2. state'[e] = state[e]
    BY <1>1, <1>2, <1>8
  <2>3. EventInv(e)
    BY DEF AgreeInv
  <2>4. e <= count' => e <= count
    BY <1>1, <1>8, WatchdogAssumption DEF Events
  <2>5. SaidInv(e)' /\ PostInv(e)'
    BY <1>1, <1>3, <1>5, <2>1, <2>2, <2>3, <2>4, MessagesDiffer DEF A, R
  <2>6. QueueInv(e)' /\ ListInv(e)'
    BY <1>1, <1>3, <1>4, <1>5, <1>8, <2>1, <2>2, <2>3, MessagesDiffer DEF A, R
  <2> QED BY <2>5, <2>6
<1> QED BY <1>7, <1>8

\* An insert that reported an error is not announced, and counts as lost.
LEMMA EmitErrorKeepsAgreement ==
  ASSUME FeedInv, AgreeInv, NEW e \in Events, NEW k \in Keys, EmitUnannounced(k)
  PROVE  EventInv(e)'
<1> EventInv(e)
  BY DEF AgreeInv
<1> QED
  BY MessagesDiffer, WatchdogAssumption
     DEF EmitUnannounced, EmitError, InsertHealingEvent, rowVars, postVars, pageVars,
         bootVars, brokerVars, FeedInv, WdInv, WatchdogTypeOK, RowInv, Events,
         InProgress, Coming, Queued, Ordered, Listed, Lost, A, R

\* resolve: the row is closed, and now the POST says so.
LEMMA ResolveKeepsAgreement ==
  ASSUME FeedInv, AgreeInv, NEW e \in Events, post = NoPost, ResolveAndPost
  PROVE  EventInv(e)'
<1>1. /\ opEvent \in Events /\ opEvent <= count
      /\ state \in [Events -> {"none", "active", "acknowledged", "resolved"}]
  BY DEF ResolveAndPost, ResolveHealingEvent, FeedInv, WdInv, OpInv, WatchdogTypeOK
<1>2. EventInv(e) /\ state[opEvent] # "none" /\ ~arrived
  BY <1>1 DEF AgreeInv, FeedInv, PageTypeOK
<1>3. UNCHANGED <<count, arrived, handling, during, hidden, client, boot, snapshot, since, shown,
                  brokerVars>>
  BY DEF ResolveAndPost, ResolveHealingEvent, chaosVars, pageVars, bootVars
<1>4. \A x \in Messages :
        /\ InProgress(x)' <=> InProgress(x)
        /\ Queued(x)' <=> Queued(x)
        /\ Coming(x) => Coming(x)'
        /\ post' = NoPost \/ post' # x => (Coming(x)' => Coming(x))
  BY <1>3, FeedAssumption DEF InProgress, Queued, Coming, brokerVars
<1>5. Ordered(e)' <=> Ordered(e)
  BY <1>3 DEF Ordered, A, R, brokerVars
<1>6. CASE e # opEvent
  <2>1. state'[e] = state[e]
    BY <1>1, <1>6 DEF ResolveAndPost, ResolveHealingEvent, Closed
  <2>2. post' \notin {A(e), R(e)} /\ (e \in missed' <=> e \in missed)
    BY <1>1, <1>6, MessagesDiffer DEF ResolveAndPost, R
  <2> QED BY <1>2, <1>3, <1>4, <1>5, <2>1, <2>2, MessagesDiffer DEF A, R, Listed, Lost
<1>7. CASE e = opEvent
  <2>1. state'[e] = "resolved" \/ state'[e] = state[e]
    BY <1>1, <1>7 DEF ResolveAndPost, ResolveHealingEvent, Closed
  <2>2. \/ post' = R(e) /\ state'[e] = "resolved" /\ missed' = missed
        \/ post' = NoPost /\ e \in missed'
    BY <1>1, <1>2, <1>7 DEF ResolveAndPost, ResolveHealingEvent, Closed, Fault,
       R, FeedInv, WdInv, WatchdogTypeOK, FaultTypeOK, faultVars
  <2>3. CASE e \in missed'
    <3>1. SaidInv(e)'
      BY <1>2, <1>3, <1>4, <1>7, <2>1, <2>2, MessagesDiffer DEF A, R
    <3> QED BY <2>3, <3>1 DEF Lost
  <2>4. CASE e \notin missed'
    <3>1. post' = R(e) /\ state'[e] = "resolved" /\ missed' = missed
      BY <2>2, <2>4
    <3>2. Coming(R(e))'
      BY <1>2, <1>3, <3>1 DEF Coming, R
    <3>3. ~InProgress(A(e)) /\ ~InProgress(R(e))
      BY <1>2, <2>4, <3>1, MessagesDiffer
    <3> QED BY <1>2, <1>3, <1>4, <1>5, <3>1, <3>2, <3>3, MessagesDiffer DEF A, R, Listed, Lost
  <2> QED BY <2>3, <2>4
<1> QED BY <1>6, <1>7

\* The POST on its way, and its end: when it is answered nothing about its row
\* is in progress; when it fails, or the watchdog stops, its row counts as lost.
LEMMA PostKeepsAgreement ==
  ASSUME FeedInv, AgreeInv, NEW e \in Events, PostStep \/ PostFails \/ WatchdogRestarts
  PROVE  EventInv(e)'
<1> USE MessagesDiffer
    DEF rowVars, chaosVars, pageVars, bootVars, brokerVars, wdVars, wdRest,
        InProgress, Coming, Queued, Ordered, Listed, Lost, A, R
<1> EventInv(e)
  BY DEF AgreeInv
<1>1. CASE PostArrives
  BY <1>1 DEF PostArrives
<1>2. CASE PostAnswered
  BY <1>2 DEF PostAnswered
<1>3. CASE PostFails
  BY <1>3 DEF PostFails
<1>4. CASE WatchdogRestarts
  BY <1>4 DEF WatchdogRestarts, Restart
<1> QED BY <1>1, <1>2, <1>3, <1>4 DEF PostStep

\* A handler drops its message for a chaos run, and its row counts as lost ...
LEMMA DropKeepsAgreement ==
  ASSUME FeedInv, AgreeInv, NEW e \in Events, NEW m \in handling,
         handling' = handling \ {m}, missed' = missed \cup {m.event},
         UNCHANGED <<wdRest, post, arrived, chaosVars, pageVars, brokerVars>>
  PROVE  EventInv(e)'
<1> EventInv(e)
  BY DEF AgreeInv
<1> QED
  BY MessagesDiffer DEF wdRest, rowVars, chaosVars, pageVars, bootVars, brokerVars,
     InProgress, Coming, Queued, Ordered, Listed, Lost, A, R

\* ... or publishes it, to the page too when it has a connection.
LEMMA BroadcastKeepsAgreement ==
  ASSUME FeedInv, AgreeInv, NEW e \in Events, NEW m \in handling,
         handling' = handling \ {m}, Broadcast(m),
         UNCHANGED <<wdRest, post, arrived, chaosVars, pageVars>>
  PROVE  EventInv(e)'
<1>1. EventInv(e)
  BY DEF AgreeInv
<1>2. UNCHANGED <<state, count, during, hidden, client, boot, snapshot, since, shown,
                  subscribers, buffer>>
  BY DEF wdRest, rowVars, chaosVars, pageVars, bootVars, Broadcast, Publish
<1>3. \A x : InProgress(x)' => InProgress(x)
  BY DEF InProgress, Broadcast, Publish
<1>4. \A x : Queued(x)' <=> Queued(x)
  BY <1>2 DEF Queued
<1>5. Ordered(e)' <=> Ordered(e)
  BY <1>2 DEF Ordered, A, R
<1>6. \A x : x # m \/ client # NoClient => (Coming(x) => Coming(x)')
  <2>1. client # NoClient => client \in subscribers
    BY DEF FeedInv, PageTypeOK
  <2>2. publishing \subseteq publishing'
    BY DEF Broadcast, Publish
  <2>3. client # NoClient => [msg |-> m, left |-> subscribers] \in publishing'
    BY <2>1 DEF Broadcast, Publish
  <2> QED BY <1>2, <1>4, <2>1, <2>2, <2>3 DEF Coming
<1>7. CASE e \in missed'
  BY <1>1, <1>2, <1>3, <1>4, <1>7 DEF A, R, Listed, Lost
<1>8. CASE e \notin missed'
  <2>1. e \notin missed /\ (client = NoClient /\ boot # "reading" => m.event # e)
    BY <1>8 DEF Broadcast
  <2>2. SaidInv(e)' /\ PostInv(e)'
    BY <1>1, <1>2, <1>3, <1>4, <2>1 DEF A, R
  <2>3. QueueInv(e)'
    BY <1>1, <1>2, <1>4, <1>5, <1>6, <2>1, MessagesDiffer DEF A, R, Queued
  <2>4. ListInv(e)'
    BY <1>1, <1>2, <1>6, <2>1, MessagesDiffer DEF A, R, Listed, Lost, Broadcast
  <2> QED BY <2>2, <2>3, <2>4
<1> QED BY <1>7, <1>8

\* Either way the handler of a healing event, or of an acknowledgement.
LEMMA HandlersKeepAgreement ==
  ASSUME FeedInv, AgreeInv, NEW e \in Events, NEW m \in handling,
         HandleEvent(m) \/ PublishAcknowledged(m)
  PROVE  EventInv(e)'
<1>1. CASE Broadcast(m)
  BY <1>1, BroadcastKeepsAgreement DEF HandleEvent, PublishAcknowledged, wdVars, wdRest
<1>2. CASE missed' = missed \cup {m.event} /\ UNCHANGED brokerVars
  BY <1>2, DropKeepsAgreement DEF HandleEvent, PublishAcknowledged, wdVars, wdRest
<1> QED BY <1>1, <1>2 DEF HandleEvent, PublishAcknowledged

\* The broker offers a message to a connection: to the page's it is queued
\* behind the others, or counts as lost when the buffer is full.
LEMMA FanOutKeepsAgreement ==
  ASSUME FeedInv, AgreeInv, NEW e \in Events, NEW p \in publishing, NEW c \in p.left,
         FanOut(p, c)
  PROVE  EventInv(e)'
<1> DEFINE q == [p EXCEPT !.left = @ \ {c}]
<1>1. EventInv(e)
  BY DEF AgreeInv
<1>2. UNCHANGED <<state, count, during, hidden, post, arrived, handling, client, boot, snapshot, since,
                  shown>>
  BY DEF FanOut, wdVars, rowVars, postVars, chaosVars, pageVars, bootVars
<1>3. /\ p \in Publishings /\ c \in Clients
      /\ q.msg = p.msg /\ q.left = p.left \ {c}
      /\ publishing' = (publishing \ {p}) \cup (IF p.left = {c} THEN {} ELSE {q})
      /\ buffer \in [Clients -> Seq(Messages)] /\ p.msg \in Messages
      /\ client \in Clients \cup {NoClient} /\ client # NoClient => client \in Clients
  BY FeedAssumption
     DEF FanOut, Send, FeedInv, BrokerInv, BrokerTypeOK, PageTypeOK, Publishings
<1> HIDE DEF q
<1>4. \A x : InProgress(x)' => InProgress(x)
  BY <1>2, <1>3 DEF InProgress
<1>5. CASE c # client
  <2>1. client # NoClient => buffer'[client] = buffer[client]
    BY <1>3, <1>5 DEF FanOut, Send
  <2>2. \A x : Queued(x)' <=> Queued(x)
    BY <1>2, <2>1 DEF Queued
  <2>3. Ordered(e)' <=> Ordered(e)
    BY <1>2, <2>1 DEF Ordered, A, R
  <2>4. \A x : Coming(x) => Coming(x)'
    BY <1>2, <1>3, <1>5, <2>2 DEF Coming
  <2>5. missed' = missed
    BY <1>5 DEF FanOut
  <2> QED BY <1>1, <1>2, <1>4, <2>2, <2>3, <2>4, <2>5 DEF A, R, Listed, Lost
<1>6. CASE c = client /\ Full(c)
  <2>1. client # NoClient => buffer'[client] = buffer[client]
    BY <1>3, <1>6 DEF FanOut, Send
  <2>2. \A x : Queued(x)' <=> Queued(x)
    BY <1>2, <2>1 DEF Queued
  <2>3. Ordered(e)' <=> Ordered(e)
    BY <1>2, <2>1 DEF Ordered, A, R
  <2>4. \A x : x # p.msg => (Coming(x) => Coming(x)')
    BY <1>2, <1>3, <2>2 DEF Coming
  <2>5. missed' = missed \cup {p.msg.event}
    BY <1>6 DEF FanOut
  <2> QED BY <1>1, <1>2, <1>4, <2>2, <2>3, <2>4, <2>5, MessagesDiffer DEF A, R, Listed, Lost
<1>7. CASE c = client /\ ~Full(c)
  <2>1. client # NoClient /\ buffer[client] \in Seq(Messages)
        /\ buffer'[client] = Append(buffer[client], p.msg)
    BY <1>3, <1>7, FeedAssumption DEF FanOut, Send
  <2>2. \A x : Queued(x)' <=> Queued(x) \/ x = p.msg
    <3> SUFFICES ASSUME NEW x PROVE Queued(x)' <=> Queued(x) \/ x = p.msg
      OBVIOUS
    <3>1. Queued(x) <=> \E i \in DOMAIN buffer[client] : buffer[client][i] = x
      BY <2>1 DEF Queued
    <3>2. Queued(x)' <=>
            \E i \in DOMAIN Append(buffer[client], p.msg) : Append(buffer[client], p.msg)[i] = x
      BY <1>2, <2>1 DEF Queued
    <3>3. (\E i \in DOMAIN Append(buffer[client], p.msg) : Append(buffer[client], p.msg)[i] = x)
            <=> (\E i \in DOMAIN buffer[client] : buffer[client][i] = x) \/ x = p.msg
      <4> DEFINE b == buffer[client]
                 w == p.msg
      <4>1. b \in Seq(Messages) /\ w \in Messages
        BY <1>3, <2>1
      <4> HIDE DEF b, w
      <4>2. (\E i \in DOMAIN Append(b, w) : Append(b, w)[i] = x)
              <=> (\E i \in DOMAIN b : b[i] = x) \/ x = w
        BY <4>1, AppendedElements
      <4> QED BY <4>2 DEF b, w
    <3> QED BY <3>1, <3>2, <3>3
  <2>3. missed' = missed
    BY <1>7 DEF FanOut
  <2>4. \A x : Coming(x) => Coming(x)'
    BY <1>2, <1>3, <2>2 DEF Coming
  <2>5. InProgress(p.msg)
    BY DEF InProgress
  <2>6. e \notin missed => Ordered(e)'
    <3>1. e \notin missed /\ p.msg = A(e) => ~Queued(R(e))
      BY <1>1, <2>5, MessagesDiffer
    <3>2. Ordered(e) /\ (p.msg = A(e) => ~Queued(R(e))) => Ordered(e)'
      BY <1>2, <1>3, <2>1 DEF Ordered, Queued, A, R
    <3> QED BY <1>1, <3>1, <3>2
  <2>7. SaidInv(e)' /\ PostInv(e)'
    BY <1>1, <1>2, <1>4, <2>2, <2>3, <2>5 DEF A, R
  <2>8. QueueInv(e)'
    BY <1>1, <1>2, <2>2, <2>3, <2>4, <2>5, <2>6, MessagesDiffer DEF A, R
  <2>9. ListInv(e)'
    BY <1>1, <1>2, <2>3, <2>4 DEF A, R, Listed, Lost
  <2> QED BY <2>7, <2>8, <2>9
<1> QED BY <1>5, <1>6, <1>7

\* The API stops and takes along what it had.
LEMMA StopKeepsAgreement ==
  ASSUME FeedInv, AgreeInv, NEW e \in Events, ApiRestarts
  PROVE  EventInv(e)'
<1> EventInv(e)
  BY DEF AgreeInv
<1>1. \A x : ~InProgress(x)' /\ ~Queued(x)' /\ (post' = x => post = x \/ x = NoPost)
  BY DEF ApiRestarts, BrokerStops, InProgress, Queued
<1>2. \A x \in Messages : x.event \notin missed' /\ Coming(x) => Coming(x)'
  BY DEF ApiRestarts, OnTheWay, Coming, Queued
<1>3. UNCHANGED <<state, count, during, hidden, boot, snapshot, since, shown>> /\ missed \subseteq missed'
      /\ client' = NoClient
  BY DEF ApiRestarts, wdRest, rowVars, chaosVars, bootVars
<1> QED BY <1>1, <1>2, <1>3, MessagesDiffer DEF A, R, Listed, Lost, Ordered

\* Rows change behind the watchdog's back: an acknowledged row is no longer
\* active, and one that is resolved silently, or shown again after a chaos run
\* that failed, counts as lost.
LEMMA OutsideKeepsAgreement ==
  ASSUME FeedInv, AgreeInv, NEW e \in Events,
         \/ \E k \in Keys : ConditionChanges(k)
         \/ \E f \in Events : AcknowledgeAndPublish(f)
         \/ ResolveAllSilently \/ ChaosChanges
  PROVE  EventInv(e)'
<1> USE MessagesDiffer
    DEF rowVars, postVars, chaosVars, pageVars, bootVars, brokerVars,
        InProgress, Coming, Queued, Ordered, Listed, Lost, A, R
<1> EventInv(e)
  BY DEF AgreeInv
<1>0. state \in [Events -> {"none", "active", "acknowledged", "resolved"}]
  BY DEF FeedInv, WdInv, WatchdogTypeOK
<1>1. ASSUME NEW k \in Keys, ConditionChanges(k) PROVE EventInv(e)'
  BY <1>1 DEF ConditionChanges, ConditionChange, feedVars
<1>2. ASSUME NEW f \in Events, AcknowledgeAndPublish(f) PROVE EventInv(e)'
  BY <1>0, <1>2 DEF AcknowledgeAndPublish, Acknowledge, Msg
<1>3. CASE ResolveAllSilently
  BY <1>0, <1>3 DEF ResolveAllSilently, ResolveAllActiveEvents
<1>4. CASE ChaosChanges
  BY <1>4 DEF ChaosChanges
<1> QED BY <1>1, <1>2, <1>3, <1>4

\* Connections that come and go, and the page's snapshot.
LEMMA PageKeepsAgreement ==
  ASSUME FeedInv, AgreeInv, NEW e \in Events,
         \/ ReadSnapshot \/ ApplySnapshot \/ ReadFails \/ ConnectionLost
         \/ \E c \in Clients : HandlerLeaves(c) \/ Connect(c)
  PROVE  EventInv(e)'
<1> USE MessagesDiffer
    DEF rowVars, postVars, chaosVars, pageVars, bootVars, brokerVars, wdVars, wdRest,
        InProgress, Coming, Queued, Ordered, Listed, Lost, A, R
<1> EventInv(e)
  BY DEF AgreeInv
<1>1. CASE ReadSnapshot
  <2>1. Range(snapshot)' = Newest(Selected)
    BY <1>1, SnapshotRows DEF ReadSnapshot
  <2>2. Newest(Selected) \subseteq Selected
    BY SnapshotRows
  <2>3. \A x : Queued(x)' = Queued(x) /\ Coming(x)' = Coming(x)
    BY <1>1 DEF ReadSnapshot
  <2> QED BY <1>1, <2>1, <2>2, <2>3 DEF ReadSnapshot, Selected
<1>2. CASE ApplySnapshot
  BY <1>2 DEF ApplySnapshot
<1>3. CASE ReadFails
  <2>1. e \notin 1..count => state[e] = "none"
    BY WatchdogAssumption DEF FeedInv, WdInv, WatchdogTypeOK, RowInv, Events
  <2> QED BY <1>3, <2>1 DEF ReadFails
<1>4. CASE ConnectionLost
  BY <1>4 DEF ConnectionLost, OnTheWay
<1>5. ASSUME NEW c \in Clients, HandlerLeaves(c) PROVE EventInv(e)'
  BY <1>5 DEF HandlerLeaves, Unsubscribe, WriteLock, FeedInv, BrokerInv, BrokerTypeOK, PageTypeOK
<1>6. ASSUME NEW c \in Clients, Connect(c) PROVE EventInv(e)'
  BY <1>6 DEF Connect, Subscribe, WriteLock, FeedInv, BrokerInv, BrokerTypeOK
<1> QED BY <1>1, <1>2, <1>3, <1>4, <1>5, <1>6

\* The page receives the message at the head of its buffer: what was behind it
\* is still to come, and nothing behind it takes a resolution back.
LEMMA ReceiveKeepsAgreement ==
  ASSUME FeedInv, AgreeInv, NEW e \in Events, Receive
  PROVE  EventInv(e)'
<1> DEFINE m == Head(buffer[client])
<1>1. EventInv(e)
  BY DEF AgreeInv
<1>2. /\ UNCHANGED <<state, count, during, hidden, post, arrived, handling, client, boot,
                     snapshot, publishing>>
      /\ OnMessage(m)
      /\ since' = IF boot = "answered" THEN since \cup {m.event} ELSE since
      /\ missed \subseteq missed'
      /\ boot = "done" => missed' = missed \cup (Range(shown) \ (Range(shown') \cup {m.event}))
  BY DEF Receive, WriteNext, wdVars, rowVars, postVars, chaosVars
<1>3. /\ client # NoClient /\ buffer[client] \in Seq(Messages) /\ buffer[client] # <<>>
      /\ buffer'[client] = Tail(buffer[client])
      /\ m \in Messages
  BY DEF Receive, WriteNext, FeedInv, BrokerInv, BrokerTypeOK, PageTypeOK
<1>4. Queued(m)
  BY <1>3 DEF Queued
<1> HIDE DEF m
<1>5. \A x : InProgress(x)' <=> InProgress(x)
  BY <1>2 DEF InProgress
<1>6. \A x : (Queued(x)' => Queued(x)) /\ (Queued(x) => Queued(x)' \/ x = m)
  <2> SUFFICES ASSUME NEW x
               PROVE  (Queued(x)' => Queued(x)) /\ (Queued(x) => Queued(x)' \/ x = m)
    OBVIOUS
  <2>1. Queued(x) <=> \E i \in DOMAIN buffer[client] : buffer[client][i] = x
    BY <1>3 DEF Queued
  <2>2. Queued(x)' <=> \E i \in DOMAIN Tail(buffer[client]) : Tail(buffer[client])[i] = x
    BY <1>2, <1>3 DEF Queued
  <2> QED BY <1>3, <2>1, <2>2, RemainingElements DEF m
<1>7. Ordered(e) => Ordered(e)' /\ (m = R(e) => ~Queued(A(e))')
  BY <1>2, <1>3 DEF Ordered, Queued, A, R, m
<1>8. \A x : Coming(x) => Coming(x)' \/ x = m
  BY <1>2, <1>6 DEF Coming
<1>12. /\ m.status = "active" =>
            m.event \in Range(shown') /\ Range(shown') \subseteq Range(shown) \cup {m.event}
       /\ m.status = "resolved" => Range(shown') = Range(shown) \ {m.event}
       /\ m.status \notin {"active", "resolved"} => shown' = shown
  BY <1>2, <1>3, HeardMessage
<1>9. SaidInv(e)' /\ PostInv(e)'
  BY <1>1, <1>2, <1>3, <1>4, <1>5, <1>6, <1>12, MessagesDiffer DEF A, R
<1>10. QueueInv(e)'
  BY <1>1, <1>2, <1>6, <1>7, <1>8, MessagesDiffer DEF A, R
<1>11. ListInv(e)'
  <2> SUFFICES ASSUME boot # "reading", e \notin Lost'
               PROVE  /\ state[e] = "resolved" => Coming(R(e))' \/ e \notin Listed'
                      /\ state[e] = "active" /\ e \notin during \cup hidden
                           => Coming(A(e))' \/ e \in Listed'
    BY <1>2
  <2>1. /\ state[e] = "resolved" => Coming(R(e)) \/ e \notin Listed
        /\ state[e] = "active" /\ e \notin during \cup hidden => Coming(A(e)) \/ e \in Listed
    BY <1>1, <1>2 DEF Lost
  <2>2. CASE boot = "answered"
    <3>1. m.event # e /\ Listed' = Listed
      BY <1>2, <2>2 DEF Listed, Lost
    <3> QED BY <1>2, <1>8, <2>1, <3>1, MessagesDiffer
  <2>3. CASE boot # "answered"
    <3>1. Listed = Range(shown) /\ Listed' = Range(shown') /\ boot' = boot
      BY <1>2, <2>3 DEF Listed
    <3>2. boot = "done"
      BY <2>3 DEF FeedInv, PageTypeOK
    <3>3. e \in Range(shown) /\ e # m.event => e \in Range(shown')
      BY <1>2, <2>3, <3>2 DEF Lost
    <3>4. m.event = e => m = A(e) \/ m = R(e) \/ m.status \notin {"active", "resolved"}
      BY <1>3, MessagesDiffer
    <3>5. m = A(e) => state[e] # "resolved" \/ Coming(R(e))
      BY <1>1, <1>4, <2>3, <1>2 DEF Lost
    <3>6. m = R(e) => state[e] = "resolved"
      BY <1>1, <1>4
    <3> QED BY <1>8, <1>12, <2>1, <3>1, <3>3, <3>4, <3>5, <3>6, MessagesDiffer
  <2> QED BY <2>2, <2>3
<1> QED BY <1>9, <1>10, <1>11

\* AgreeInv is inductive, relative to FeedInv.
LEMMA AgreeStep == FeedInv /\ AgreeInv /\ [FeedNext]_allVars => AgreeInv'
<1> SUFFICES ASSUME FeedInv, AgreeInv, [FeedNext]_allVars, NEW e \in Events
             PROVE  EventInv(e)'
  BY DEF AgreeInv, Events
<1>1. CASE WatchdogStep
  BY <1>1, PollKeepsAgreement, EmitKeepsAgreement, EmitErrorKeepsAgreement,
     ResolveKeepsAgreement DEF WatchdogStep
<1>2. CASE PostStep \/ PostFails \/ WatchdogRestarts
  BY <1>2, PostKeepsAgreement
<1>3. CASE ApiStep
  BY <1>3, HandlersKeepAgreement, FanOutKeepsAgreement DEF ApiStep
<1>4. CASE ApiRestarts
  BY <1>4, StopKeepsAgreement
<1>5. CASE Receive
  BY <1>5, ReceiveKeepsAgreement
<1>6. CASE UNCHANGED allVars
  <2>1. EventInv(e)
    BY DEF AgreeInv
  <2> QED BY <1>6, <2>1
          DEF allVars, wdVars, feedVars, rowVars, postVars, chaosVars, pageVars, bootVars,
              brokerVars, InProgress, Coming, Queued, Ordered, Listed, Lost, A, R
<1> QED BY <1>1, <1>2, <1>3, <1>4, <1>5, <1>6, OutsideKeepsAgreement, PageKeepsAgreement
        DEF FeedNext, PageStep

\* For any number of events, connections, buffers and failures, and any limits of
\* the snapshot and the list, a page that is up agrees with healing_events about
\* every event that nothing is under way about, unless a message about it was lost
\* or newer events took its place (detector.go emit and resolve, events.go,
\* broker.go, operations.go, sse-provider.tsx).
THEOREM PageAgreesWithTable == FeedSpec => []PageAgrees
<1>1. FeedInv /\ AgreeInv => PageAgrees
  <2> SUFFICES ASSUME FeedInv, AgreeInv, boot = "done",
                      NEW e \in Events \ missed, ~Announcing(e)
               PROVE  /\ e \in Range(shown) => state[e] \in {"active", "acknowledged"}
                      /\ e \in Selected => e \in Range(shown)
    BY DEF PageAgrees
  <2>1. EventInv(e) /\ state[e] \in {"none", "active", "acknowledged", "resolved"}
    BY DEF AgreeInv, FeedInv, WdInv, WatchdogTypeOK
  <2>2. ~Coming(A(e)) /\ ~Coming(R(e))
    BY MessagesDiffer DEF Announcing, OnTheWay, Coming, Queued
  <2> QED BY <2>1, <2>2 DEF Listed, Lost, Selected
<1>2. FeedInv /\ AgreeInv /\ [FeedNext]_allVars => (FeedInv /\ AgreeInv)'
  BY FeedInvStep, AgreeStep
<1> QED BY <1>1, <1>2, FeedInvInit, AgreeInit, PTL DEF FeedSpec
===========================================================================
