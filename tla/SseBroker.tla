----------------------------- MODULE SseBroker -----------------------------
(***************************************************************************)
(* The in-memory hub of the API process (services/api/internal/event) with *)
(* the SSE handler that drains one buffer per connection.  Publish holds   *)
(* the read lock while it offers a message to one subscriber after the     *)
(* other, so publishers run next to each other and in any order, while     *)
(* Subscribe and Unsubscribe hold the write lock.                          *)
(*                                                                         *)
(* A buffer stands for the channel of a subscriber together with the       *)
(* connection it is written to.  A client is one run of the SSE handler:   *)
(* its id, a nanosecond timestamp, is taken to be unique.                  *)
(***************************************************************************)
EXTENDS Naturals, Sequences

CONSTANTS
  Clients,      \* runs of the SSE handler
  Messages,     \* what can be published
  BufferSize    \* capacity of a subscriber's channel (16)

ASSUME BrokerAssumption == BufferSize \in Nat \ {0}

VARIABLES
  subscribers,  \* the clients in Broker.subscribers
  buffer,       \* buffer[c]: the messages in c's channel
  publishing    \* the calls of Publish in progress: message and who is left

brokerVars == <<subscribers, buffer, publishing>>

Publishings == [msg : Messages, left : SUBSET Clients]

BrokerTypeOK ==
  /\ subscribers \in SUBSET Clients
  /\ buffer \in [Clients -> Seq(Messages)]
  /\ \A c \in Clients : Len(buffer[c]) <= BufferSize
  /\ publishing \in SUBSET Publishings

BrokerInit ==
  /\ subscribers = {}
  /\ buffer = [c \in Clients |-> <<>>]
  /\ publishing = {}

\* The write lock excludes every Publish.
WriteLock == publishing = {}

Subscribe(c) ==
  /\ WriteLock
  /\ c \notin subscribers
  /\ subscribers' = subscribers \cup {c}
  /\ buffer' = [buffer EXCEPT ![c] = <<>>]
  /\ UNCHANGED publishing

\* Mutant of Unsubscribe: it forgets to take the lock.
UnsubscribeUnlocked(c) ==
  /\ c \in subscribers
  /\ subscribers' = subscribers \ {c}
  /\ buffer' = [buffer EXCEPT ![c] = <<>>]
  /\ UNCHANGED publishing

\* Deletes the entry and closes the channel; what it still holds is lost.
Unsubscribe(c) ==
  /\ WriteLock
  /\ c \in subscribers
  /\ subscribers' = subscribers \ {c}
  /\ buffer' = [buffer EXCEPT ![c] = <<>>]
  /\ UNCHANGED publishing

\* Publish takes the read lock and iterates over the subscribers there are ...
Publish(m) ==
  /\ publishing' = publishing \cup
       (IF subscribers = {} THEN {} ELSE {[msg |-> m, left |-> subscribers]})
  /\ UNCHANGED <<subscribers, buffer>>

Full(c) == Len(buffer[c]) >= BufferSize

\* Mutant of Send: the buffer takes one message too many.
SendBeyond(p, c) ==
  /\ p \in publishing /\ c \in p.left
  /\ buffer' = [buffer EXCEPT ![c] =
                  IF Len(buffer[c]) > BufferSize THEN @ ELSE Append(@, p.msg)]
  /\ publishing' = (publishing \ {p}) \cup
       (IF p.left = {c} THEN {} ELSE {[p EXCEPT !.left = @ \ {c}]})
  /\ UNCHANGED subscribers

\* Mutant of Send: the publisher waits until every buffer has room.
SendWaiting(p, c) ==
  /\ p \in publishing /\ c \in p.left
  /\ \A d \in p.left : ~Full(d)
  /\ buffer' = [buffer EXCEPT ![c] = Append(@, p.msg)]
  /\ publishing' = (publishing \ {p}) \cup
       (IF p.left = {c} THEN {} ELSE {[p EXCEPT !.left = @ \ {c}]})
  /\ UNCHANGED subscribers

\* ... and offers it to each without waiting: a full buffer drops it.
Send(p, c) ==
  /\ p \in publishing /\ c \in p.left
  /\ buffer' = [buffer EXCEPT ![c] = IF Full(c) THEN @ ELSE Append(@, p.msg)]
  /\ publishing' = (publishing \ {p}) \cup
       (IF p.left = {c} THEN {} ELSE {[p EXCEPT !.left = @ \ {c}]})
  /\ UNCHANGED subscribers

\* The loop of the SSE handler writes the next message to the client.
WriteNext(c) ==
  /\ c \in subscribers /\ buffer[c] # <<>>
  /\ buffer' = [buffer EXCEPT ![c] = Tail(@)]
  /\ UNCHANGED <<subscribers, publishing>>

\* The process stops and starts with an empty hub.
BrokerStops ==
  /\ subscribers' = {}
  /\ buffer' = [c \in Clients |-> <<>>]
  /\ publishing' = {}

\* Publish never sends on a channel that Unsubscribe has closed, which would
\* panic: whoever a Publish in progress has still to serve is subscribed.
NoSendOnClosed == \A p \in publishing : p.left \subseteq subscribers
==========================================================================
