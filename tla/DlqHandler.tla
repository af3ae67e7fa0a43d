---------------------------- MODULE DlqHandler ----------------------------
(***************************************************************************)
(* The DLQ explorer of the API (handlers/dlq.go): an operator lists the    *)
(* dead-letter queue and retries, deletes or purges messages.  A page that *)
(* was listed stays on the operator's screen, so a request may name a      *)
(* message that has left the queue since, and two operators may retry the  *)
(* same message.  Retry makes three calls in this order: SendMessage to    *)
(* the main queue, DeleteMessage on the dead-letter queue, and             *)
(* RevertToPendingForRetry; only the first can make it stop.               *)
(*                                                                         *)
(* The audit rows go to healing_events with status 'resolved', which no    *)
(* other part of the system reads, and are left out.                       *)
(***************************************************************************)
EXTENDS SqsQueue, Faults

CONSTANTS
  Operators,         \* retry requests that may run at the same time
  NoRetry            \* the message of an operator with no request

ASSUME NoRetryAssumption == NoRetry \notin Messages

VARIABLES
  listed,            \* messages some operator has on the screen
  opc,               \* opc[o]: the next call of the Retry of o
  target             \* target[o]: the message it retries

dlqVars == <<listed, opc, target>>

DlqTypeOK ==
  /\ listed \in SUBSET Messages
  /\ opc \in [Operators -> {"idle", "send", "delete", "revert"}]
  /\ target \in [Operators -> Messages \cup {NoRetry}]

DlqInit ==
  /\ listed = {}
  /\ opc = [o \in Operators |-> "idle"]
  /\ target = [o \in Operators |-> NoRetry]

RetryNext(o, l) ==
  /\ opc' = [opc EXCEPT ![o] = l]
  /\ UNCHANGED <<target, listed>>

RetryReturn(o) ==
  /\ opc' = [opc EXCEPT ![o] = "idle"]
  /\ target' = [target EXCEPT ![o] = NoRetry]
  /\ UNCHANGED listed

----------------------------------------------------------------------------
\* ListMessages: receive what is there, and make it visible again.
ListMessages ==
  /\ \E m \in Messages : place[m] = "dlq" /\ m \notin listed
  /\ listed' = listed \cup {m \in Messages : place[m] = "dlq"}
  /\ UNCHANGED <<opc, target, tableVars, queueVars, faultVars>>

\* Retry is called with the receipt handle and the body of a listed message.
Retry(o, m) ==
  /\ opc[o] = "idle"
  /\ m \in listed
  /\ opc' = [opc EXCEPT ![o] = "send"]
  /\ target' = [target EXCEPT ![o] = m]
  /\ UNCHANGED <<listed, tableVars, queueVars, faultVars>>

\* SendMessage of the same body to the main queue.
RetrySend(o, n) ==
  /\ opc[o] = "send"
  /\ SendMessage(n, body[target[o]])
  /\ RetryNext(o, "delete")
  /\ UNCHANGED <<tableVars, faultVars>>

\* SendMessage reports an error (500); the message may be sent all the same.
RetrySendError(o) ==
  /\ opc[o] = "send"
  /\ \/ UNCHANGED <<queueVars, faultVars>>
     \/ Fault /\ \E n \in Messages : SendMessage(n, body[target[o]])
  /\ RetryReturn(o)
  /\ UNCHANGED tableVars

\* DeleteMessage on the dead-letter queue; a failure is only a warning.
RetryDelete(o) ==
  /\ opc[o] = "delete"
  /\ DeleteDlqMessage(target[o])
  /\ RetryNext(o, "revert")
  /\ UNCHANGED <<tableVars, faultVars>>

\* RevertToPendingForRetry; its error is ignored.
RetryRevert(o) ==
  /\ opc[o] = "revert"
  /\ \/ RevertToPendingForRetry(body[target[o]]) /\ UNCHANGED faultVars
     \/ UNCHANGED tableVars /\ Fault
  /\ RetryReturn(o)
  /\ UNCHANGED queueVars

\* The API stops between two calls of Retry, or the operator's client goes
\* away and r.Context() cancels the rest.
RetryCrash(o) ==
  /\ opc[o] # "idle"
  /\ CrashHappens
  /\ RetryReturn(o)
  /\ UNCHANGED <<tableVars, queueVars>>

\* Delete of a listed message.
DlqDelete(m) ==
  /\ m \in listed
  /\ DeleteDlqMessage(m)
  /\ UNCHANGED <<dlqVars, tableVars, faultVars>>

\* Purge.
Purge ==
  /\ PurgeDlq
  /\ UNCHANGED <<dlqVars, tableVars, faultVars>>

----------------------------------------------------------------------------
RetryStep(o) ==
  \/ \E n \in Messages : RetrySend(o, n)
  \/ RetrySendError(o) \/ RetryDelete(o) \/ RetryRevert(o)

OperatorRequest(o) ==
  \/ ListMessages
  \/ \E m \in Messages : Retry(o, m) \/ DlqDelete(m)
  \/ Purge
==========================================================================
