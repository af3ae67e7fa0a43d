----------------------------- MODULE Watchdog -----------------------------
(***************************************************************************)
(* The watchdog's detector (services/watchdog/internal/detector): a poll   *)
(* loop that compares conditions of the system (a stale worker, a stuck    *)
(* task, a long queue ...) with the healing events it has reported.  Each  *)
(* condition has a dedup key; the in-memory map active takes a key to the  *)
(* healing_events row opened for it.  Operators acknowledge events through *)
(* the API and the chaos runner resolves them by SQL, behind the           *)
(* watchdog's back.                                                        *)
(*                                                                         *)
(* Rows are numbered in the order of created_at.  The rows, and the        *)
(* changes from outside, are bounded.  The detectors of one poll look at   *)
(* different keys, so their order is left open.  SSE messages are best     *)
(* effort and are left out.                                                *)
(***************************************************************************)
EXTENDS Faults, FiniteSets

CONSTANTS
  Keys,                  \* dedup keys: "worker.stale:w1", "queue.lag", ...
  DownKey,               \* the key "worker.down", which has a failure counter
  NoKey,
  HealthcheckFailures,   \* its threshold
  MaxEvents,             \* bound on the rows of healing_events
  MaxInputs              \* bound on the changes from outside

ASSUME WatchdogAssumption ==
  /\ NoKey \notin Keys
  /\ HealthcheckFailures \in Nat \ {0}
  /\ MaxEvents \in Nat
  /\ MaxInputs \in Nat

Events == 1..MaxEvents
None == 0                \* no row

VARIABLES
  holds,             \* the keys whose condition holds at the moment
  inputs,            \* changes from outside so far
  state,             \* state[e]: the status column of row e
  keyOf,             \* keyOf[e]: keyForEvent of row e
  count,             \* rows inserted so far
  active,            \* active[k]: the entry of the dedup map, None if absent
  todo,              \* keys the current poll has still to look at
  op, opKey, opEvent,\* the call in progress inside emit or resolve
  failures           \* healthFailures

rowVars == <<state, keyOf, count>>
opVars == <<op, opKey, opEvent>>
envVars == <<holds, inputs>>
wdVars == <<envVars, rowVars, active, todo, opVars, failures, faultVars>>

WatchdogTypeOK ==
  /\ FaultTypeOK
  /\ holds \in SUBSET Keys
  /\ inputs \in 0..MaxInputs
  /\ state \in [Events -> {"none", "active", "acknowledged", "resolved"}]
  /\ keyOf \in [Events -> Keys \cup {NoKey}]
  /\ count \in 0..MaxEvents
  /\ active \in [Keys -> Events \cup {None}]
  /\ todo \in SUBSET Keys
  /\ op \in {"none", "register", "resolve"}
  /\ opKey \in Keys \cup {NoKey}
  /\ opEvent \in Events \cup {None}
  /\ failures \in 0..HealthcheckFailures

Init ==
  /\ FaultInit
  /\ holds = {} /\ inputs = 0
  /\ state = [e \in Events |-> "none"]
  /\ keyOf = [e \in Events |-> NoKey]
  /\ count = 0
  /\ active = [k \in Keys |-> None]
  /\ todo = {}
  /\ op = "none" /\ opKey = NoKey /\ opEvent = None
  /\ failures = 0

----------------------------------------------------------------------------
(* Changes from outside.                                                   *)

Input == inputs < MaxInputs /\ inputs' = inputs + 1

\* A condition appears or goes away.
ConditionChange(k) ==
  /\ Input
  /\ holds' = IF k \in holds THEN holds \ {k} ELSE holds \cup {k}
  /\ UNCHANGED <<rowVars, active, todo, opVars, failures, faultVars>>

\* AcknowledgeAlert: WHERE status = 'active'.
Acknowledge(e) ==
  /\ Input
  /\ state[e] = "active"
  /\ state' = [state EXCEPT ![e] = "acknowledged"]
  /\ UNCHANGED <<holds, keyOf, count, active, todo, opVars, failures, faultVars>>

\* The chaos runner's ResolveAllActiveEvents.
ResolveAllActiveEvents ==
  /\ Input
  /\ \E e \in Events : state[e] = "active"
  /\ state' = [e \in Events |-> IF state[e] = "active" THEN "resolved" ELSE state[e]]
  /\ UNCHANGED <<holds, keyOf, count, active, todo, opVars, failures, faultVars>>

----------------------------------------------------------------------------
(* The poll loop.                                                          *)

Idle == op = "none"

\* Mutant of ReconcileActiveState: entries are never dropped.
ReconcileNothing ==
  /\ Idle /\ todo = {}
  /\ todo' = Keys
  /\ UNCHANGED <<envVars, rowVars, active, opVars, failures, faultVars>>

\* reconcileActiveState: drop the entries whose row is no longer 'active'
\* (ListActiveHealingEvents), or none at all when the query fails; then the
\* detectors start.
ReconcileActiveState ==
  /\ Idle /\ todo = {}
  /\ \/ /\ active' = [k \in Keys |->
                        IF active[k] # None /\ state[active[k]] # "active"
                          THEN None ELSE active[k]]
        /\ UNCHANGED faultVars
     \/ UNCHANGED active /\ Fault
  /\ todo' = Keys
  /\ UNCHANGED <<envVars, rowVars, opVars, failures>>

\* A health check that fails counts; the other conditions hold at once.
Fires(k) == k \in holds /\ (k = DownKey => failures + 1 >= HealthcheckFailures)

\* Mutant of CountFailure: a healthy answer takes one failure back.
CountFailureDecays(k) ==
  failures' =
    IF k # DownKey THEN failures
    ELSE IF k \notin holds THEN failures - 1
    ELSE IF failures < HealthcheckFailures THEN failures + 1 ELSE failures

\* healthFailures; nothing tells values from the threshold on apart.
CountFailure(k) ==
  failures' =
    IF k # DownKey THEN failures
    ELSE IF k \notin holds THEN 0
    ELSE IF failures < HealthcheckFailures THEN failures + 1 ELSE failures

Looked(k) == todo' = todo \ {k}

\* The detector of k finds nothing to report and nothing to resolve.
DetectNothing(k) ==
  /\ Idle /\ k \in todo
  /\ \/ Fires(k) /\ active[k] # None
     \/ k \in holds /\ ~Fires(k)
     \/ k \notin holds /\ active[k] = None
  /\ CountFailure(k)
  /\ Looked(k)
  /\ UNCHANGED <<envVars, rowVars, active, opVars, faultVars>>

\* Its query fails; a health check that fails is an answer, not an error.
DetectError(k) ==
  /\ Idle /\ k \in todo /\ k # DownKey
  /\ Fault
  /\ Looked(k)
  /\ UNCHANGED <<envVars, rowVars, active, opVars, failures>>

InsertHealingEvent(k) ==
  /\ count < MaxEvents
  /\ count' = count + 1
  /\ state' = [state EXCEPT ![count + 1] = "active"]
  /\ keyOf' = [keyOf EXCEPT ![count + 1] = k]

\* emit: the condition holds and has no entry; the row is inserted ...
Emit(k) ==
  /\ Idle /\ k \in todo
  /\ Fires(k) /\ active[k] = None
  /\ InsertHealingEvent(k)
  /\ op' = "register" /\ opKey' = k /\ opEvent' = count + 1
  /\ CountFailure(k)
  /\ UNCHANGED <<envVars, active, todo, faultVars>>

\* ... or the insert reports an error, before or after the commit.
EmitError(k) ==
  /\ Idle /\ k \in todo
  /\ Fires(k) /\ active[k] = None
  /\ InsertHealingEvent(k) \/ UNCHANGED rowVars
  /\ Fault
  /\ CountFailure(k)
  /\ Looked(k)
  /\ UNCHANGED <<envVars, active, opVars>>

EndOp ==
  /\ op' = "none" /\ opKey' = NoKey /\ opEvent' = None
  /\ Looked(opKey)

\* Mutant of Register: emit may return early, when the SSE message fails.
RegisterUnlessUnheard ==
  /\ op = "register"
  /\ active' \in {active, [active EXCEPT ![opKey] = opEvent]}
  /\ EndOp
  /\ UNCHANGED <<envVars, rowVars, failures, faultVars>>

\* emit, after the SSE message: the entry of the map.
Register ==
  /\ op = "register"
  /\ active' = [active EXCEPT ![opKey] = opEvent]
  /\ EndOp
  /\ UNCHANGED <<envVars, rowVars, failures, faultVars>>

\* resolve: the condition is gone; first the entry is removed ...
Resolve(k) ==
  /\ Idle /\ k \in todo
  /\ k \notin holds /\ active[k] # None
  /\ active' = [active EXCEPT ![k] = None]
  /\ op' = "resolve" /\ opKey' = k /\ opEvent' = active[k]
  /\ CountFailure(k)
  /\ UNCHANGED <<envVars, rowVars, todo, faultVars>>

\* Mutant of ResolveHealingEvent: only acknowledged rows are closed.
ResolveAcknowledged ==
  /\ op = "resolve"
  /\ state' = [state EXCEPT ![opEvent] = IF @ = "acknowledged" THEN "resolved" ELSE @]
  /\ EndOp
  /\ UNCHANGED <<envVars, keyOf, count, active, failures, faultVars>>

Closed(e) ==
  [state EXCEPT ![e] = IF @ \in {"active", "acknowledged"} THEN "resolved" ELSE @]

\* ... then ResolveHealingEvent updates the row; an error, before or after the
\* commit, is only logged.
ResolveHealingEvent ==
  /\ op = "resolve"
  /\ \/ state' = Closed(opEvent) /\ UNCHANGED faultVars
     \/ state' \in {state, Closed(opEvent)} /\ Fault
  /\ EndOp
  /\ UNCHANGED <<envVars, keyOf, count, active, failures>>

\* The rows of a key that are 'active'.
OpenRows(k) == {e \in Events : state[e] = "active" /\ keyOf[e] = k}

\* Mutant of Reconstructed: New starts with an empty map.
NothingReconstructed == [k \in Keys |-> None]

\* ListActiveHealingEvents is sorted newest first and later entries overwrite
\* earlier ones, so the oldest active row of a key wins.
Reconstructed ==
  [k \in Keys |->
     IF OpenRows(k) = {} THEN None
     ELSE CHOOSE e \in OpenRows(k) : \A f \in OpenRows(k) : e <= f]

\* The watchdog stops at any point and New starts it again: with
\* reconstructActiveState, or with an empty map when that fails.
Restart ==
  /\ \/ active' = Reconstructed /\ CrashHappens
     \/ /\ active' = [k \in Keys |-> None]
        /\ crashes < MaxCrashes /\ crashes' = crashes + 1
        /\ faults < MaxFaults /\ faults' = faults + 1
  /\ todo' = {}
  /\ op' = "none" /\ opKey' = NoKey /\ opEvent' = None
  /\ failures' = 0
  /\ UNCHANGED <<envVars, rowVars>>

----------------------------------------------------------------------------
PollStep ==
  \/ ReconcileActiveState
  \/ \E k \in Keys : DetectNothing(k) \/ DetectError(k) \/ Emit(k)
                       \/ EmitError(k) \/ Resolve(k)
  \/ Register \/ ResolveHealingEvent

Outside ==
  \/ \E k \in Keys : ConditionChange(k)
  \/ \E e \in Events : Acknowledge(e)
  \/ ResolveAllActiveEvents

Next == PollStep \/ Outside \/ Restart

Spec == Init /\ [][Next]_wdVars

\* The poll loop is driven by a ticker and every call it makes has a deadline.
FairSpec == Spec /\ WF_wdVars(PollStep)

----------------------------------------------------------------------------
\* A condition has one 'active' row in healing_events, and one more at most
\* for every database call that failed so far (an insert that reported an
\* error, an update that closed nothing, a map that was not reconstructed),
\* whatever is acknowledged or resolved from outside and wherever restarts
\* fall between the insert, the map and the update.
OneActivePerKey == \A k \in Keys : Cardinality(OpenRows(k)) <= 1 + faults

\* As long as no database call failed, every 'active' row is the entry of its
\* key in the map or the row of the call in progress, wherever restarts fall:
\* the detector that looks at its key can resolve it.
ActiveRowsAreKnown ==
  faults = 0 =>
    \A k \in Keys : \A e \in OpenRows(k) :
      active[k] = e \/ (op # "none" /\ opEvent = e)

\* "active tracks dedup keys -> healing_event IDs so the same condition never
\* produces duplicate events": no condition has two events that are not
\* resolved yet.
NoDuplicateEvents ==
  \A e, f \in Events :
    /\ {state[e], state[f]} \subseteq {"active", "acknowledged"}
    /\ keyOf[e] = keyOf[f]
    => e = f

\* A condition that stays is reported: again and again there is an event for
\* it that is not resolved, in spite of restarts and database errors.
PersistentIsReported ==
  \A k \in Keys :
    <>[](k \in holds) =>
      []<>(\E e \in Events : keyOf[e] = k /\ state[e] \in {"active", "acknowledged"})

\* When no database call fails, a condition that has gone for good leaves no
\* 'active' event behind.
GoneIsResolved ==
  [](faults = 0) =>
    \A k \in Keys :
      <>[](k \notin holds) =>
        <>[](\A e \in Events : keyOf[e] = k => state[e] # "active")
==========================================================================
