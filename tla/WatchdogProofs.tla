-------------------------- MODULE WatchdogProofs --------------------------
(***************************************************************************)
(* Theorems about Watchdog, for any set of keys and any number of rows,    *)
(* changes from outside and restarts.                                      *)
(*                                                                         *)
(* OneActivePerKey is not inductive: whether Emit duplicates a row depends *)
(* on the map.  An active row is loose when it is neither the entry of its *)
(* key nor the row of the call in progress; OpInv says that the key of     *)
(* that call has no entry, so a key has at most one row that is not loose, *)
(* and LooseInv that every loose row is paid for by a failed call.         *)
(***************************************************************************)
EXTENDS Watchdog, FiniteSetTheorems, WellFoundedInduction, TLAPS

\* Rows are numbered without gaps, and an inserted row has a key.
RowInv ==
  \A e \in Events :
    IF e <= count THEN keyOf[e] \in Keys ELSE state[e] = "none"

\* An entry of the map names a row of its key.
EntryInv ==
  \A k \in Keys : active[k] # None => active[k] <= count /\ keyOf[active[k]] = k

\* A call inside emit or resolve works on a row of its key, which has no
\* entry while the call lasts.
OpInv ==
  IF op = "none" THEN opKey = NoKey /\ opEvent = None
  ELSE /\ opKey \in Keys /\ opEvent \in Events /\ opEvent <= count
       /\ keyOf[opEvent] = opKey
       /\ active[opKey] = None

WdInv == WatchdogTypeOK /\ RowInv /\ EntryInv /\ OpInv

\* The active rows of k that the detector does not know of.
Loose(k) ==
  {e \in OpenRows(k) : active[k] # e /\ (op # "none" => opEvent # e)}

LooseInv == \A k \in Keys : Cardinality(Loose(k)) <= faults

----------------------------------------------------------------------------
\* A set of row numbers that is not empty has a least one.
LEMMA LeastRow ==
  ASSUME NEW T \in SUBSET Nat, T # {}
  PROVE  \E e \in T : \A f \in T : e <= f
<1> DEFINE R == OpToRel(<, Nat)
<1>1. IsWellFoundedOn(R, Nat)
  BY NatLessThanWellFounded
<1>2. PICK x \in T : \A y \in T : ~ (<<y, x>> \in R)
  <2> HIDE DEF R
  <2> QED BY <1>1, WFMin
<1>3. \A y \in T : ~(y < x)
  BY <1>2 DEF OpToRel
<1> QED BY <1>3

\* The map that New reconstructs names an active row of the right key, for
\* every key that has one.
LEMMA ReconstructedEntries ==
  ASSUME WatchdogTypeOK, NEW k \in Keys
  PROVE  IF OpenRows(k) = {} THEN Reconstructed[k] = None
         ELSE Reconstructed[k] \in OpenRows(k)
<1>1. Reconstructed[k] =
        IF OpenRows(k) = {} THEN None
        ELSE CHOOSE e \in OpenRows(k) : \A f \in OpenRows(k) : e <= f
  BY DEF Reconstructed
<1>2. OpenRows(k) \in SUBSET Nat
  BY WatchdogAssumption DEF OpenRows, Events
<1>3. CASE OpenRows(k) = {}
  BY <1>1, <1>3
<1>4. CASE OpenRows(k) # {}
  <2>1. \E e \in OpenRows(k) : \A f \in OpenRows(k) : e <= f
    BY <1>2, <1>4, LeastRow
  <2> QED BY <1>1, <1>4, <2>1
<1> QED BY <1>3, <1>4

----------------------------------------------------------------------------
(* WdInv holds for any bounds.                                             *)

USE WatchdogAssumption, FaultAssumption
    DEF WdInv, WatchdogTypeOK, FaultTypeOK, RowInv, EntryInv, OpInv, Events, None

\* Initially there are no rows and no entries.
LEMMA WdInit == Init => WdInv
BY DEF Init, FaultInit

\* Changes from outside only change the status of rows that exist.
LEMMA OutsideKeepsWd ==
  ASSUME WdInv, Outside
  PROVE  WdInv'
<1>1. ASSUME NEW k \in Keys, ConditionChange(k) PROVE WdInv'
  BY <1>1 DEF ConditionChange, Input, rowVars, opVars, faultVars
<1>2. ASSUME NEW e \in Events, Acknowledge(e) PROVE WdInv'
  BY <1>2 DEF Acknowledge, Input, opVars, faultVars
<1>3. CASE ResolveAllActiveEvents
  BY <1>3 DEF ResolveAllActiveEvents, Input, opVars, faultVars
<1> QED BY <1>1, <1>2, <1>3 DEF Outside

\* The counter of failed health checks stays within its threshold.
LEMMA CountFailureType ==
  ASSUME WdInv, NEW k \in Keys, CountFailure(k)
  PROVE  failures' \in 0..HealthcheckFailures
BY DEF CountFailure

\* The steps of the poll loop: emit takes the next row, and only an entry
\* that was there is removed or worked on.
LEMMA PollKeepsWd ==
  ASSUME WdInv, PollStep
  PROVE  WdInv'
<1>1. CASE ReconcileActiveState
  BY <1>1 DEF ReconcileActiveState, Idle, Fault, envVars, rowVars, opVars, faultVars
<1>2. ASSUME NEW k \in Keys, DetectNothing(k) PROVE WdInv'
  BY <1>2, CountFailureType
     DEF DetectNothing, Idle, Looked, envVars, rowVars, opVars, faultVars
<1>3. ASSUME NEW k \in Keys, DetectError(k) PROVE WdInv'
  BY <1>3 DEF DetectError, Idle, Looked, Fault, envVars, rowVars, opVars
<1>4. ASSUME NEW k \in Keys, Emit(k) PROVE WdInv'
  BY <1>4, CountFailureType
     DEF Emit, Idle, InsertHealingEvent, envVars, faultVars
<1>5. ASSUME NEW k \in Keys, EmitError(k) PROVE WdInv'
  BY <1>5, CountFailureType
     DEF EmitError, Idle, InsertHealingEvent, Looked, Fault, envVars, rowVars, opVars
<1>6. ASSUME NEW k \in Keys, Resolve(k) PROVE WdInv'
  BY <1>6, CountFailureType DEF Resolve, Idle, envVars, rowVars, faultVars
<1>7. CASE Register
  BY <1>7 DEF Register, EndOp, Looked, envVars, rowVars, faultVars
<1>8. CASE ResolveHealingEvent
  BY <1>8 DEF ResolveHealingEvent, Closed, EndOp, Looked, Fault, envVars, rowVars, faultVars
<1> QED BY <1>1, <1>2, <1>3, <1>4, <1>5, <1>6, <1>7, <1>8 DEF PollStep

\* A restart reconstructs entries that name rows of their keys, or none.
LEMMA RestartKeepsWd ==
  ASSUME WdInv, Restart
  PROVE  WdInv'
<1>1. CASE active' = Reconstructed
  <2>1. \A k \in Keys :
          \/ Reconstructed[k] = None
          \/ /\ Reconstructed[k] \in Events
             /\ state[Reconstructed[k]] = "active"
             /\ keyOf[Reconstructed[k]] = k
    BY ReconstructedEntries DEF OpenRows
  <2>2. active' = [k \in Keys |-> active'[k]]
    BY <1>1 DEF Reconstructed
  <2>3. active' \in [Keys -> Events \cup {None}]
    BY <1>1, <2>1, <2>2
  <2>4. EntryInv'
    BY <1>1, <2>1 DEF Restart, envVars, rowVars
  <2> QED BY <2>3, <2>4 DEF Restart, CrashHappens, envVars, rowVars
<1>2. CASE active' = [k \in Keys |-> None]
  BY <1>2 DEF Restart, CrashHappens, envVars, rowVars
<1> QED BY <1>1, <1>2 DEF Restart

\* WdInv is inductive.
LEMMA WdStep == WdInv /\ [Next]_wdVars => WdInv'
<1> SUFFICES ASSUME WdInv, [Next]_wdVars PROVE WdInv'
  OBVIOUS
<1>1. CASE UNCHANGED wdVars
  BY <1>1 DEF wdVars, envVars, rowVars, opVars, faultVars
<1> QED BY <1>1, OutsideKeepsWd, PollKeepsWd, RestartKeepsWd DEF Next

HIDE DEF WdInv, WatchdogTypeOK, FaultTypeOK, RowInv, EntryInv, OpInv, Events, None

\* Rows, map and the call in progress keep their types, and the numbering of
\* the rows never leaves its bounds.
THEOREM WatchdogTypeCorrect == Spec => []WatchdogTypeOK
<1>1. WdInv => WatchdogTypeOK
  BY DEF WdInv
<1> QED BY <1>1, WdInit, WdStep, PTL DEF Spec

----------------------------------------------------------------------------
(* Sets of rows are finite, and a set grows by at most one row per fault.  *)

\* Every set of rows is finite.
LEMMA RowsAreFinite ==
  ASSUME NEW T \in SUBSET Events
  PROVE  IsFiniteSet(T) /\ Cardinality(T) \in Nat
<1>1. IsFiniteSet(Events)
  BY FS_Interval, WatchdogAssumption DEF Events
<1>2. IsFiniteSet(T)
  BY <1>1, FS_Subset
<1> QED BY <1>2, FS_CardinalityType

\* A part of a set of rows has no more rows.
LEMMA NoMoreRows ==
  ASSUME NEW S \in SUBSET Events, NEW T \in SUBSET S
  PROVE  Cardinality(T) <= Cardinality(S)
BY RowsAreFinite, FS_Subset

\* With one more row to choose from, a set has one more row at most.
LEMMA OneMoreRow ==
  ASSUME NEW S \in SUBSET Events, NEW x, NEW T \in SUBSET (S \cup {x})
  PROVE  Cardinality(T) <= Cardinality(S) + 1
<1>1. IsFiniteSet(S) /\ Cardinality(S) \in Nat
  BY RowsAreFinite
<1>2. /\ IsFiniteSet(S \cup {x})
      /\ Cardinality(S \cup {x}) =
           IF x \in S THEN Cardinality(S) ELSE Cardinality(S) + 1
  BY <1>1, FS_AddElement
<1>3. /\ IsFiniteSet(T)
      /\ Cardinality(T) <= Cardinality(S \cup {x})
  BY <1>2, FS_Subset
<1> QED BY <1>1, <1>2, <1>3, FS_CardinalityType

\* Open and loose rows are rows, and can be counted.
LEMMA LooseType ==
  ASSUME NEW k
  PROVE  /\ OpenRows(k) \in SUBSET Events
         /\ Loose(k) \in SUBSET Events
         /\ Cardinality(Loose(k)) \in Nat
<1>1. OpenRows(k) \in SUBSET Events /\ Loose(k) \in SUBSET Events
  BY DEF OpenRows, Loose
<1> QED BY <1>1, RowsAreFinite

\* A key has at most one active row that is not loose: its entry, or the row
\* of the call in progress, which has no entry beside it.
LEMMA OneRowIsNotLoose ==
  ASSUME WdInv, NEW k \in Keys
  PROVE  Cardinality(OpenRows(k)) <= Cardinality(Loose(k)) + 1
<1> DEFINE x == IF active[k] # None THEN active[k] ELSE opEvent
<1>1. OpenRows(k) \subseteq Loose(k) \cup {x}
  BY DEF OpenRows, Loose, WdInv, OpInv, WatchdogTypeOK, Events, None
<1> QED BY <1>1, LooseType, OneMoreRow

----------------------------------------------------------------------------
(* LooseInv is inductive, given WdInv.                                     *)

\* Initially there are no rows.
LEMMA LooseInit == Init => LooseInv
<1> SUFFICES ASSUME Init, NEW k \in Keys PROVE Cardinality(Loose(k)) <= faults
  BY DEF LooseInv
<1>1. Loose(k) = {}
  BY DEF Init, Loose, OpenRows
<1> QED BY <1>1, FS_EmptySet DEF Init, FaultInit

\* A step that costs no fault keeps LooseInv when it loosens no row ...
LEMMA NoneLoosened ==
  ASSUME WdInv, LooseInv, UNCHANGED faults, \A k \in Keys : Loose(k)' \subseteq Loose(k)
  PROVE  LooseInv'
<1> SUFFICES ASSUME NEW k \in Keys PROVE Cardinality(Loose(k)') <= faults
  BY DEF LooseInv
<1>1. Cardinality(Loose(k)') <= Cardinality(Loose(k))
  BY LooseType, NoMoreRows
<1>2. Loose(k)' \in SUBSET Events
  BY DEF Loose, OpenRows, Events
<1>3. Cardinality(Loose(k)') \in Nat
  BY <1>2, RowsAreFinite
<1>4. faults \in Nat
  BY DEF WdInv, WatchdogTypeOK, FaultTypeOK
<1> QED BY <1>1, <1>3, <1>4, LooseType DEF LooseInv

\* ... and one that costs a fault may loosen one row.
LEMMA OneLoosened ==
  ASSUME WdInv, LooseInv, faults' = faults + 1,
         NEW x, \A k \in Keys : Loose(k)' \subseteq Loose(k) \cup {x}
  PROVE  LooseInv'
<1> SUFFICES ASSUME NEW k \in Keys PROVE Cardinality(Loose(k)') <= faults + 1
  BY DEF LooseInv
<1>1. Cardinality(Loose(k)') <= Cardinality(Loose(k)) + 1
  <2>1. Loose(k) \in SUBSET Events
    BY LooseType
  <2>2. Loose(k)' \in SUBSET (Loose(k) \cup {x})
    OBVIOUS
  <2> QED BY <2>1, <2>2, OneMoreRow
<1>2. Loose(k)' \in SUBSET Events
  BY DEF Loose, OpenRows, Events
<1>3. Cardinality(Loose(k)') \in Nat
  BY <1>2, RowsAreFinite
<1>4. faults \in Nat
  BY DEF WdInv, WatchdogTypeOK, FaultTypeOK
<1> QED BY <1>1, <1>3, <1>4, LooseType DEF LooseInv

\* Changes from outside open no row.
LEMMA OutsideKeepsLoose ==
  ASSUME WdInv, LooseInv, Outside
  PROVE  LooseInv'
<1>1. UNCHANGED faults /\ \A k \in Keys : Loose(k)' \subseteq Loose(k)
  <2> USE DEF WdInv, WatchdogTypeOK, Loose, OpenRows
  <2>1. CASE \E k \in Keys : ConditionChange(k)
    BY <2>1 DEF ConditionChange, rowVars, opVars, faultVars
  <2>2. CASE \E e \in Events : Acknowledge(e)
    BY <2>2 DEF Acknowledge, opVars, faultVars
  <2>3. CASE ResolveAllActiveEvents
    BY <2>3 DEF ResolveAllActiveEvents, opVars, faultVars
  <2> QED BY <2>1, <2>2, <2>3 DEF Outside
<1> QED BY <1>1, NoneLoosened

\* The poll loop loosens a row only when an insert or an update fails.
LEMMA PollKeepsLoose ==
  ASSUME WdInv, LooseInv, PollStep
  PROVE  LooseInv'
<1> USE DEF WdInv, WatchdogTypeOK, FaultTypeOK, RowInv, EntryInv, OpInv,
            Loose, OpenRows, Events, None
<1>1. CASE ReconcileActiveState
  <2>1. \A k \in Keys : Loose(k)' \subseteq Loose(k)
    BY <1>1 DEF ReconcileActiveState, Idle, rowVars, opVars
  <2>2. CASE UNCHANGED faults
    BY <2>1, <2>2, NoneLoosened
  <2>3. CASE faults' = faults + 1
    BY <2>1, <2>3, OneLoosened
  <2> QED BY <1>1, <2>2, <2>3 DEF ReconcileActiveState, Fault, faultVars
<1>2. ASSUME NEW j \in Keys, DetectNothing(j) PROVE LooseInv'
  <2>1. \A k \in Keys : Loose(k)' \subseteq Loose(k)
    BY <1>2 DEF DetectNothing, rowVars, opVars
  <2> QED BY <1>2, <2>1, NoneLoosened DEF DetectNothing, faultVars
<1>3. ASSUME NEW j \in Keys, DetectError(j) PROVE LooseInv'
  <2>1. \A k \in Keys : Loose(k)' \subseteq Loose(k)
    BY <1>3 DEF DetectError, rowVars, opVars
  <2> QED BY <1>3, <2>1, OneLoosened DEF DetectError, Fault
<1>4. ASSUME NEW j \in Keys, Emit(j) PROVE LooseInv'
  <2>1. \A k \in Keys : Loose(k)' \subseteq Loose(k)
    BY <1>4, WatchdogAssumption DEF Emit, Idle, InsertHealingEvent
  <2> QED BY <1>4, <2>1, NoneLoosened DEF Emit, faultVars
<1>5. ASSUME NEW j \in Keys, EmitError(j) PROVE LooseInv'
  <2>1. \A k \in Keys : Loose(k)' \subseteq Loose(k) \cup {count + 1}
    BY <1>5, WatchdogAssumption
       DEF EmitError, Idle, InsertHealingEvent, rowVars, opVars
  <2> QED BY <1>5, <2>1, OneLoosened DEF EmitError, Fault
<1>6. ASSUME NEW j \in Keys, Resolve(j) PROVE LooseInv'
  <2>1. \A k \in Keys : Loose(k)' \subseteq Loose(k)
    BY <1>6 DEF Resolve, Idle, rowVars
  <2> QED BY <1>6, <2>1, NoneLoosened DEF Resolve, faultVars
<1>7. CASE Register
  <2>1. \A k \in Keys : Loose(k)' \subseteq Loose(k)
    BY <1>7 DEF Register, EndOp, rowVars
  <2> QED BY <1>7, <2>1, NoneLoosened DEF Register, faultVars
<1>8. CASE ResolveHealingEvent
  <2>1. CASE UNCHANGED faults
    <3>1. \A k \in Keys : Loose(k)' \subseteq Loose(k)
      BY <1>8, <2>1 DEF ResolveHealingEvent, Closed, EndOp, Fault
    <3> QED BY <2>1, <3>1, NoneLoosened
  <2>2. CASE faults' = faults + 1
    <3>1. \A k \in Keys : Loose(k)' \subseteq Loose(k) \cup {opEvent}
      BY <1>8, <2>2 DEF ResolveHealingEvent, Closed, EndOp
    <3> QED BY <2>2, <3>1, OneLoosened
  <2> QED BY <1>8, <2>1, <2>2 DEF ResolveHealingEvent, Fault, faultVars
<1> QED BY <1>1, <1>2, <1>3, <1>4, <1>5, <1>6, <1>7, <1>8 DEF PollStep

\* A restart that reads the rows finds one of those a key has, so all but one
\* are loose; one that cannot read them loosens at most one more.
LEMMA RestartKeepsLoose ==
  ASSUME WdInv, LooseInv, Restart
  PROVE  LooseInv'
<1> SUFFICES ASSUME NEW k \in Keys PROVE Cardinality(Loose(k)') <= faults'
  BY DEF LooseInv
<1>1. faults \in Nat /\ UNCHANGED rowVars /\ op' = "none"
  BY DEF Restart, WdInv, WatchdogTypeOK, FaultTypeOK
<1>2. OpenRows(k)' = OpenRows(k)
  BY <1>1 DEF rowVars, OpenRows
<1>3. /\ IsFiniteSet(OpenRows(k)) /\ Cardinality(OpenRows(k)) \in Nat
      /\ Cardinality(OpenRows(k)) <= faults + 1
  BY <1>1, LooseType, RowsAreFinite, OneRowIsNotLoose DEF LooseInv
<1>4. CASE active' = Reconstructed /\ CrashHappens
  <2>1. CASE OpenRows(k) = {}
    <3>1. Loose(k)' = {}
      BY <1>2, <2>1 DEF Loose
    <3> QED BY <1>1, <1>4, <3>1, FS_EmptySet DEF CrashHappens
  <2>2. CASE OpenRows(k) # {}
    <3>1. active'[k] \in OpenRows(k)
      BY <1>4, <2>2, ReconstructedEntries DEF WdInv
    <3>2. Loose(k)' \subseteq OpenRows(k) \ {active'[k]}
      BY <1>2 DEF Loose
    <3>3. /\ IsFiniteSet(OpenRows(k) \ {active'[k]})
          /\ Cardinality(OpenRows(k) \ {active'[k]}) = Cardinality(OpenRows(k)) - 1
      BY <1>3, <3>1, FS_RemoveElement
    <3>4. Cardinality(Loose(k)') <= Cardinality(OpenRows(k) \ {active'[k]})
      BY <3>2, <3>3, FS_Subset
    <3>5. IsFiniteSet(Loose(k)')
      BY <3>2, <3>3, FS_Subset
    <3>6. Cardinality(Loose(k)') \in Nat
      BY <3>5, FS_CardinalityType
    <3> QED BY <1>1, <1>3, <1>4, <3>3, <3>4, <3>6 DEF CrashHappens
  <2> QED BY <2>1, <2>2
<1>5. CASE active' = [j \in Keys |-> None] /\ faults' = faults + 1
  <2>1. Loose(k)' \subseteq OpenRows(k)
    BY <1>2 DEF Loose
  <2>2. IsFiniteSet(Loose(k)') /\ Cardinality(Loose(k)') <= Cardinality(OpenRows(k))
    BY <1>3, <2>1, FS_Subset
  <2>3. Cardinality(Loose(k)') \in Nat
    BY <2>2, FS_CardinalityType
  <2> QED BY <1>1, <1>3, <1>5, <2>2, <2>3
<1> QED BY <1>4, <1>5 DEF Restart

\* Every step keeps LooseInv.
LEMMA LooseStep == WdInv /\ LooseInv /\ [Next]_wdVars => LooseInv'
<1> SUFFICES ASSUME WdInv, LooseInv, [Next]_wdVars PROVE LooseInv'
  OBVIOUS
<1>1. CASE UNCHANGED wdVars
  BY <1>1, NoneLoosened DEF wdVars, rowVars, opVars, faultVars, Loose, OpenRows
<1> QED BY <1>1, OutsideKeepsLoose, PollKeepsLoose, RestartKeepsLoose DEF Next

\* What the detector knows, and what it does not know of, in every behaviour.
LEMMA WdInductive == Spec => [](WdInv /\ LooseInv)
<1>1. Init => WdInv /\ LooseInv
  BY WdInit, LooseInit
<1>2. WdInv /\ LooseInv /\ [Next]_wdVars => (WdInv /\ LooseInv)'
  BY WdStep, LooseStep
<1> QED BY <1>1, <1>2, PTL DEF Spec

\* A condition has one active row, and one more at most for every database
\* call that failed, however many restarts fall inside emit and resolve
\* (detector.go), and whatever is acknowledged or resolved from outside.
THEOREM OneActive == Spec => []OneActivePerKey
<1>1. WdInv /\ LooseInv => OneActivePerKey
  <2> SUFFICES ASSUME WdInv, LooseInv, NEW k \in Keys
               PROVE  Cardinality(OpenRows(k)) <= 1 + faults
    BY DEF OneActivePerKey
  <2>1. faults \in Nat
    BY DEF WdInv, WatchdogTypeOK, FaultTypeOK
  <2>2. Cardinality(OpenRows(k)) \in Nat
    BY LooseType, RowsAreFinite
  <2> QED BY <2>1, <2>2, LooseType, OneRowIsNotLoose DEF LooseInv
<1> QED BY <1>1, WdInductive, PTL

\* Without a failed database call, the map (rebuilt by reconstructActiveState
\* after every restart) and the call in progress name every active row.
THEOREM ActiveRowsKnown == Spec => []ActiveRowsAreKnown
<1>1. WdInv /\ LooseInv => ActiveRowsAreKnown
  <2> SUFFICES ASSUME WdInv, LooseInv, faults = 0, NEW k \in Keys
               PROVE  Loose(k) = {}
    BY DEF ActiveRowsAreKnown, Loose
  <2>1. Cardinality(Loose(k)) = 0
    BY LooseType DEF LooseInv
  <2> QED BY <2>1, LooseType, RowsAreFinite, FS_EmptySet, FS_Subset
<1> QED BY <1>1, WdInductive, PTL
===========================================================================
