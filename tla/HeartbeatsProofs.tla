------------------------- MODULE HeartbeatsProofs -------------------------
(***************************************************************************)
(* Theorems about Heartbeats, for any number of workers, any intervals,    *)
(* thresholds, faults and changes.                                         *)
(*                                                                         *)
(* PunctualIsNotReported rests on a chain of ages: a punctual worker's row *)
(* is no older than its ticker, and what a poll has read of it no older    *)
(* than that and the time the poll has taken.                              *)
(*                                                                         *)
(* SilentIsReported rests on another: a silent worker without an entry was *)
(* not stale when it was last examined, at most one interval and one poll  *)
(* ago, or a call failed in every poll since.                              *)
(***************************************************************************)
EXTENDS Heartbeats, TLAPS

USE HeartbeatAssumption, FaultAssumption

\* A poll begins with its timer.
PollInv ==
  /\ stage # "idle" => pollTimer = stall
  /\ stage = "idle" => pollTimer <= PollEvery

\* What is read of a worker is at least as old as its row.
GapInv == \A w \in read : silent[w] <= gap[w]

\* A worker that is not wronged has beaten at its last tick.
PunctualInv ==
  \A w \in Workers \ wronged :
    /\ w \in alive
    /\ silent[w] <= beatTimer[w]
    /\ w \in read => gap[w] <= BeatEvery + stall
    /\ w \notin entry

HbInv == HeartbeatsTypeOK /\ PollInv /\ GapInv /\ PunctualInv

----------------------------------------------------------------------------
\* Adding one to an age.
LEMMA OlderType ==
  ASSUME NEW n \in Ages
  PROVE  /\ Older(n) \in Ages
         /\ Older(n) <= n + 1 /\ n <= Older(n)
         /\ n <= Orphan => Older(n) = n + 1
         /\ \A m \in Ages : m <= n => Older(m) <= Older(n)
BY DEF Ages, Older

\* All workers start at once, and nothing is stale.
LEMMA HbInit == HeartbeatsInit => HbInv
BY DEF HeartbeatsInit, HbInv, HeartbeatsTypeOK, FaultInit, FaultTypeOK, Ages,
       PollInv, GapInv, PunctualInv

\* A beat brings its row up to date, or its worker is wronged.
LEMMA BeatKeeps ==
  ASSUME HbInv, NEW w \in Workers, Beat(w)
  PROVE  HbInv'
<1>1. HeartbeatsTypeOK'
  BY DEF HbInv, HeartbeatsTypeOK, FaultTypeOK, Ages, Beat, UpsertHeartbeat, Fault,
         faultVars, pollSide
<1>2. PollInv'
  BY DEF HbInv, PollInv, Beat, pollSide
<1>3. GapInv'
  BY DEF HbInv, HeartbeatsTypeOK, Ages, GapInv, Beat, UpsertHeartbeat, pollSide
<1>4. PunctualInv'
  BY DEF HbInv, HeartbeatsTypeOK, Ages, PunctualInv, Beat, UpsertHeartbeat, pollSide
<1> QED BY <1>1, <1>2, <1>3, <1>4 DEF HbInv

\* A worker that stops is wronged; one that starts has its tick to come.
LEMMA ChangeKeeps ==
  ASSUME HbInv, NEW w \in Workers, Stop(w) \/ Start(w)
  PROVE  HbInv'
<1>1. CASE Stop(w)
  BY <1>1 DEF HbInv, HeartbeatsTypeOK, FaultTypeOK, PollInv, GapInv, PunctualInv,
              Stop, Change, pollSide, faultVars
<1>2. CASE Start(w)
  <2>1. HeartbeatsTypeOK'
    BY <1>2 DEF HbInv, HeartbeatsTypeOK, FaultTypeOK, Start, Change, pollSide, faultVars
  <2>2. PollInv' /\ GapInv'
    BY <1>2 DEF HbInv, PollInv, GapInv, Start, pollSide
  <2>3. w \in wronged
    BY <1>2 DEF HbInv, PunctualInv, Start
  <2>4. PunctualInv'
    BY <1>2, <2>3 DEF HbInv, HeartbeatsTypeOK, PunctualInv, Start, pollSide
  <2> QED BY <2>1, <2>2, <2>4 DEF HbInv
<1> QED BY <1>1, <1>2

\* A chaos cleanup only deletes rows.
LEMMA CleanupKeeps ==
  ASSUME HbInv, ChaosCleanup
  PROVE  HbInv'
BY DEF HbInv, HeartbeatsTypeOK, FaultTypeOK, PollInv, GapInv, PunctualInv,
       ChaosCleanup, Change, pollSide, faultVars

\* A poll reads ages, and reports no one whose age is below the threshold.
LEMMA PollKeeps ==
  ASSUME HbInv, PollStep
  PROVE  HbInv'
<1>1. CASE StartPoll
  BY <1>1 DEF HbInv, HeartbeatsTypeOK, FaultTypeOK, PollInv, GapInv, PunctualInv,
              StartPoll, DeleteStaleHeartbeats, Fault, faultVars
<1>2. CASE ListHeartbeats
  <2>1. HeartbeatsTypeOK'
    BY <1>2 DEF HbInv, HeartbeatsTypeOK, FaultTypeOK, ListHeartbeats, Ages, Fault,
                workerSide, faultVars
  <2>2. PollInv' /\ GapInv'
    BY <1>2 DEF HbInv, HeartbeatsTypeOK, Ages, PollInv, GapInv, ListHeartbeats, workerSide
  <2>3. PunctualInv'
    BY <1>2 DEF HbInv, HeartbeatsTypeOK, Ages, PunctualInv, PollInv, ListHeartbeats, workerSide
  <2> QED BY <2>1, <2>2, <2>3 DEF HbInv
<1>3. ASSUME NEW w \in Workers, Examine(w) PROVE HbInv'
  <2>1. HeartbeatsTypeOK'
    BY <1>3 DEF HbInv, HeartbeatsTypeOK, FaultTypeOK, Examine, Ages, Fault, workerSide, faultVars
  <2>2. PollInv' /\ GapInv'
    BY <1>3 DEF HbInv, HeartbeatsTypeOK, PollInv, GapInv, Examine, workerSide
  <2>3. gap[w] > Stale => w \in wronged
    BY <1>3 DEF HbInv, HeartbeatsTypeOK, Ages, PunctualInv, Examine
  <2>4. PunctualInv'
    BY <1>3, <2>3 DEF HbInv, HeartbeatsTypeOK, PunctualInv, Examine, workerSide
  <2> QED BY <2>1, <2>2, <2>4 DEF HbInv
<1>4. CASE ResolveRecovered
  <2>1. HeartbeatsTypeOK'
    BY <1>4 DEF HbInv, HeartbeatsTypeOK, FaultTypeOK, ResolveRecovered, faultVars
  <2>2. PollInv' /\ GapInv'
    BY <1>4 DEF HbInv, HeartbeatsTypeOK, PollInv, GapInv, ResolveRecovered
  <2>3. PunctualInv'
    BY <1>4 DEF HbInv, PunctualInv, ResolveRecovered, Recovered
  <2> QED BY <2>1, <2>2, <2>3 DEF HbInv
<1> QED BY <1>1, <1>2, <1>3, <1>4 DEF PollStep

\* Time makes rows and what was read of them older alike.
LEMMA TickKeeps ==
  ASSUME HbInv, Tick
  PROVE  HbInv'
<1>1. /\ \A w \in Workers : silent[w] \in Ages /\ silent'[w] = Older(silent[w])
      /\ \A w \in read : gap[w] \in Ages /\ gap'[w] = Older(gap[w])
      /\ \A w \in Workers : gap'[w] \in Ages
  BY OlderType DEF HbInv, HeartbeatsTypeOK, Tick, Ages
<1>2. HeartbeatsTypeOK'
  <2>1. silent' \in [Workers -> Ages] /\ gap' \in [Workers -> Ages]
    BY <1>1, OlderType DEF Tick
  <2>2. beatTimer' \in [Workers -> 0..BeatEvery]
    BY DEF HbInv, HeartbeatsTypeOK, Tick
  <2>3. pollTimer' \in 0..(PollEvery + MaxStall) /\ stall' \in 0..MaxStall
    BY DEF HbInv, HeartbeatsTypeOK, PollInv, Tick
  <2> QED BY <2>1, <2>2, <2>3 DEF HbInv, HeartbeatsTypeOK, FaultTypeOK, Tick, faultVars
<1>3. PollInv'
  BY DEF HbInv, HeartbeatsTypeOK, PollInv, Tick
<1>4. GapInv'
  BY <1>1, OlderType DEF HbInv, HeartbeatsTypeOK, GapInv, Tick
<1>5. ASSUME NEW w \in Workers \ wronged
      PROVE  /\ w \in alive /\ silent'[w] <= beatTimer'[w]
             /\ w \in read => gap'[w] <= BeatEvery + stall'
             /\ w \notin entry
  <2>1. w \in alive /\ silent[w] <= beatTimer[w] /\ w \notin entry
    BY DEF HbInv, PunctualInv
  <2>2. beatTimer'[w] = beatTimer[w] + 1 /\ beatTimer[w] \in Nat
    BY <2>1 DEF HbInv, HeartbeatsTypeOK, Tick
  <2>3. silent'[w] <= silent[w] + 1 /\ silent[w] \in Nat /\ silent'[w] \in Nat
    BY <1>1, OlderType DEF Ages
  <2>4. ASSUME w \in read
        PROVE  gap'[w] <= BeatEvery + stall'
    <3>1. stage = "examine" /\ stall' = stall + 1
      BY <2>4 DEF HbInv, HeartbeatsTypeOK, PollInv, Tick
    <3>2. gap'[w] <= gap[w] + 1 /\ gap[w] \in Nat /\ gap'[w] \in Nat /\ stall \in Nat
      BY <1>1, <2>4, OlderType DEF Ages, HbInv, HeartbeatsTypeOK
    <3>3. gap[w] <= BeatEvery + stall
      BY <2>4 DEF HbInv, PunctualInv
    <3> QED BY <3>1, <3>2, <3>3
  <2> QED BY <2>1, <2>2, <2>3, <2>4
<1>6. PunctualInv'
  BY <1>5 DEF PunctualInv, Tick
<1> QED BY <1>2, <1>3, <1>4, <1>6 DEF HbInv

\* Every step keeps the invariant.
LEMMA HbStep == HbInv /\ [HeartbeatsNext]_hbVars => HbInv'
<1> SUFFICES ASSUME HbInv, [HeartbeatsNext]_hbVars
             PROVE  HbInv'
  OBVIOUS
<1>1. CASE UNCHANGED hbVars
  BY <1>1 DEF hbVars, faultVars, HbInv, HeartbeatsTypeOK, FaultTypeOK, PollInv, GapInv,
              PunctualInv
<1> QED BY <1>1, TickKeeps, PollKeeps, BeatKeeps, ChangeKeeps, CleanupKeeps
        DEF HeartbeatsNext

\* The workers and the watchdog keep it for ever.
LEMMA HbInductive == HeartbeatsSpec => []HbInv
BY HbInit, HbStep, PTL DEF HeartbeatsSpec

\* Every variable keeps its type; a poll never lags behind by more than the
\* time it may take.
THEOREM HeartbeatsTypeCorrect == HeartbeatsSpec => []HeartbeatsTypeOK
<1>1. HbInv => HeartbeatsTypeOK
  BY DEF HbInv
<1> QED BY <1>1, HbInductive, PTL

\* As long as the interval of the heartbeats and the duration of a poll
\* together stay below the threshold, detectStaleWorkers reports no worker that
\* beats.
THEOREM PunctualWorkersAreNotReported == HeartbeatsSpec => []PunctualIsNotReported
<1>1. HbInv => PunctualIsNotReported
  BY DEF HbInv, HeartbeatsTypeOK, PunctualInv, PunctualIsNotReported
<1> QED BY <1>1, HbInductive, PTL

----------------------------------------------------------------------------
(* How long a silent worker can go without an entry.                       *)

\* What n failed calls can cost: an interval and a poll each.
Delay(n) == n * (PollEvery + MaxStall)

\* Delays add up.
LEMMA DelayGrows ==
  ASSUME NEW n \in Nat
  PROVE  /\ Delay(n) \in Nat
         /\ Delay(n + 1) = Delay(n) + PollEvery + MaxStall
<1>1. PollEvery \in Nat /\ MaxStall \in Nat
  OBVIOUS
<1>2. ASSUME NEW d \in Nat
      PROVE  n * d \in Nat /\ (n + 1) * d = n * d + d
  OBVIOUS
<1> QED BY <1>1, <1>2 DEF Delay

\* The time since the watchdog could last examine w, and found it not stale.
Unseen(w) ==
  IF stage = "idle" THEN pollTimer
  ELSE IF stage = "examine" /\ w \notin read THEN stall
  ELSE PollEvery + stall

\* A listed worker has a row.  If the poll has examined it and did not find it
\* stale, it was not stale then; if it has no entry, it became stale since it
\* was last seen, but for the calls that failed.
SilentInv ==
  \A w \in Workers \ unlisted :
    silent[w] <= Orphan =>
      /\ w \in rows
      /\ stage = "examine" /\ w \notin read /\ w \notin stale =>
           silent[w] <= Stale + stall
      /\ w \notin entry => silent[w] <= Stale + Delay(faults) + Unseen(w)

\* Nobody is listed at first.
LEMMA SilentInit == HeartbeatsInit => SilentInv
BY DEF HeartbeatsInit, SilentInv

\* What the steps can rely on: delays do not shrink.
LEMMA DelayStep ==
  ASSUME HbInv
  PROVE  /\ faults \in Nat /\ Delay(faults) \in Nat /\ Delay(faults + 1) \in Nat
         /\ Delay(faults + 1) = Delay(faults) + PollEvery + MaxStall
<1>1. faults \in Nat
  BY DEF HbInv, HeartbeatsTypeOK, FaultTypeOK
<1> QED BY <1>1, DelayGrows

\* A beat makes a row that is up to date.
LEMMA BeatKeepsSilent ==
  ASSUME HbInv, SilentInv, NEW w \in Workers, Beat(w)
  PROVE  SilentInv'
<1> SUFFICES ASSUME NEW v \in Workers, v \notin unlisted', silent'[v] <= Orphan
             PROVE  /\ v \in rows'
                    /\ stage' = "examine" /\ v \notin read' /\ v \notin stale' =>
                         silent'[v] <= Stale + stall'
                    /\ v \notin entry' => silent'[v] <= Stale + Delay(faults)' + Unseen(v)'
  BY DEF SilentInv
<1>1. /\ UNCHANGED <<stage, read, stale, stall, entry, pollTimer>>
      /\ Unseen(v)' = Unseen(v) /\ Unseen(v) \in Nat /\ stall \in Nat
  BY DEF Beat, pollSide, Unseen, HbInv, HeartbeatsTypeOK
<1>2. faults' \in {faults, faults + 1}
  BY DEF Beat, Fault, faultVars
<1>3. Delay(faults)' = Delay(faults') /\ Delay(faults') >= Delay(faults) /\ Delay(faults') \in Nat
  BY <1>2, DelayStep DEF Delay
<1>4. CASE v \in rows' /\ silent'[v] = 0
  BY <1>1, <1>3, <1>4
<1>5. CASE v \notin unlisted /\ silent'[v] = silent[v] /\ (v \in rows => v \in rows')
  <2>1. silent[v] \in Nat
    BY DEF HbInv, HeartbeatsTypeOK, Ages
  <2> QED BY <1>1, <1>3, <1>5, <2>1, DelayStep DEF SilentInv
<1>6. (v \in rows' /\ silent'[v] = 0)
        \/ (v \notin unlisted /\ silent'[v] = silent[v] /\ (v \in rows => v \in rows'))
  BY DEF Beat, UpsertHeartbeat, HbInv, HeartbeatsTypeOK
<1> QED BY <1>4, <1>5, <1>6

\* A worker that stops or starts keeps its row; a cleanup takes rows off the
\* list.
LEMMA ChangeKeepsSilent ==
  ASSUME HbInv, SilentInv, ChaosCleanup \/ \E w \in Workers : Stop(w) \/ Start(w)
  PROVE  SilentInv'
<1>1. UNCHANGED <<silent, stage, read, stale, stall, entry, pollTimer, faults>>
  BY DEF Stop, Start, ChaosCleanup, pollSide, faultVars
<1>2. /\ \A v \in Workers : v \notin unlisted' => v \notin unlisted /\ (v \in rows => v \in rows')
  BY DEF Stop, Start, ChaosCleanup
<1>3. \A v \in Workers : Unseen(v)' = Unseen(v) /\ Delay(faults)' = Delay(faults)
  BY <1>1 DEF Unseen, Delay
<1> QED BY <1>1, <1>2, <1>3 DEF SilentInv

\* Time passes for the rows and for the poll alike.
LEMMA TickKeepsSilent ==
  ASSUME HbInv, SilentInv, Tick
  PROVE  SilentInv'
<1> SUFFICES ASSUME NEW v \in Workers, v \notin unlisted', silent'[v] <= Orphan
             PROVE  /\ v \in rows'
                    /\ stage' = "examine" /\ v \notin read' /\ v \notin stale' =>
                         silent'[v] <= Stale + stall'
                    /\ v \notin entry' => silent'[v] <= Stale + Delay(faults)' + Unseen(v)'
  BY DEF SilentInv
<1>1. /\ UNCHANGED <<stage, read, stale, entry, rows, unlisted, faults>>
      /\ pollTimer' = pollTimer + 1
      /\ stage # "idle" => stall' = stall + 1
      /\ pollTimer \in Nat /\ stall \in Nat
  BY DEF Tick, faultVars, HbInv, HeartbeatsTypeOK
<1>2. silent[v] \in Ages /\ silent'[v] = Older(silent[v])
  BY DEF Tick, HbInv, HeartbeatsTypeOK
<1>3. silent[v] <= Orphan /\ silent'[v] = silent[v] + 1 /\ silent[v] \in Nat
  BY <1>2 DEF Ages, Older
<1>4. Unseen(v)' = Unseen(v) + 1 /\ Unseen(v) \in Nat
  BY <1>1 DEF Unseen
<1>5. Delay(faults)' = Delay(faults) /\ Delay(faults) \in Nat
  BY <1>1, DelayStep DEF Delay
<1> QED BY <1>1, <1>3, <1>4, <1>5 DEF SilentInv

\* A poll that begins finds the rows within an interval of when they were last
\* examined, and deletes only those that are orphans.
LEMMA StartPollKeepsSilent ==
  ASSUME HbInv, SilentInv, StartPoll
  PROVE  SilentInv'
<1>1. /\ UNCHANGED <<silent, unlisted, entry>> /\ stage' = "list" /\ stall' = 0
      /\ \A v \in Workers : Unseen(v)' = PollEvery /\ Unseen(v) = pollTimer
      /\ pollTimer \in Nat /\ pollTimer <= PollEvery
  BY DEF StartPoll, Unseen, HbInv, HeartbeatsTypeOK, PollInv
<1>2. \A v \in Workers : v \in rows /\ silent[v] <= Orphan => v \in rows'
  BY DEF StartPoll, DeleteStaleHeartbeats
<1>3. /\ Delay(faults) \in Nat /\ Delay(faults)' \in Nat
      /\ Delay(faults)' >= Delay(faults)
  <2>1. faults' \in {faults, faults + 1}
    BY DEF StartPoll, Fault, faultVars
  <2> QED BY <2>1, DelayStep DEF Delay
<1>4. \A v \in Workers : silent[v] \in Nat
  BY DEF HbInv, HeartbeatsTypeOK, Ages
<1> QED BY <1>1, <1>2, <1>3, <1>4 DEF SilentInv

\* The rows are read; when that fails the next poll has to make up for it.
LEMMA ListKeepsSilent ==
  ASSUME HbInv, SilentInv, ListHeartbeats
  PROVE  SilentInv'
<1>1. /\ UNCHANGED <<silent, unlisted, rows, entry, stall>> /\ stage = "list"
      /\ \A v \in Workers : Unseen(v) = PollEvery + stall
      /\ stall \in Nat /\ stall <= MaxStall /\ pollTimer = stall /\ pollTimer' = stall
  BY DEF ListHeartbeats, workerSide, Unseen, HbInv, HeartbeatsTypeOK, PollInv
<1>2. \A v \in Workers : silent[v] \in Nat
  BY DEF HbInv, HeartbeatsTypeOK, Ages
<1>3. CASE stage' = "examine" /\ read' = rows /\ UNCHANGED faultVars
  <2>1. \A v \in rows : Unseen(v)' = PollEvery + stall
    BY <1>1, <1>3 DEF Unseen
  <2>2. Delay(faults)' = Delay(faults)
    BY <1>3 DEF Delay, faultVars
  <2> QED BY <1>1, <1>3, <2>1, <2>2 DEF SilentInv
<1>4. CASE stage' = "idle" /\ Fault
  <2>1. /\ Delay(faults)' = Delay(faults) + PollEvery + MaxStall
        /\ Delay(faults) \in Nat /\ Delay(faults)' \in Nat
    BY <1>4, DelayStep DEF Fault, Delay
  <2>2. \A v \in Workers : Unseen(v)' = stall
    BY <1>1, <1>4 DEF Unseen
  <2> QED BY <1>1, <1>2, <1>4, <2>1, <2>2 DEF SilentInv
<1> QED BY <1>3, <1>4 DEF ListHeartbeats

\* A row that is examined is not stale, or is reported, unless emit fails.
LEMMA ExamineKeepsSilent ==
  ASSUME HbInv, SilentInv, NEW w \in Workers, Examine(w)
  PROVE  SilentInv'
<1>1. /\ UNCHANGED <<silent, unlisted, rows, stall, stage, pollTimer>> /\ stage = "examine"
      /\ \A v \in Workers : Unseen(v)' = IF v = w THEN stall ELSE Unseen(v)
      /\ Unseen(w) = PollEvery + stall /\ w \in read /\ read' = read \ {w}
      /\ stall \in Nat /\ stall <= MaxStall
      /\ stale' = IF gap[w] > Stale THEN stale \cup {w} ELSE stale
      /\ entry' \in {entry, entry \cup {w}}
  BY DEF Examine, workerSide, Unseen, HbInv, HeartbeatsTypeOK
<1>2. \A v \in Workers : silent[v] \in Nat /\ gap[v] \in Nat /\ Unseen(v) \in Nat
  BY DEF HbInv, HeartbeatsTypeOK, Ages, Unseen
<1>3. silent[w] <= gap[w]
  BY <1>1 DEF HbInv, GapInv
<1>4. /\ Delay(faults) \in Nat /\ Delay(faults)' \in Nat
      /\ Delay(faults)' >= Delay(faults)
      /\ gap[w] > Stale => \/ w \in entry'
                          \/ Delay(faults)' = Delay(faults) + PollEvery + MaxStall
  <2>1. \/ faults' = faults /\ (gap[w] > Stale => w \in entry')
        \/ faults' = faults + 1
    BY DEF Examine, Fault, faultVars
  <2> QED BY <2>1, DelayStep DEF Delay
<1> SUFFICES ASSUME NEW v \in Workers, v \notin unlisted', silent'[v] <= Orphan
             PROVE  /\ v \in rows'
                    /\ stage' = "examine" /\ v \notin read' /\ v \notin stale' =>
                         silent'[v] <= Stale + stall'
                    /\ v \notin entry' => silent'[v] <= Stale + Delay(faults)' + Unseen(v)'
  BY DEF SilentInv
<1>5. CASE v = w
  <2>1. v \in rows /\ (v \notin entry => silent[v] <= Stale + Delay(faults) + Unseen(v))
    BY <1>1 DEF SilentInv
  <2> QED BY <1>1, <1>2, <1>3, <1>4, <1>5, <2>1
<1>6. CASE v # w
  <2>1. /\ v \in rows
        /\ v \notin read /\ v \notin stale => silent[v] <= Stale + stall
        /\ v \notin entry => silent[v] <= Stale + Delay(faults) + Unseen(v)
    BY <1>1 DEF SilentInv
  <2> QED BY <1>1, <1>2, <1>4, <1>6, <2>1
<1> QED BY <1>5, <1>6

\* An entry is removed when its worker was examined and was not stale.
LEMMA ResolveKeepsSilent ==
  ASSUME HbInv, SilentInv, ResolveRecovered
  PROVE  SilentInv'
<1>1. /\ UNCHANGED <<silent, unlisted, rows, pollTimer, faults>>
      /\ stage = "examine" /\ read = {} /\ stage' = "idle" /\ pollTimer = stall
      /\ stall \in Nat /\ entry' = entry \ (entry \ stale)
  BY DEF ResolveRecovered, Recovered, HbInv, HeartbeatsTypeOK, PollInv, faultVars
<1>2. \A v \in Workers : Unseen(v) = stall /\ Unseen(v)' = stall
  BY <1>1 DEF Unseen
<1>3. \A v \in Workers : silent[v] \in Nat
  BY DEF HbInv, HeartbeatsTypeOK, Ages
<1>4. Delay(faults)' = Delay(faults) /\ Delay(faults) \in Nat
  BY <1>1, DelayStep DEF Delay
<1> QED BY <1>1, <1>2, <1>3, <1>4 DEF SilentInv

\* Every step keeps it.
LEMMA SilentStep == HbInv /\ SilentInv /\ [HeartbeatsNext]_hbVars => SilentInv'
<1> SUFFICES ASSUME HbInv, SilentInv, [HeartbeatsNext]_hbVars
             PROVE  SilentInv'
  OBVIOUS
<1>1. CASE UNCHANGED hbVars
  <2>1. \A v \in Workers : Unseen(v)' = Unseen(v) /\ Delay(faults)' = Delay(faults)
    BY <1>1 DEF hbVars, faultVars, Unseen, Delay
  <2> QED BY <1>1, <2>1 DEF hbVars, SilentInv
<1>2. CASE PollStep
  BY <1>2, StartPollKeepsSilent, ListKeepsSilent, ExamineKeepsSilent, ResolveKeepsSilent
     DEF PollStep
<1> QED BY <1>1, <1>2, TickKeepsSilent, BeatKeepsSilent, ChangeKeepsSilent DEF HeartbeatsNext

\* For any intervals and thresholds, a silent worker is reported by
\* detectStaleWorkers in time: the threshold, an interval and a poll after its
\* last beat, and as much again for every call that failed.
THEOREM SilentWorkersAreReported == HeartbeatsSpec => []SilentIsReported
<1>1. HbInv /\ SilentInv => SilentIsReported
  <2> SUFFICES ASSUME HbInv, SilentInv, NEW w \in Workers \ unlisted, silent[w] <= Orphan,
                      silent[w] > Stale + (faults + 1) * (PollEvery + MaxStall), w \notin entry
               PROVE  FALSE
    BY DEF SilentIsReported
  <2>1. (faults + 1) * (PollEvery + MaxStall) = Delay(faults) + PollEvery + MaxStall
    BY DelayStep DEF Delay
  <2>2. Unseen(w) <= PollEvery + MaxStall /\ Unseen(w) \in Nat
    BY DEF Unseen, HbInv, HeartbeatsTypeOK, PollInv
  <2>3. silent[w] <= Stale + Delay(faults) + Unseen(w) /\ silent[w] \in Nat
    BY DEF SilentInv, HbInv, HeartbeatsTypeOK, Ages
  <2> QED BY <2>1, <2>2, <2>3, DelayStep
<1>2. HeartbeatsInit => SilentInv
  BY SilentInit
<1> QED BY <1>1, <1>2, SilentStep, HbInductive, PTL DEF HeartbeatsSpec
===========================================================================
