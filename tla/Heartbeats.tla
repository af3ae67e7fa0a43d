---------------------------- MODULE Heartbeats ----------------------------
(***************************************************************************)
(* Workers report themselves in worker_heartbeats and the watchdog's       *)
(* detectStaleWorkers looks for those that no longer do.  Time passes in   *)
(* steps; what is due happens before it goes on.  A poll takes time too:   *)
(* the rows are read once, and each gap is measured when its turn comes,   *)
(* after the events for the rows before it were inserted and posted.       *)
(*                                                                         *)
(* entry abstracts the dedup map and the rows of module Watchdog to the    *)
(* workers that have an open worker.stale event.                           *)
(***************************************************************************)
EXTENDS Faults

CONSTANTS
  Workers,
  BeatEvery,   \* WATCHDOG_HEARTBEAT_INTERVAL_SECONDS (10 s)
  PollEvery,   \* WATCHDOG_POLL_INTERVAL_SECONDS (15 s)
  Stale,       \* WATCHDOG_HEARTBEAT_STALE_SECONDS (60 s)
  Orphan,      \* orphanThreshold (2 min)
  MaxStall,    \* bound on the time a poll takes
  MaxChanges   \* bound on workers that stop or start, and chaos cleanups

ASSUME HeartbeatAssumption ==
  /\ BeatEvery \in Nat \ {0} /\ PollEvery \in Nat \ {0}
  /\ Stale \in Nat /\ Orphan \in Nat
  /\ MaxStall \in 0..PollEvery /\ MaxChanges \in Nat
  /\ BeatEvery + MaxStall < Stale
  /\ Stale + (MaxFaults + 1) * (PollEvery + MaxStall) < Orphan

VARIABLES
  alive,      \* workers that run
  changes,
  beatTimer,  \* time since the worker's ticker fired
  silent,     \* time since the worker's last upsert; capped
  rows,       \* workers with a row in worker_heartbeats
  pollTimer,  \* time since the last poll began
  stage,      \* where the poll is: "idle", "list", "examine"
  stall,      \* how long it has taken
  read,       \* rows read and not examined yet
  gap,        \* gap[w]: age of what was read of w
  stale,      \* currentlyStale
  entry,      \* workers with an entry worker.stale:w in the dedup map
  wronged,    \* workers that stopped, or failed to beat, since they last were
              \* taken off the list when up to date
  unlisted    \* workers that have not beaten yet, or whose row a chaos cleanup
              \* deleted since

hbVars == <<alive, changes, beatTimer, silent, rows, pollTimer, stage, stall,
            read, gap, stale, entry, wronged, unlisted, faultVars>>
workerSide == <<alive, changes, beatTimer, silent, rows, wronged, unlisted>>
pollSide == <<pollTimer, stage, stall, read, gap, stale, entry>>

Ages == 0..(Orphan + 1)

\* Ages beyond Orphan are not told apart.
Older(n) == IF n <= Orphan THEN n + 1 ELSE n

\* Types; and a poll is not over before it has examined every row that it read.
HeartbeatsTypeOK ==
  /\ FaultTypeOK
  /\ {alive, rows, read, stale, entry, wronged, unlisted} \subseteq SUBSET Workers
  /\ changes \in 0..MaxChanges
  /\ beatTimer \in [Workers -> 0..BeatEvery]
  /\ silent \in [Workers -> Ages] /\ gap \in [Workers -> Ages]
  /\ pollTimer \in 0..(PollEvery + MaxStall)
  /\ stage \in {"idle", "list", "examine"}
  /\ stall \in 0..MaxStall
  /\ read # {} \/ stale # {} => stage = "examine"

\* All workers have just started, and so has the watchdog, which polls at once.
HeartbeatsInit ==
  /\ FaultInit
  /\ alive = Workers /\ changes = 0
  /\ beatTimer = [w \in Workers |-> BeatEvery]
  /\ silent = [w \in Workers |-> 0]
  /\ rows = {}
  /\ pollTimer = PollEvery
  /\ stage = "idle" /\ stall = 0
  /\ read = {} /\ gap = [w \in Workers |-> 0] /\ stale = {}
  /\ entry = {} /\ wronged = {} /\ unlisted = Workers

----------------------------------------------------------------------------
(* The workers.                                                            *)

\* Mutant of UpsertHeartbeat: an existing row keeps its last_seen_at.
UpsertOnce(w) ==
  /\ silent' = [silent EXCEPT ![w] = IF w \in rows THEN @ ELSE 0]
  /\ rows' = rows \cup {w}
  /\ unlisted' = unlisted \ {w}

UpsertHeartbeat(w) ==
  /\ silent' = [silent EXCEPT ![w] = 0]
  /\ rows' = rows \cup {w}
  /\ unlisted' = unlisted \ {w}

\* sendHeartbeat, at the start and at every tick; an error is only logged.
Beat(w) ==
  /\ w \in alive /\ beatTimer[w] = BeatEvery
  /\ beatTimer' = [beatTimer EXCEPT ![w] = 0]
  /\ \/ UpsertHeartbeat(w) /\ UNCHANGED <<wronged, faultVars>>
     \/ wronged' = wronged \cup {w} /\ Fault /\ UNCHANGED <<silent, rows, unlisted>>
  /\ UNCHANGED <<alive, changes, pollSide>>

Change == changes < MaxChanges /\ changes' = changes + 1

Stop(w) ==
  /\ Change
  /\ w \in alive
  /\ alive' = alive \ {w}
  /\ wronged' = wronged \cup {w}
  /\ UNCHANGED <<beatTimer, silent, rows, unlisted, pollSide, faultVars>>

\* A worker starts again under the same id and beats at once.
Start(w) ==
  /\ Change
  /\ w \notin alive
  /\ alive' = alive \cup {w}
  /\ beatTimer' = [beatTimer EXCEPT ![w] = BeatEvery]
  /\ UNCHANGED <<silent, rows, wronged, unlisted, pollSide, faultVars>>

\* A chaos scenario's cleanup deletes the rows older than 30 seconds, half of
\* what makes a worker stale.
ChaosCleanup ==
  /\ Change
  /\ LET old == {w \in rows : 2 * silent[w] > Stale}
     IN  old # {} /\ rows' = rows \ old /\ unlisted' = unlisted \cup old
  /\ UNCHANGED <<alive, beatTimer, silent, wronged, pollSide, faultVars>>

----------------------------------------------------------------------------
(* The poll.                                                               *)

\* Mutant of DeleteStaleHeartbeats: rows go as soon as they are stale.
DeleteAllStale == rows' = {w \in rows : silent[w] <= Stale}

DeleteStaleHeartbeats == rows' = {w \in rows : silent[w] <= Orphan}

\* A tick of the poll loop; when deleting the orphans fails it goes on.
StartPoll ==
  /\ stage = "idle" /\ pollTimer >= PollEvery
  /\ pollTimer' = 0 /\ stall' = 0
  /\ stage' = "list"
  /\ \/ DeleteStaleHeartbeats /\ UNCHANGED faultVars
     \/ UNCHANGED rows /\ Fault
  /\ UNCHANGED <<alive, changes, beatTimer, silent, wronged, unlisted, read, gap, stale, entry>>

\* ListHeartbeats; when it fails the poll is over.
ListHeartbeats ==
  /\ stage = "list"
  /\ stale' = {}
  /\ \/ /\ stage' = "examine"
        /\ read' = rows
        /\ gap' = [w \in Workers |-> IF w \in rows THEN silent[w] ELSE 0]
        /\ UNCHANGED faultVars
     \/ stage' = "idle" /\ Fault /\ UNCHANGED <<read, gap>>
  /\ UNCHANGED <<workerSide, pollTimer, stall, entry>>

\* Mutant of Examine: the loop returns when emit fails.
ExamineOrReturn(w) ==
  /\ stage = "examine" /\ w \in read
  /\ read' = read \ {w}
  /\ gap' = [gap EXCEPT ![w] = 0]
  /\ IF gap[w] > Stale
       THEN /\ stale' = stale \cup {w}
            /\ \/ entry' = entry \cup {w} /\ UNCHANGED <<stage, faultVars>>
               \/ w \notin entry /\ Fault /\ stage' = "idle" /\ UNCHANGED entry
       ELSE UNCHANGED <<stale, entry, stage, faultVars>>
  /\ UNCHANGED <<workerSide, pollTimer, stall>>

\* One row: a stale worker without an entry is reported, unless emit fails.
Examine(w) ==
  /\ stage = "examine" /\ w \in read
  /\ read' = read \ {w}
  /\ gap' = [gap EXCEPT ![w] = 0]
  /\ IF gap[w] > Stale
       THEN /\ stale' = stale \cup {w}
            /\ \/ entry' = entry \cup {w} /\ UNCHANGED faultVars
               \/ w \notin entry /\ Fault /\ UNCHANGED entry
       ELSE UNCHANGED <<stale, entry, faultVars>>
  /\ UNCHANGED <<workerSide, pollTimer, stage, stall>>

\* Mutant of Recovered: only workers without a row are taken off.
RecoveredWhenGone == entry \ rows

\* Entries of workers that are not stale now, or have no row any more.
Recovered == entry \ stale

\* resolve takes the entries off the map first, so that this cannot fail.
ResolveRecovered ==
  /\ stage = "examine" /\ read = {}
  /\ stage' = "idle" /\ stall' = 0
  /\ entry' = entry \ Recovered
  /\ stale' = {}
  /\ wronged' = wronged \ {w \in Recovered : w \in alive /\ silent[w] <= beatTimer[w]}
  /\ UNCHANGED <<alive, changes, beatTimer, silent, rows, unlisted, pollTimer, read, gap, faultVars>>

PollStep ==
  StartPoll \/ ListHeartbeats \/ (\E w \in Workers : Examine(w)) \/ ResolveRecovered

----------------------------------------------------------------------------
\* Time goes on when no beat and no poll is due, and a poll does not take
\* longer than MaxStall.
Tick ==
  /\ \A w \in alive : beatTimer[w] < BeatEvery
  /\ IF stage = "idle" THEN pollTimer < PollEvery /\ UNCHANGED stall
                       ELSE stall < MaxStall /\ stall' = stall + 1
  /\ pollTimer' = pollTimer + 1
  /\ beatTimer' = [w \in Workers |-> IF w \in alive THEN beatTimer[w] + 1 ELSE 0]
  /\ silent' = [w \in Workers |-> Older(silent[w])]
  /\ gap' = [w \in Workers |-> IF w \in read THEN Older(gap[w]) ELSE 0]
  /\ UNCHANGED <<alive, changes, rows, stage, read, stale, entry, wronged, unlisted, faultVars>>

HeartbeatsNext ==
  \/ Tick \/ PollStep \/ ChaosCleanup
  \/ \E w \in Workers : Beat(w) \/ Stop(w) \/ Start(w)

HeartbeatsSpec == HeartbeatsInit /\ [][HeartbeatsNext]_hbVars

\* Time goes on; tickers fire and the calls they start have deadlines.
FairHeartbeatsSpec ==
  /\ HeartbeatsSpec
  /\ WF_hbVars(Tick) /\ WF_hbVars(PollStep)
  /\ \A w \in Workers : WF_hbVars(Beat(w))

----------------------------------------------------------------------------
\* A worker that has been silent for the threshold and a poll interval (one
\* more for every call that failed) is reported, before its row is old enough
\* to be deleted as an orphan.
SilentIsReported ==
  \A w \in Workers \ unlisted :
    /\ silent[w] > Stale + (faults + 1) * (PollEvery + MaxStall)
    /\ silent[w] <= Orphan
    => w \in entry

\* A worker that never stopped and never failed to beat is not reported,
\* however long the poll takes that measures it.
PunctualIsNotReported == entry \subseteq wronged

\* A worker that runs again for good is taken off the list for good.
RecoveredIsResolved ==
  \A w \in Workers : <>[](w \in alive) => <>[](w \notin entry)
==========================================================================
