------------------------ MODULE ChaosRequestsProofs ------------------------
(***************************************************************************)
(* Proofs about ChaosRequests, for any pages, names, bounds and hour:      *)
(* type correctness, that a page shows the result of its own run, and that *)
(* a deleted run leaves no scenario report behind.                         *)
(***************************************************************************)
EXTENDS ChaosRequests, TLAPS

----------------------------------------------------------------------------
(* The inductive invariant.                                                *)

\* A page that shows a run shows one with an id, and so do the answers that
\* make it do so.
PagesInv ==
  \A p \in Pages :
    page[p].status \in {"queued", "completed", "failed"} => page[p].run \in RunId

CallsInv ==
  \A c \in Calls :
    /\ call[c].kind \in {"trigger", "status", "global", "cancel"} => call[c].page \in Pages
    /\ call[c].kind \in {"trigger", "status", "global", "delete"} => call[c].run \in RunId
    /\ call[c].kind \in {"trigger", "global"} => call[c].answer = "queued"
    /\ call[c].kind = "status" => call[c].answer \in {"completed", "failed"}

\* What a runner or a report is of has a row of its own in chaos_runs.
Recorded(r) == \E l \in launched : l.run = r

RunnerInv ==
  runner.pc # "none" =>
    runner.run \in RunId /\ Recorded(runner.run) /\ runner.since <= now

\* A run that goes on has at most a torn report, and only when it is writing.
SuitesInv ==
  \A s \in suites :
    /\ Recorded(s.run)
    /\ runner.pc # "none" /\ s.run = runner.run => runner.pc = "writing" /\ s.file = "torn"

\* The scenario reports of a run are those it counts as done, written since
\* it began.
ReportsInv ==
  \A f \in reports :
    /\ Recorded(f.run)
    /\ f.mod <= now
    /\ runner.pc # "none" /\ f.run = runner.run =>
         f.name \in runner.done /\ runner.since <= f.mod

\* The suite report names the scenario reports of its run, and follows each
\* within the longest run.
SameRunInv ==
  \A f \in reports : \A s \in suites :
    s.run = f.run /\ s.file # "torn" =>
      f.name \in s.names /\ f.mod <= s.mod /\ s.mod - f.mod <= RunLimit

\* The suite report that an answer tells of, deleted since or not.
HasResult(r, status) ==
  \E s \in suites :
    /\ s.run = r /\ s.file # "torn"
    /\ s.failed <=> status = "failed"

AnswersInv ==
  \A c \in Calls :
    call[c].kind = "status" => HasResult(call[c].run, call[c].answer)

DiskInv == RunnerInv /\ SuitesInv /\ ReportsInv /\ SameRunInv

RequestsInv ==
  /\ RequestsTypeOK /\ PagesInv /\ CallsInv /\ DiskInv
  /\ AnswersInv /\ ShownResultIsReal /\ NoOrphanReports

----------------------------------------------------------------------------
(* Types.                                                                  *)

PageType == [status : {"away", "idle", "queued", "completed", "failed"}, run : RunId \cup {NoRun}]

CallType ==
  [page : Pages \cup {NoPage},
   kind : {"none", "trigger", "status", "global", "cancel", "delete"},
   run : RunId \cup {NoRun},
   answer : {"none", "queued", "completed", "failed"}]

ReportType == [name : Names, mod : 0..MaxTime, run : RunId]

RunnerType ==
  [pc : {"none", "running", "writing"}, run : RunId \cup {NoRun},
   left : SUBSET Names, done : SUBSET Names, failed : BOOLEAN, since : 0..MaxTime]

\* The conjuncts of the type invariant, by the part of the state they are of.
DiskTypeOK ==
  /\ requests \subseteq RunId /\ suites \subseteq Suite /\ reports \subseteq ReportType
  /\ skipped \subseteq RunId

RunnerTypeOK ==
  /\ now \in 0..MaxTime
  /\ launched \subseteq [run : RunId, request : RunId \cup {NoRun}]
  /\ runner \in RunnerType
  /\ runner.pc # "none" => now - runner.since <= RunLimit

PageTypeOK == page \in [Pages -> PageType] /\ call \in [Calls -> CallType] /\ clicks \in 0..MaxClicks

\* The parts make up the whole.
LEMMA TypeParts ==
  /\ RequestsTypeOK <=> FaultTypeOK /\ DiskTypeOK /\ RunnerTypeOK /\ PageTypeOK
  /\ RequestsTypeOK' <=> FaultTypeOK' /\ DiskTypeOK' /\ RunnerTypeOK' /\ PageTypeOK'
BY DEF RequestsTypeOK, DiskTypeOK, RunnerTypeOK, PageTypeOK, PageType, CallType, ReportType, RunnerType

\* The constants that are numbers.
LEMMA Numbers ==
  /\ Hour \in Nat /\ RunLimit \in Nat /\ MaxTime \in Nat /\ MaxClicks \in Nat
  /\ RunLimit <= Hour
  /\ MaxFaults \in Nat /\ MaxCrashes \in Nat
BY RequestsAssumption, FaultAssumption DEF RequestsAssumption, FaultAssumption

\* A reply takes a free place among the answers.
LEMMA ReplyTyped ==
  ASSUME PageTypeOK, NEW p \in Pages,
         NEW kind \in {"trigger", "status", "global", "cancel", "delete"},
         NEW r \in RunId \cup {NoRun}, NEW answer \in {"none", "queued", "completed", "failed"},
         Replies(p, kind, r, answer)
  PROVE  call' \in [Calls -> CallType]
BY DEF Replies, PageTypeOK, CallType

\* A second of a trigger makes a run id.
LEMMA NewIdTyped ==
  ASSUME RunnerTypeOK, NEW s \in Triggers
  PROVE  NewId(s) \in RunId
BY DEF NewId, RunId, RunnerTypeOK

\* What the pages do and what the handlers answer is well typed.
LEMMA PageStepTyped ==
  ASSUME RequestsTypeOK, PagesInv, CallsInv,
         \/ \E p \in Pages :
              \/ Mount(p) \/ Leave(p) \/ Poll(p) \/ Cancel(p) \/ DeleteSuite(p) \/ Dismiss(p)
              \/ \E s \in Triggers : Trigger(p, s)
         \/ \E c \in Calls : Deliver(c)
  PROVE  RequestsTypeOK'
<1> USE TypeParts, Numbers
<1>0. FaultTypeOK /\ DiskTypeOK /\ RunnerTypeOK /\ PageTypeOK
  OBVIOUS
<1>1. ASSUME NEW p \in Pages, Mount(p)
      PROVE  RequestsTypeOK'
  <2>1. FaultTypeOK' /\ DiskTypeOK' /\ RunnerTypeOK'
    BY <1>0, <1>1 DEF Mount, diskVars, runnerVars, faultVars, FaultTypeOK, DiskTypeOK, RunnerTypeOK
  <2>2. page' \in [Pages -> PageType]
    BY <1>0, <1>1 DEF Mount, IdlePage, PageTypeOK, PageType
  <2>3. call' \in [Calls -> CallType]
    <3>1. CASE UNCHANGED call
      BY <1>0, <3>1 DEF PageTypeOK
    <3>2. CASE \E r \in Pending : Replies(p, "global", r, "queued")
      BY <1>0, <3>2, ReplyTyped DEF Pending, DiskTypeOK
    <3> QED BY <1>1, <3>1, <3>2 DEF Mount
  <2> QED BY <1>0, <1>1, <2>1, <2>2, <2>3 DEF Mount, PageTypeOK
<1>2. ASSUME NEW p \in Pages, Leave(p)
      PROVE  RequestsTypeOK'
  <2>1. FaultTypeOK' /\ DiskTypeOK' /\ RunnerTypeOK'
    BY <1>0, <1>2 DEF Leave, diskVars, runnerVars, faultVars, FaultTypeOK, DiskTypeOK, RunnerTypeOK
  <2>2. page' \in [Pages -> PageType]
    BY <1>0, <1>2 DEF Leave, Away, PageTypeOK, PageType
  <2>3. call' \in [Calls -> CallType]
    BY <1>0, <1>2 DEF Leave, Free, PageTypeOK, CallType
  <2> QED BY <1>0, <1>2, <2>1, <2>2, <2>3 DEF Leave, PageTypeOK
<1>3. ASSUME NEW p \in Pages, Poll(p)
      PROVE  RequestsTypeOK'
  <2>1. FaultTypeOK' /\ DiskTypeOK' /\ RunnerTypeOK'
    BY <1>0, <1>3 DEF Poll, diskVars, runnerVars, faultVars, FaultTypeOK, DiskTypeOK, RunnerTypeOK
  <2>2. PageTypeOK'
    BY <1>0, <1>3, ReplyTyped DEF Poll, PageTypeOK, PagesInv
  <2> QED BY <2>1, <2>2
<1>4. ASSUME NEW p \in Pages, Cancel(p)
      PROVE  RequestsTypeOK'
  <2>1. FaultTypeOK' /\ DiskTypeOK' /\ RunnerTypeOK'
    BY <1>0, <1>4 DEF Cancel, runnerVars, faultVars, FaultTypeOK, DiskTypeOK, RunnerTypeOK
  <2>2. PageTypeOK'
    BY <1>0, <1>4, ReplyTyped DEF Cancel, Click, PageTypeOK
  <2> QED BY <2>1, <2>2
<1>5. ASSUME NEW p \in Pages, DeleteSuite(p)
      PROVE  RequestsTypeOK'
  <2>1. FaultTypeOK' /\ RunnerTypeOK'
    BY <1>0, <1>5 DEF DeleteSuite, runnerVars, faultVars, FaultTypeOK, RunnerTypeOK
  <2>2. DiskTypeOK'
    BY <1>0, <1>5 DEF DeleteSuite, DiskTypeOK, Suite
  <2>3. PageTypeOK'
    <3>1. PICK s \in suites : Replies(p, "delete", s.run, "none")
      BY <1>5 DEF DeleteSuite
    <3>2. s.run \in RunId
      BY <1>0 DEF DiskTypeOK, Suite
    <3> QED BY <1>0, <1>5, <3>1, <3>2, ReplyTyped DEF DeleteSuite, Click, PageTypeOK
  <2> QED BY <2>1, <2>2, <2>3
<1>6. ASSUME NEW p \in Pages, Dismiss(p)
      PROVE  RequestsTypeOK'
  <2>1. FaultTypeOK' /\ DiskTypeOK' /\ RunnerTypeOK'
    BY <1>0, <1>6 DEF Dismiss, diskVars, runnerVars, faultVars, FaultTypeOK, DiskTypeOK, RunnerTypeOK
  <2>2. PageTypeOK'
    BY <1>0, <1>6 DEF Dismiss, IdlePage, PageTypeOK, PageType
  <2> QED BY <2>1, <2>2
<1>7. ASSUME NEW p \in Pages, NEW s \in Triggers, Trigger(p, s)
      PROVE  RequestsTypeOK'
  <2> DEFINE r == [scenario |-> s, at |-> now]
  <2>1. r \in RunId
    BY <1>0, NewIdTyped DEF NewId
  <2>2. RunnerTypeOK' /\ suites' = suites /\ reports' = reports /\ page' = page /\ clicks' \in 0..MaxClicks
    BY <1>0, <1>7 DEF Trigger, Click, runnerVars, RunnerTypeOK, PageTypeOK
  <2>3. FaultTypeOK' /\ requests' \subseteq requests \cup {r}
    BY <1>0, <1>7 DEF Trigger, Fault, faultVars, FaultTypeOK
  <2>4. call' \in [Calls -> CallType]
    <3>1. CASE UNCHANGED call
      BY <1>0, <3>1 DEF PageTypeOK
    <3>2. CASE Replies(p, "trigger", r, "queued")
      BY <1>0, <2>1, <3>2, ReplyTyped
    <3> QED BY <1>7, <3>1, <3>2 DEF Trigger
  <2>5. DiskTypeOK'
    BY <1>0, <1>7, <2>1, <2>2, <2>3 DEF Trigger, DiskTypeOK
  <2> QED BY <1>0, <2>2, <2>3, <2>4, <2>5 DEF PageTypeOK
<1>8. ASSUME NEW c \in Calls, Deliver(c)
      PROVE  RequestsTypeOK'
  <2>1. FaultTypeOK' /\ DiskTypeOK' /\ RunnerTypeOK'
    BY <1>0, <1>8 DEF Deliver, diskVars, runnerVars, faultVars, FaultTypeOK, DiskTypeOK, RunnerTypeOK
  <2>2. Shown(call[c]) \in PageType
    BY <1>0, <1>8 DEF Deliver, Shown, IdlePage, PageTypeOK, PageType, CallType, CallsInv
  <2>3. PageTypeOK'
    BY <1>0, <1>8, <2>2 DEF Deliver, Free, PageTypeOK, CallType
  <2> QED BY <2>1, <2>3
<1> QED BY <1>1, <1>2, <1>3, <1>4, <1>5, <1>6, <1>7, <1>8

\* The launches: by hand, by the command a page shows, with the page's id.
LEMMA Launches ==
  ASSUME RunnerTypeOK, PagesInv, LaunchByHand \/ LaunchShownCommand \/ LaunchWithRunId
  PROVE  \E r \in RunId, request \in RunId \cup {NoRun} : Launch(r.scenario, r, request)
<1>1. \A s \in Triggers : NewId(s) \in RunId /\ NewId(s).scenario = s
  BY NewIdTyped DEF NewId
<1>2. \A r \in RunId : r.scenario \in Triggers
  BY DEF RunId
<1>3. CASE LaunchByHand
  BY <1>1, <1>3 DEF LaunchByHand
<1>4. ASSUME NEW p \in Pages, page[p].status = "queued",
             \/ Launch(page[p].run.scenario, NewId(page[p].run.scenario), page[p].run)
             \/ Launch(page[p].run.scenario, page[p].run, page[p].run)
      PROVE  \E r \in RunId, request \in RunId \cup {NoRun} : Launch(r.scenario, r, request)
  <2>1. page[p].run \in RunId
    BY <1>4 DEF PagesInv
  <2> QED BY <1>1, <1>2, <1>4, <2>1
<1> QED BY <1>3, <1>4 DEF LaunchShownCommand, LaunchWithRunId

\* The runner, the clock and the ends of deletions are well typed.
LEMMA RunnerStepTyped ==
  ASSUME RequestsTypeOK, PagesInv, CallsInv, RunnerInv,
         \/ Tick \/ LaunchByHand \/ LaunchShownCommand \/ LaunchWithRunId
         \/ RunnerStep \/ ApiCrash \/ RunnerDies
         \/ \E c \in Calls : DeleteScenarioReports(c)
  PROVE  RequestsTypeOK'
<1> USE TypeParts, Numbers
<1>0. FaultTypeOK /\ DiskTypeOK /\ RunnerTypeOK /\ PageTypeOK
  OBVIOUS
<1>1. CASE Tick
  <2>1. FaultTypeOK' /\ DiskTypeOK' /\ PageTypeOK'
    BY <1>0, <1>1 DEF Tick, diskVars, pageVars, faultVars, FaultTypeOK, DiskTypeOK, PageTypeOK
  <2>2. now' \in 0..MaxTime /\ UNCHANGED runnerVars
    BY <1>0, <1>1 DEF Tick, RunnerTypeOK
  <2>3. runner.pc # "none" => now' - runner.since <= RunLimit
    BY <1>0, <1>1 DEF Tick, RunnerTypeOK, RunnerType
  <2> QED BY <1>0, <2>1, <2>2, <2>3 DEF RunnerTypeOK, runnerVars
<1>2. ASSUME NEW r \in RunId, NEW request \in RunId \cup {NoRun}, Launch(r.scenario, r, request)
      PROVE  RequestsTypeOK'
  <2>1. FaultTypeOK' /\ DiskTypeOK' /\ PageTypeOK'
    BY <1>0, <1>2 DEF Launch, RunnerOnly, pageVars, faultVars, FaultTypeOK, DiskTypeOK, PageTypeOK
  <2>2. launched' \subseteq [run : RunId, request : RunId \cup {NoRun}]
    BY <1>0, <1>2 DEF Launch, RunnerTypeOK
  <2>3. Contents(r.scenario) \subseteq Names
    BY RequestsAssumption DEF Contents, RunId
  <2>4. runner' \in RunnerType /\ runner'.since = now /\ now' = now
    BY <1>0, <1>2, <2>3 DEF Launch, RunnerOnly, RunnerTypeOK, RunnerType
  <2> QED BY <1>0, <2>1, <2>2, <2>4 DEF RunnerTypeOK
<1>3. CASE LaunchByHand \/ LaunchShownCommand \/ LaunchWithRunId
  BY <1>0, <1>2, <1>3, Launches
<1>4. ASSUME NEW n \in Names, ReportScenario(n)
      PROVE  RequestsTypeOK'
  <2>1. FaultTypeOK' /\ PageTypeOK'
    BY <1>0, <1>4 DEF ReportScenario, RunnerOnly, pageVars, faultVars, FaultTypeOK, PageTypeOK
  <2>2. DiskTypeOK'
    BY <1>0, <1>4 DEF ReportScenario, RunnerOnly, DiskTypeOK, ReportType, RunnerInv, RunnerTypeOK
  <2>3. PICK g \in BOOLEAN :
          runner' = [runner EXCEPT !.left = @ \ {n}, !.done = @ \cup {n}, !.failed = @ \/ g]
    BY <1>4 DEF ReportScenario
  <2>4. runner' \in RunnerType /\ runner'.pc = runner.pc /\ runner'.since = runner.since
    BY <1>0, <2>3 DEF RunnerTypeOK, RunnerType
  <2>5. UNCHANGED <<now, launched>>
    BY <1>4 DEF ReportScenario, RunnerOnly
  <2> QED BY <1>0, <2>1, <2>2, <2>4, <2>5 DEF RunnerTypeOK
<1>5. ASSUME NEW file \in {"torn", "whole", "gone"}, runner.pc # "none"
      PROVE  TheSuite(file) \in Suite
  BY <1>0, <1>5 DEF TheSuite, Suite, RunnerTypeOK, RunnerType, RunnerInv
<1>6. CASE BeginWrite
  <2>1. FaultTypeOK' /\ PageTypeOK'
    BY <1>0, <1>6 DEF BeginWrite, RunnerOnly, pageVars, faultVars, FaultTypeOK, PageTypeOK
  <2>2. DiskTypeOK'
    BY <1>0, <1>5, <1>6 DEF BeginWrite, RunnerOnly, DiskTypeOK
  <2>3. RunnerTypeOK'
    BY <1>0, <1>6 DEF BeginWrite, RunnerOnly, RunnerTypeOK, RunnerType
  <2> QED BY <2>1, <2>2, <2>3
<1>7. NotRunning \in RunnerType /\ NotRunning.pc = "none"
  BY DEF NotRunning, RunnerType
<1>8. CASE EndWrite
  <2>1. FaultTypeOK' /\ PageTypeOK'
    BY <1>0, <1>8 DEF EndWrite, RunnerOnly, pageVars, faultVars, FaultTypeOK, PageTypeOK
  <2>2. DiskTypeOK'
    BY <1>0, <1>5, <1>8 DEF EndWrite, RunnerOnly, DiskTypeOK
  <2>3. RunnerTypeOK'
    BY <1>0, <1>7, <1>8 DEF EndWrite, RunnerOnly, RunnerTypeOK
  <2> QED BY <2>1, <2>2, <2>3
<1>9. CASE RunnerDies
  <2>1. FaultTypeOK' /\ PageTypeOK'
    BY <1>0, <1>9 DEF RunnerDies, CrashHappens, RunnerOnly, pageVars, FaultTypeOK, PageTypeOK
  <2>2. DiskTypeOK'
    BY <1>0, <1>9 DEF RunnerDies, RunnerOnly, DiskTypeOK
  <2>3. RunnerTypeOK'
    BY <1>0, <1>7, <1>9 DEF RunnerDies, RunnerOnly, RunnerTypeOK
  <2> QED BY <2>1, <2>2, <2>3
<1>10. CASE ApiCrash
  <2>1. FaultTypeOK' /\ DiskTypeOK' /\ RunnerTypeOK'
    BY <1>0, <1>10 DEF ApiCrash, CrashHappens, runnerVars, CallsInv, FaultTypeOK, DiskTypeOK, RunnerTypeOK
  <2>2. PageTypeOK'
    BY <1>0, <1>10 DEF ApiCrash, Free, PageTypeOK, CallType
  <2> QED BY <2>1, <2>2
<1>11. ASSUME NEW c \in Calls, DeleteScenarioReports(c)
       PROVE  RequestsTypeOK'
  <2>1. FaultTypeOK' /\ RunnerTypeOK'
    BY <1>0, <1>11 DEF DeleteScenarioReports, Fault, runnerVars, faultVars, FaultTypeOK, RunnerTypeOK
  <2>3. reports' \subseteq reports /\ skipped' \subseteq skipped \cup {call[c].run}
    BY <1>11 DEF DeleteScenarioReports
  <2>4. call[c].run \in RunId
    BY <1>11 DEF DeleteScenarioReports, CallsInv
  <2>5. DiskTypeOK'
    BY <1>0, <1>11, <2>3, <2>4 DEF DeleteScenarioReports, DiskTypeOK
  <2>2. PageTypeOK'
    BY <1>0, <1>11 DEF DeleteScenarioReports, Free, PageTypeOK, CallType
  <2> QED BY <2>1, <2>2, <2>5
<1> QED BY <1>1, <1>3, <1>4, <1>6, <1>8, <1>9, <1>10, <1>11 DEF RunnerStep

----------------------------------------------------------------------------
(* The pages and the answers under way.                                    *)

\* A step that is not a page's, and what it may do to the answers: end a
\* deletion.
OnlyEndsDeletions ==
  /\ UNCHANGED page
  /\ \A c \in Calls :
       call'[c] = call[c] \/ (call[c].kind = "delete" /\ call'[c] = Free)

\* The steps that are no page's.
LEMMA BehindThePages ==
  ASSUME RequestsTypeOK,
         \/ Tick \/ LaunchByHand \/ LaunchShownCommand \/ LaunchWithRunId
         \/ RunnerStep \/ ApiCrash \/ RunnerDies
         \/ \E c \in Calls : DeleteScenarioReports(c)
         \/ UNCHANGED requestVars
  PROVE  OnlyEndsDeletions
<1>1. CASE UNCHANGED pageVars
  BY <1>1 DEF pageVars, OnlyEndsDeletions
<1>2. CASE ApiCrash
  BY <1>2 DEF ApiCrash, OnlyEndsDeletions, RequestsTypeOK
<1>3. ASSUME NEW c \in Calls, DeleteScenarioReports(c)
      PROVE  OnlyEndsDeletions
  BY <1>3 DEF DeleteScenarioReports, OnlyEndsDeletions, RequestsTypeOK
<1> QED BY <1>1, <1>2, <1>3 DEF Tick, LaunchByHand, LaunchShownCommand, LaunchWithRunId, Launch, RunnerStep,
        ReportScenario, BeginWrite, EndWrite, RunnerDies, RunnerOnly, requestVars

\* Pages and answers stay as they should be when nothing reaches a page.
LEMMA PagesUndisturbed ==
  ASSUME PagesInv, CallsInv, OnlyEndsDeletions
  PROVE  PagesInv' /\ CallsInv'
<1>1. PagesInv'
  BY DEF PagesInv, OnlyEndsDeletions
<1>2. CallsInv'
  BY DEF CallsInv, OnlyEndsDeletions, Free
<1> QED BY <1>1, <1>2

\* A reply that is as it should be.
LEMMA ReplyKeepsCalls ==
  ASSUME RequestsTypeOK, CallsInv, NEW p \in Pages, NEW kind, NEW r, NEW answer,
         Replies(p, kind, r, answer),
         kind \in {"trigger", "status", "global", "delete"} => r \in RunId,
         kind \in {"trigger", "global"} => answer = "queued",
         kind = "status" => answer \in {"completed", "failed"}
  PROVE  CallsInv'
BY DEF Replies, CallsInv, RequestsTypeOK

\* The steps of the pages and of the handlers keep runs and answers together.
LEMMA PageStepKeepsPages ==
  ASSUME RequestsTypeOK, PagesInv, CallsInv,
         \/ \E p \in Pages :
              \/ Mount(p) \/ Leave(p) \/ Poll(p) \/ Cancel(p) \/ DeleteSuite(p) \/ Dismiss(p)
              \/ \E s \in Triggers : Trigger(p, s)
         \/ \E c \in Calls : Deliver(c)
  PROVE  PagesInv' /\ CallsInv'
<1>1. ASSUME UNCHANGED page
      PROVE  PagesInv'
  BY <1>1 DEF PagesInv
<1>2. ASSUME UNCHANGED call
      PROVE  CallsInv'
  BY <1>2 DEF CallsInv
<1>3. ASSUME NEW p \in Pages, Mount(p)
      PROVE  PagesInv' /\ CallsInv'
  <2>1. PagesInv'
    BY <1>3 DEF Mount, IdlePage, PagesInv, RequestsTypeOK
  <2>2. \A r \in Pending : r \in RunId
    BY DEF Pending, RequestsTypeOK
  <2>3. CallsInv'
    BY <1>2, <1>3, <2>2, ReplyKeepsCalls DEF Mount
  <2> QED BY <2>1, <2>3
<1>4. ASSUME NEW p \in Pages, Leave(p)
      PROVE  PagesInv' /\ CallsInv'
  <2>1. PagesInv'
    BY <1>4 DEF Leave, Away, PagesInv, RequestsTypeOK
  <2>2. CallsInv'
    BY <1>4 DEF Leave, Free, CallsInv, RequestsTypeOK
  <2> QED BY <2>1, <2>2
<1>5. ASSUME NEW p \in Pages, Poll(p)
      PROVE  PagesInv' /\ CallsInv'
  BY <1>1, <1>5, ReplyKeepsCalls DEF Poll, PagesInv
<1>6. ASSUME NEW p \in Pages, Cancel(p)
      PROVE  PagesInv' /\ CallsInv'
  BY <1>1, <1>6, ReplyKeepsCalls DEF Cancel
<1>7. ASSUME NEW p \in Pages, DeleteSuite(p)
      PROVE  PagesInv' /\ CallsInv'
  <2>1. \A s \in suites : s.run \in RunId
    BY DEF RequestsTypeOK, Suite
  <2> QED BY <1>1, <1>7, <2>1, ReplyKeepsCalls DEF DeleteSuite
<1>8. ASSUME NEW p \in Pages, Dismiss(p)
      PROVE  PagesInv' /\ CallsInv'
  <2>1. PagesInv'
    BY <1>8 DEF Dismiss, IdlePage, PagesInv, RequestsTypeOK
  <2> QED BY <1>2, <1>8, <2>1 DEF Dismiss
<1>9. ASSUME NEW p \in Pages, NEW s \in Triggers, Trigger(p, s)
      PROVE  PagesInv' /\ CallsInv'
  <2>1. [scenario |-> s, at |-> now] \in RunId
    BY DEF RequestsTypeOK, RunId
  <2>2. PagesInv'
    BY <1>1, <1>9 DEF Trigger
  <2>3. CallsInv'
    BY <1>2, <1>9, <2>1, ReplyKeepsCalls DEF Trigger
  <2> QED BY <2>2, <2>3
<1>10. ASSUME NEW c \in Calls, Deliver(c)
      PROVE  PagesInv' /\ CallsInv'
  <2>1. Shown(call[c]).status \in {"queued", "completed", "failed"} => Shown(call[c]).run \in RunId
    BY <1>10 DEF Deliver, Shown, IdlePage, CallsInv
  <2>2. PagesInv'
    BY <1>10, <2>1 DEF Deliver, PagesInv, RequestsTypeOK
  <2>3. CallsInv'
    BY <1>10 DEF Deliver, Free, CallsInv, RequestsTypeOK
  <2> QED BY <2>2, <2>3
<1> QED BY <1>3, <1>4, <1>5, <1>6, <1>7, <1>8, <1>9, <1>10

----------------------------------------------------------------------------
(* The reports on the disk.                                                *)

\* A report that was deleted says what it said.
LEMMA DeletedSuite ==
  ASSUME RequestsTypeOK, NEW p \in Pages, DeleteSuite(p)
  PROVE  /\ \A s \in suites' : \E q \in suites :
              /\ s.run = q.run /\ s.mod = q.mod /\ s.failed = q.failed /\ s.names = q.names
              /\ s.file = q.file \/ (q.file = "whole" /\ s.file = "gone")
         /\ \A q \in suites : \E s \in suites' :
              /\ s.run = q.run /\ s.mod = q.mod /\ s.failed = q.failed /\ s.names = q.names
              /\ s.file = q.file \/ (q.file = "whole" /\ s.file = "gone")
<1>1. PICK q \in suites :
        q.file = "whole" /\ suites' = (suites \ {q}) \cup {[q EXCEPT !.file = "gone"]}
  BY DEF DeleteSuite
<1>2. /\ [q EXCEPT !.file = "gone"].run = q.run /\ [q EXCEPT !.file = "gone"].mod = q.mod
      /\ [q EXCEPT !.file = "gone"].failed = q.failed /\ [q EXCEPT !.file = "gone"].names = q.names
      /\ [q EXCEPT !.file = "gone"].file = "gone"
  BY DEF RequestsTypeOK, Suite
<1> QED BY <1>1, <1>2

\* The reports of every run stay those of that run alone.
LEMMA DiskStep ==
  ASSUME RequestsTypeOK, PagesInv, CallsInv, DiskInv, [Next]_requestVars
  PROVE  DiskInv'
<1> USE Numbers
<1>1. /\ runner \in RunnerType /\ now \in 0..MaxTime
      /\ runner.pc # "none" => now - runner.since <= RunLimit
      /\ reports \subseteq ReportType /\ suites \subseteq Suite
  BY TypeParts DEF RunnerTypeOK, DiskTypeOK
<1>2. CASE UNCHANGED <<now, suites, reports, runnerVars>>
  BY <1>2 DEF DiskInv, RunnerInv, SuitesInv, ReportsInv, SameRunInv, Recorded, runnerVars
<1>3. CASE Tick
  <2>1. now <= now' /\ UNCHANGED <<suites, reports, launched, runner>> /\ now' \in Nat
    BY <1>1, <1>3 DEF Tick, diskVars, runnerVars
  <2>2. \A f \in reports : f.mod \in Nat
    BY <1>1 DEF ReportType
  <2>3. RunnerInv' /\ SuitesInv' /\ SameRunInv'
    BY <1>1, <2>1 DEF DiskInv, RunnerInv, RunnerType, SuitesInv, SameRunInv, Recorded
  <2>4. ReportsInv'
    BY <1>1, <2>1, <2>2 DEF DiskInv, ReportsInv, Recorded
  <2> QED BY <2>3, <2>4 DEF DiskInv
<1>4. ASSUME NEW p \in Pages, DeleteSuite(p)
      PROVE  DiskInv'
  <2>1. UNCHANGED <<now, reports, launched, runner>>
    BY <1>4 DEF DeleteSuite, runnerVars
  <2>2. RunnerInv' /\ ReportsInv'
    BY <2>1 DEF DiskInv, RunnerInv, ReportsInv, Recorded
  <2>3. SuitesInv'
    BY <1>4, <2>1, DeletedSuite DEF DiskInv, SuitesInv, Recorded
  <2>4. SameRunInv'
    BY <1>4, <2>1, DeletedSuite DEF DiskInv, SameRunInv
  <2> QED BY <2>2, <2>3, <2>4 DEF DiskInv
<1>5. ASSUME NEW c \in Calls, DeleteScenarioReports(c)
      PROVE  DiskInv'
  <2>1. UNCHANGED <<now, suites, launched, runner>> /\ reports' \subseteq reports
    BY <1>5 DEF DeleteScenarioReports, runnerVars
  <2> QED BY <2>1 DEF DiskInv, RunnerInv, ReportsInv, SuitesInv, SameRunInv, Recorded
<1>6. ASSUME NEW r \in RunId, NEW request, Launch(r.scenario, r, request)
      PROVE  DiskInv'
  <2>1. /\ UNCHANGED <<now, suites, reports>> /\ runner'.run = r /\ runner'.since = now
        /\ ~Recorded(r) /\ Recorded(r)' /\ now \in Nat
        /\ \A q : Recorded(q) => Recorded(q)'
    <3> DEFINE row == [run |-> r, request |-> request]
    <3>1. /\ UNCHANGED <<now, suites, reports>> /\ runner'.run = r /\ runner'.since = now
          /\ \A l \in launched : l.run # r
          /\ launched' = launched \cup {row}
      BY <1>6 DEF Launch, RunnerOnly
    <3>2. row.run = r /\ now \in Nat
      BY <1>1
    <3> HIDE DEF row
    <3> QED BY <3>1, <3>2 DEF Recorded
  <2>2. (\A s \in suites : Recorded(s.run)) /\ (\A f \in reports : Recorded(f.run) /\ f.mod <= now)
    BY DEF DiskInv, SuitesInv, ReportsInv
  <2>3. RunnerInv'
    BY <2>1 DEF RunnerInv
  <2>4. SuitesInv'
    BY <2>1, <2>2 DEF SuitesInv
  <2>5. ReportsInv'
    BY <2>1, <2>2 DEF ReportsInv
  <2>6. SameRunInv'
    BY <2>1 DEF DiskInv, SameRunInv
  <2> QED BY <2>3, <2>4, <2>5, <2>6 DEF DiskInv
<1>7. CASE LaunchByHand \/ LaunchShownCommand \/ LaunchWithRunId
  BY <1>6, <1>7, Launches, TypeParts
<1>8. ASSUME NEW n \in Names, ReportScenario(n)
      PROVE  DiskInv'
  <2> DEFINE g == [name |-> n, mod |-> now, run |-> runner.run]
  <2>1. /\ UNCHANGED <<now, suites, launched>> /\ runner.pc = "running"
        /\ reports' = reports \cup {g}
    BY <1>8 DEF ReportScenario, RunnerOnly
  <2>2. /\ runner'.pc = runner.pc /\ runner'.run = runner.run /\ runner'.since = runner.since
        /\ runner'.done = runner.done \cup {n}
    BY <1>1, <1>8 DEF ReportScenario, RunnerType
  <2>3. g.name = n /\ g.mod = now /\ g.run = runner.run
    OBVIOUS
  <2> HIDE DEF g
  <2>4. RunnerInv' /\ SuitesInv'
    BY <2>1, <2>2 DEF DiskInv, RunnerInv, SuitesInv, Recorded
  <2>5. ReportsInv'
    BY <1>1, <2>1, <2>2, <2>3 DEF DiskInv, ReportsInv, RunnerInv, Recorded
  <2>6. SameRunInv'
    BY <2>1, <2>3 DEF DiskInv, SameRunInv, SuitesInv
  <2> QED BY <2>4, <2>5, <2>6 DEF DiskInv
<1>9. CASE BeginWrite
  <2> DEFINE t == TheSuite("torn")
  <2>1. /\ UNCHANGED <<now, reports, launched>> /\ runner.pc = "running" /\ suites' = suites \cup {t}
        /\ runner'.pc = "writing" /\ runner'.run = runner.run /\ runner'.since = runner.since
        /\ runner'.done = runner.done
    BY <1>1, <1>9 DEF BeginWrite, RunnerOnly, RunnerType
  <2>2. t.run = runner.run /\ t.file = "torn"
    BY DEF TheSuite
  <2> HIDE DEF t
  <2>3. RunnerInv' /\ ReportsInv'
    BY <2>1 DEF DiskInv, RunnerInv, ReportsInv, Recorded
  <2>4. SuitesInv'
    BY <2>1, <2>2 DEF DiskInv, RunnerInv, SuitesInv, Recorded
  <2>5. SameRunInv'
    BY <2>1, <2>2 DEF DiskInv, SameRunInv
  <2> QED BY <2>3, <2>4, <2>5 DEF DiskInv
<1>10. CASE EndWrite
  <2> DEFINE t == TheSuite("whole")
  <2>1. /\ UNCHANGED <<now, reports, launched>> /\ runner.pc = "writing" /\ runner'.pc = "none"
        /\ suites' = {s \in suites : s.run # runner.run} \cup {t}
    BY <1>10 DEF EndWrite, RunnerOnly, NotRunning
  <2>2. t.run = runner.run /\ t.names = runner.done /\ t.mod = now
    BY DEF TheSuite
  <2> HIDE DEF t
  <2>3. RunnerInv' /\ ReportsInv' /\ SuitesInv'
    BY <2>1, <2>2 DEF DiskInv, RunnerInv, ReportsInv, SuitesInv, Recorded
  <2>4. ASSUME NEW f \in reports, f.run = runner.run
        PROVE  f.name \in runner.done /\ f.mod <= now /\ now - f.mod <= RunLimit
    <3>1. f.name \in runner.done /\ runner.since <= f.mod /\ f.mod <= now /\ now - runner.since <= RunLimit
      BY <1>1, <2>1, <2>4 DEF DiskInv, ReportsInv
    <3>2. now \in Nat /\ runner.since \in Nat /\ f.mod \in Nat
      BY <1>1 DEF RunnerType, ReportType
    <3> QED BY <3>1, <3>2
  <2>5. SameRunInv'
    BY <2>1, <2>2, <2>4 DEF DiskInv, SameRunInv
  <2> QED BY <2>3, <2>5 DEF DiskInv
<1>11. CASE RunnerDies
  <2>1. UNCHANGED <<now, suites, reports, launched>> /\ runner'.pc = "none"
    BY <1>11 DEF RunnerDies, RunnerOnly, NotRunning
  <2> QED BY <2>1 DEF DiskInv, RunnerInv, ReportsInv, SuitesInv, SameRunInv, Recorded
<1>12. ASSUME NEW p \in Pages,
              \/ Mount(p) \/ Leave(p) \/ Poll(p) \/ Cancel(p) \/ Dismiss(p)
              \/ \E s \in Triggers : Trigger(p, s)
       PROVE  UNCHANGED <<now, suites, reports, runnerVars>>
  BY <1>12 DEF Mount, Leave, Poll, Cancel, Dismiss, Trigger, diskVars
<1>13. CASE ApiCrash \/ (\E c \in Calls : Deliver(c)) \/ UNCHANGED requestVars
  BY <1>2, <1>13 DEF ApiCrash, Deliver, requestVars, diskVars
<1> QED BY <1>2, <1>3, <1>4, <1>5, <1>7, <1>8, <1>9, <1>10, <1>11, <1>12, <1>13 DEF Next, RunnerStep

----------------------------------------------------------------------------
(* The results the pages are given.                                        *)

\* A result that was there is there, or was deleted.
LEMMA ResultsKept ==
  ASSUME RequestsTypeOK, CallsInv, DiskInv, [Next]_requestVars, NEW r, NEW status,
         HasResult(r, status)
  PROVE  HasResult(r, status)'
<1>1. CASE suites \subseteq suites'
  BY <1>1 DEF HasResult
<1>2. ASSUME NEW p \in Pages, DeleteSuite(p)
      PROVE  HasResult(r, status)'
  <2>1. PICK q \in suites : q.run = r /\ q.file # "torn" /\ (q.failed <=> status = "failed")
    BY DEF HasResult
  <2>2. PICK s \in suites' :
          /\ s.run = q.run /\ s.failed = q.failed
          /\ s.file = q.file \/ (q.file = "whole" /\ s.file = "gone")
    BY <1>2, DeletedSuite
  <2> QED BY <2>1, <2>2 DEF HasResult
<1>3. CASE EndWrite
  <2>1. \A s \in suites : s.run = runner.run => s.file = "torn"
    BY <1>3 DEF EndWrite, DiskInv, SuitesInv
  <2> QED BY <1>3, <2>1 DEF EndWrite, HasResult
<1>4. CASE BeginWrite
  BY <1>1, <1>4 DEF BeginWrite
<1> QED BY <1>1, <1>2, <1>3, <1>4 DEF Next, RunnerStep, Tick, Mount, Leave, Poll, Cancel, Dismiss, Trigger,
        Deliver, DeleteScenarioReports, LaunchByHand, LaunchShownCommand, LaunchWithRunId, Launch,
        ReportScenario, ApiCrash, RunnerDies, diskVars, requestVars

\* A handler answers with a result only when a whole report has it.
LEMMA ResolvedFromReport ==
  ASSUME NEW r, resolveRunStatus(r) \in {"completed", "failed"}
  PROVE  HasResult(r, resolveRunStatus(r))
BY DEF resolveRunStatus, Whole, HasResult

\* What a page shows, and what an answer tells it, is the result of a report.
ShownIn(x) == x.status \in {"completed", "failed"} => HasResult(x.run, x.status)
ToldIn(x) == x.kind = "status" => HasResult(x.run, x.answer)

\* The two invariants in these words.
LEMMA ResultsInWords ==
  /\ ShownResultIsReal <=> \A p \in Pages : ShownIn(page[p])
  /\ AnswersInv <=> \A c \in Calls : ToldIn(call[c])
BY DEF ShownResultIsReal, AnswersInv, ShownIn, ToldIn, HasResult

\* It is enough that what is shown or told after a step was real before it.
LEMMA RealBefore ==
  ASSUME RequestsTypeOK, CallsInv, DiskInv, [Next]_requestVars,
         \A p \in Pages : ShownIn(page'[p]), \A c \in Calls : ToldIn(call'[c])
  PROVE  AnswersInv' /\ ShownResultIsReal'
<1>1. \A r, status :
        HasResult(r, status) =>
          \E s \in suites' : s.run = r /\ s.file # "torn" /\ (s.failed <=> status = "failed")
  BY ResultsKept DEF HasResult
<1>2. ShownResultIsReal'
  <2> SUFFICES ASSUME NEW p \in Pages, page'[p].status \in {"completed", "failed"}
               PROVE  \E s \in suites' : /\ s.run = page'[p].run /\ s.file # "torn"
                                         /\ s.failed <=> page'[p].status = "failed"
    BY DEF ShownResultIsReal
  <2>1. HasResult(page'[p].run, page'[p].status)
    BY DEF ShownIn
  <2> QED BY <1>1, <2>1
<1>3. AnswersInv'
  <2> SUFFICES ASSUME NEW c \in Calls, call'[c].kind = "status"
               PROVE  \E s \in suites' : /\ s.run = call'[c].run /\ s.file # "torn"
                                         /\ s.failed <=> call'[c].answer = "failed"
    BY DEF AnswersInv, HasResult
  <2>1. HasResult(call'[c].run, call'[c].answer)
    BY DEF ToldIn
  <2> QED BY <1>1, <2>1
<1> QED BY <1>2, <1>3

\* The results shown, and the results on their way, are real.
LEMMA ResultsStep ==
  ASSUME RequestsTypeOK, PagesInv, CallsInv, DiskInv, AnswersInv, ShownResultIsReal,
         [Next]_requestVars
  PROVE  AnswersInv' /\ ShownResultIsReal'
<1> DEFINE PagesReal == \A p \in Pages : ShownIn(page'[p])
           AnswersReal == \A c \in Calls : ToldIn(call'[c])
<1> SUFFICES PagesReal /\ AnswersReal
  BY RealBefore
<1>1. page \in [Pages -> PageType] /\ call \in [Calls -> CallType]
  BY TypeParts DEF PageTypeOK
<1>2. \A p \in Pages : ShownIn(page[p])
  BY ResultsInWords
<1>3. \A c \in Calls : ToldIn(call[c])
  BY ResultsInWords
<1>4. ShownIn(Away) /\ ShownIn(IdlePage) /\ ToldIn(Free)
  BY DEF Away, IdlePage, Free, ShownIn, ToldIn
<1>5. ASSUME NEW p, NEW kind, NEW r, NEW answer, Replies(p, kind, r, answer),
             kind = "status" => HasResult(r, answer)
      PROVE  AnswersReal
  <2>1. PICK c \in Calls :
          call' = [call EXCEPT ![c] = [page |-> p, kind |-> kind, run |-> r, answer |-> answer]]
    BY <1>5 DEF Replies
  <2>2. ToldIn([page |-> p, kind |-> kind, run |-> r, answer |-> answer])
    BY <1>5 DEF ToldIn
  <2> QED BY <1>1, <1>3, <2>1, <2>2
<1>6. ASSUME UNCHANGED page PROVE PagesReal
  BY <1>2, <1>6
<1>7. ASSUME UNCHANGED call PROVE AnswersReal
  BY <1>3, <1>7
<1>8. CASE OnlyEndsDeletions
  <2>1. PagesReal
    BY <1>6, <1>8 DEF OnlyEndsDeletions
  <2>2. AnswersReal
    BY <1>3, <1>4, <1>8 DEF OnlyEndsDeletions
  <2> QED BY <2>1, <2>2
<1>9. ASSUME NEW p \in Pages, NEW x, ShownIn(x), page' = [page EXCEPT ![p] = x]
       PROVE  PagesReal
  BY <1>1, <1>2, <1>9
<1>10. ASSUME NEW p \in Pages, Mount(p)
       PROVE  PagesReal /\ AnswersReal
  <2>1. PagesReal
    BY <1>4, <1>9, <1>10 DEF Mount
  <2>2. AnswersReal
    BY <1>5, <1>7, <1>10 DEF Mount
  <2> QED BY <2>1, <2>2
<1>11. ASSUME NEW p \in Pages, Leave(p)
       PROVE  PagesReal /\ AnswersReal
  <2>1. PagesReal
    BY <1>4, <1>9, <1>11 DEF Leave
  <2>2. ASSUME NEW c \in Calls
        PROVE  ToldIn(call'[c])
    <3>1. \/ call'[c] = call[c] \/ call'[c] = Free
          \/ (call[c].kind = "delete" /\ call'[c] = [call[c] EXCEPT !.page = NoPage])
      BY <1>11 DEF Leave
    <3>2. call[c] \in CallType
      BY TypeParts DEF PageTypeOK
    <3>3. call[c].kind = "delete" => [call[c] EXCEPT !.page = NoPage].kind # "status"
      BY <3>2 DEF CallType
    <3> QED BY <1>3, <1>4, <3>1, <3>3 DEF ToldIn
  <2> QED BY <2>1, <2>2
<1>12. ASSUME NEW p \in Pages, Poll(p)
       PROVE  PagesReal /\ AnswersReal
  <2>1. resolveRunStatus(page[p].run) \in {"completed", "failed"}
    BY <1>12 DEF Poll
  <2>2. HasResult(page[p].run, resolveRunStatus(page[p].run))
    BY <2>1, ResolvedFromReport
  <2> QED BY <1>5, <1>6, <1>12, <2>2 DEF Poll
<1>13. ASSUME NEW p \in Pages, Cancel(p)
       PROVE  PagesReal /\ AnswersReal
  BY <1>5, <1>6, <1>13 DEF Cancel
<1>14. ASSUME NEW p \in Pages, DeleteSuite(p)
       PROVE  PagesReal /\ AnswersReal
  BY <1>5, <1>6, <1>14 DEF DeleteSuite
<1>15. ASSUME NEW p \in Pages, Dismiss(p)
       PROVE  PagesReal /\ AnswersReal
  BY <1>4, <1>7, <1>9, <1>15 DEF Dismiss
<1>16. ASSUME NEW p \in Pages, NEW s \in Triggers, Trigger(p, s)
       PROVE  PagesReal /\ AnswersReal
  BY <1>5, <1>6, <1>7, <1>16 DEF Trigger
<1>17. ASSUME NEW c \in Calls, Deliver(c)
       PROVE  PagesReal /\ AnswersReal
  <2>1. ShownIn(Shown(call[c]))
    <3>1. CASE call[c].kind = "cancel"
      BY <1>4, <3>1 DEF Shown
    <3>2. CASE call[c].kind \in {"trigger", "global"}
      BY <3>2 DEF Shown, CallsInv, ShownIn
    <3>3. CASE call[c].kind = "status"
      BY <1>3, <3>3 DEF Shown, ShownIn, ToldIn
    <3> QED BY <1>17, <3>1, <3>2, <3>3 DEF Deliver
  <2>2. call[c].page \in Pages
    BY <1>17 DEF Deliver, CallsInv
  <2>3. PagesReal
    BY <1>9, <1>17, <2>1, <2>2 DEF Deliver
  <2>4. AnswersReal
    BY <1>1, <1>3, <1>4, <1>17 DEF Deliver
  <2> QED BY <2>3, <2>4
<1> QED BY <1>8, <1>10, <1>11, <1>12, <1>13, <1>14, <1>15, <1>16, <1>17, BehindThePages DEF Next

----------------------------------------------------------------------------
(* The scenario reports of deleted runs.                                   *)

\* The reports of run r are being deleted.
Deleting(r) == \E c \in Calls : call[c].kind = "delete" /\ call[c].run = r

\* A deletion goes on until it has been through the reports, or is cut off.
LEMMA DeletionsGoOn ==
  ASSUME RequestsTypeOK, [Next]_requestVars, NEW r, Deleting(r)
  PROVE  \/ Deleting(r)'
         \/ \E c \in Calls : call[c].run = r /\ DeleteScenarioReports(c)
         \/ r \in skipped'
<1>1. PICK c \in Calls : call[c].kind = "delete" /\ call[c].run = r
  BY DEF Deleting
<1>2. call \in [Calls -> CallType]
  BY TypeParts DEF PageTypeOK
<1>3. ASSUME call'[c] = call[c]
      PROVE  Deleting(r)'
  BY <1>1, <1>3 DEF Deleting
<1>4. ASSUME UNCHANGED call
      PROVE  Deleting(r)'
  BY <1>3, <1>4
<1>5. ASSUME NEW p, NEW kind, NEW q, NEW answer, Replies(p, kind, q, answer)
      PROVE  Deleting(r)'
  BY <1>1, <1>2, <1>3, <1>5 DEF Replies, Free
<1>6. ASSUME NEW p \in Pages, Leave(p)
      PROVE  Deleting(r)'
  <2>1. call'[c] = call[c] \/ call'[c] = [call[c] EXCEPT !.page = NoPage]
    BY <1>1, <1>6 DEF Leave
  <2>2. call'[c].kind = "delete" /\ call'[c].run = r
    BY <1>1, <1>2, <2>1 DEF CallType
  <2> QED BY <2>2 DEF Deleting
<1>7. ASSUME NEW p \in Pages,
             \/ Mount(p) \/ Poll(p) \/ Cancel(p) \/ DeleteSuite(p) \/ Dismiss(p)
             \/ \E s \in Triggers : Trigger(p, s)
      PROVE  Deleting(r)'
  BY <1>4, <1>5, <1>7 DEF Mount, Poll, Cancel, DeleteSuite, Dismiss, Trigger
<1>8. ASSUME NEW d \in Calls, Deliver(d)
      PROVE  Deleting(r)'
  BY <1>1, <1>2, <1>3, <1>8 DEF Deliver
<1>9. ASSUME NEW d \in Calls, DeleteScenarioReports(d), d # c
      PROVE  Deleting(r)'
  BY <1>2, <1>3, <1>9 DEF DeleteScenarioReports
<1>10. ASSUME ApiCrash
       PROVE  Deleting(r)' \/ r \in skipped'
  BY <1>1, <1>2, <1>3, <1>10 DEF ApiCrash
<1> QED BY <1>1, <1>4, <1>6, <1>7, <1>8, <1>9, <1>10 DEF Next, RunnerStep, Tick, LaunchByHand, LaunchShownCommand,
        LaunchWithRunId, Launch, RunnerOnly, ReportScenario, BeginWrite, EndWrite, RunnerDies, pageVars, requestVars

\* A deletion that has been through the reports leaves none of its run, unless
\* it had to pass over one.
LEMMA DeletionIsComplete ==
  ASSUME RequestsTypeOK, DiskInv, NEW c \in Calls, DeleteScenarioReports(c),
         NEW f \in reports, NEW s \in suites, s.run = f.run, s.file = "gone",
         call[c].run = f.run
  PROVE  f \notin reports' \/ f.run \in skipped'
<1>1. f.name \in s.names /\ f.mod <= s.mod /\ s.mod - f.mod <= RunLimit
  BY DEF DiskInv, SameRunInv
<1>2. f.mod \in Nat /\ s.mod \in Nat
  BY TypeParts, Numbers DEF DiskTypeOK, ReportType, Suite
<1>3. BelongsTo(f, s)
  BY <1>1, <1>2, Numbers DEF BelongsTo, Distance
<1> QED BY <1>3 DEF DeleteScenarioReports

\* No step leaves a report of a deleted run that no deletion is after.
LEMMA OrphansStep ==
  ASSUME RequestsTypeOK, DiskInv, NoOrphanReports, [Next]_requestVars
  PROVE  NoOrphanReports'
<1> SUFFICES ASSUME NEW f \in reports', NEW s \in suites',
                    s.run = f.run, s.file = "gone"
             PROVE  f.run \in skipped' \/ Deleting(f.run)'
  BY DEF NoOrphanReports, Deleting
<1>1. skipped \subseteq skipped'
  BY DEF Next, RunnerStep, Tick, Mount, Leave, Poll, Cancel, DeleteSuite, Dismiss, Trigger,
     Deliver, DeleteScenarioReports, LaunchByHand, LaunchShownCommand, LaunchWithRunId, Launch,
     ReportScenario, BeginWrite, EndWrite, ApiCrash, RunnerDies, RunnerOnly, diskVars, requestVars
<1>2. CASE \E p \in Pages : DeleteSuite(p) /\ s \notin suites
  <2>1. PICK p \in Pages, q \in suites :
          /\ suites' = (suites \ {q}) \cup {[q EXCEPT !.file = "gone"]}
          /\ Replies(p, "delete", q.run, "none")
    BY <1>2 DEF DeleteSuite
  <2>2. s = [q EXCEPT !.file = "gone"] /\ q.run = f.run
    BY <1>2, <2>1 DEF RequestsTypeOK, Suite
  <2>3. PICK c \in Calls :
          call' = [call EXCEPT ![c] = [page |-> p, kind |-> "delete", run |-> q.run, answer |-> "none"]]
    BY <2>1 DEF Replies
  <2> QED BY <2>2, <2>3 DEF Deleting, RequestsTypeOK
<1>3. s \in suites \/ \E p \in Pages : DeleteSuite(p) /\ s \notin suites
  <2>1. CASE BeginWrite \/ EndWrite
    BY <2>1 DEF BeginWrite, EndWrite, TheSuite
  <2>2. CASE UNCHANGED suites
    BY <2>2
  <2> QED BY <2>1, <2>2 DEF Next, RunnerStep, Tick, Mount, Leave, Poll, Cancel, Dismiss, Trigger,
          Deliver, DeleteScenarioReports, LaunchByHand, LaunchShownCommand, LaunchWithRunId, Launch,
          ReportScenario, ApiCrash, RunnerDies, diskVars, requestVars
<1>4. CASE s \in suites
  <2>1. f \in reports
    <3>1. CASE \E n \in Names : ReportScenario(n)
      <4>1. PICK n \in Names : ReportScenario(n)
        BY <3>1
      <4>2. f \in reports \/ f.run = runner.run
        BY <4>1 DEF ReportScenario
      <4> QED BY <1>4, <4>1, <4>2 DEF ReportScenario, DiskInv, SuitesInv
    <3>2. CASE reports' \subseteq reports
      BY <3>2
    <3> QED BY <3>1, <3>2 DEF Next, RunnerStep, Tick, Mount, Leave, Poll, Cancel, DeleteSuite, Dismiss, Trigger,
            Deliver, DeleteScenarioReports, LaunchByHand, LaunchShownCommand, LaunchWithRunId, Launch,
            BeginWrite, EndWrite, ApiCrash, RunnerDies, diskVars, requestVars
  <2>2. f.run \in skipped \/ Deleting(f.run)
    BY <1>4, <2>1 DEF NoOrphanReports, Deleting
  <2> DEFINE r == f.run
  <2>3. \/ r \in skipped' \/ Deleting(r)'
        \/ \E c \in Calls : call[c].run = r /\ DeleteScenarioReports(c)
    BY <1>1, <2>2, DeletionsGoOn
  <2> QED BY <1>4, <2>1, <2>3, DeletionIsComplete
<1> QED BY <1>2, <1>3, <1>4

----------------------------------------------------------------------------
(* The theorems.                                                           *)

\* Initially nothing is shown, running or written.
LEMMA InitInv == Init => RequestsInv
<1> SUFFICES ASSUME Init PROVE RequestsInv
  OBVIOUS
<1>1. FaultTypeOK /\ DiskTypeOK
  BY Numbers DEF Init, FaultInit, FaultTypeOK, DiskTypeOK
<1>2. RunnerTypeOK
  BY Numbers DEF Init, NotRunning, RunnerTypeOK, RunnerType
<1>3. PageTypeOK
  BY Numbers DEF Init, Away, Free, PageTypeOK, PageType, CallType
<1>4. PagesInv /\ CallsInv /\ AnswersInv /\ ShownResultIsReal
  BY DEF Init, Away, Free, PagesInv, CallsInv, AnswersInv, ShownResultIsReal
<1>5. DiskInv /\ NoOrphanReports
  BY DEF Init, NotRunning, DiskInv, RunnerInv, SuitesInv, ReportsInv, SameRunInv, NoOrphanReports
<1> QED BY <1>1, <1>2, <1>3, <1>4, <1>5, TypeParts DEF RequestsInv

\* The conjunction is inductive.
LEMMA InvStep ==
  ASSUME RequestsInv, [Next]_requestVars
  PROVE  RequestsInv'
<1> USE DEF RequestsInv
<1>1. DiskInv' /\ AnswersInv' /\ ShownResultIsReal' /\ NoOrphanReports'
  BY DiskStep, ResultsStep, OrphansStep
<1>2. RequestsTypeOK'
  <2>1. CASE UNCHANGED requestVars
    BY <2>1 DEF requestVars, diskVars, runnerVars, pageVars, faultVars, RequestsTypeOK, FaultTypeOK
  <2> QED BY <2>1, PageStepTyped, RunnerStepTyped DEF Next, DiskInv
<1>3. PagesInv' /\ CallsInv'
  BY BehindThePages, PagesUndisturbed, PageStepKeepsPages DEF Next
<1> QED BY <1>1, <1>2, <1>3

\* RequestsInv holds in every state.
LEMMA Inductive == Spec => []RequestsInv
BY InitInv, InvStep, PTL DEF Spec

\* Type correctness of the requests, reports, rows, pages and answers.
THEOREM RequestsTypes == Spec => []RequestsTypeOK
<1>1. RequestsInv => RequestsTypeOK
  BY DEF RequestsInv
<1> QED BY <1>1, Inductive, PTL

\* A page never shows a result that is not that of the run it asks about,
\* however answers, deletions and launches are interleaved.
THEOREM RealResults == Spec => []ShownResultIsReal
<1>1. RequestsInv => ShownResultIsReal
  BY DEF RequestsInv
<1> QED BY <1>1, Inductive, PTL

\* A deletion that has answered leaves no scenario report of its run, whatever
\* the hour is, as long as no run lasts longer than it, unless the API stopped in
\* the middle or the file system refused one of the run's files (chaos.go,
\* DeleteReport).
THEOREM NoOrphans == Spec => []NoOrphanReports
<1>1. RequestsInv => NoOrphanReports
  BY DEF RequestsInv
<1> QED BY <1>1, Inductive, PTL
==========================================================================
