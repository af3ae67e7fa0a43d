--------------------------- MODULE ChaosRequests ---------------------------
(***************************************************************************)
(* Chaos runs as the dashboard sees them: the handlers of                  *)
(* services/api/internal/handlers/chaos.go over two directories (request   *)
(* files and report files), the runner that writes the reports, and the    *)
(* pages that trigger, poll, cancel and delete (frontend/app/chaos).       *)
(*                                                                         *)
(* The trigger runs nothing: it leaves a request file and shows a command, *)
(* and the result is recognised by the run id in the report.  The time a   *)
(* request of a page takes to arrive is counted to its answer, which comes *)
(* later and in any order; an answer that the page ignores is left out.    *)
(* A handler that only reads is one step; DeleteReport, which removes file *)
(* after file, is two.                                                     *)
(***************************************************************************)
EXTENDS Faults, FiniteSets

CONSTANTS
  Names,       \* scenarios; "all" runs each of them
  Triggers,    \* what is asked for: names, or "all"
  Pages,       \* open browser tabs
  Calls,       \* answers that may be under way at the same time
  NoRun,
  NoPage,
  Hour,        \* seconds after which a request or a report is old
  RunLimit,    \* the longest run: the runner's global timeout
  MaxTime,     \* bound on the clock
  MaxClicks,   \* bound on clicks of Run, Cancel and Delete
  MaxRuns      \* bound on runs

ASSUME RequestsAssumption ==
  /\ Triggers \subseteq Names \cup {"all"} /\ "all" \notin Names
  /\ {Hour, RunLimit, MaxTime, MaxClicks, MaxRuns} \subseteq Nat
  /\ RunLimit <= Hour

\* chaos-<scenario>-<second>, the name of a request file and of a suite report.
RunId == [scenario : Triggers, at : 0..MaxTime]

VARIABLES
  now,         \* the clock, in seconds
  requests,    \* the runs with a request file
  suites,      \* suite reports, file telling what became of the file
  reports,     \* scenario reports, with the run each was written by
  skipped,     \* history: the runs whose deletion did not get at every report
  launched,    \* rows of chaos_runs, with the request each run was meant for
  runner,      \* the runner process
  page,        \* the trigger state of each page
  call,        \* answers under way, and deletions half done
  clicks

diskVars == <<requests, suites, reports, skipped>>
runnerVars == <<launched, runner>>
pageVars == <<page, call, clicks>>
requestVars == <<now, diskVars, runnerVars, pageVars, faultVars>>

Suite == [run : RunId, mod : 0..MaxTime, failed : BOOLEAN, names : SUBSET Names,
          file : {"torn", "whole", "gone"}]

NotRunning == [pc |-> "none", run |-> NoRun, left |-> {}, done |-> {},
               failed |-> FALSE, since |-> 0]

Free == [page |-> NoPage, kind |-> "none", run |-> NoRun, answer |-> "none"]

RequestsTypeOK ==
  /\ FaultTypeOK
  /\ now \in 0..MaxTime
  /\ requests \subseteq RunId
  /\ suites \subseteq Suite
  /\ reports \subseteq [name : Names, mod : 0..MaxTime, run : RunId]
  /\ skipped \subseteq RunId
  /\ launched \subseteq [run : RunId, request : RunId \cup {NoRun}]
  /\ runner \in [pc : {"none", "running", "writing"}, run : RunId \cup {NoRun},
                 left : SUBSET Names, done : SUBSET Names, failed : BOOLEAN,
                 since : 0..MaxTime]
  /\ runner.pc # "none" => now - runner.since <= RunLimit
  /\ page \in [Pages -> [status : {"away", "idle", "queued", "completed", "failed"},
                         run : RunId \cup {NoRun}]]
  /\ call \in [Calls -> [page : Pages \cup {NoPage},
                         kind : {"none", "trigger", "status", "global", "cancel", "delete"},
                         run : RunId \cup {NoRun},
                         answer : {"none", "queued", "completed", "failed"}]]
  /\ clicks \in 0..MaxClicks

Away == [status |-> "away", run |-> NoRun]
IdlePage == [status |-> "idle", run |-> NoRun]
Queued(r) == [status |-> "queued", run |-> r]

Init ==
  /\ FaultInit
  /\ now = 0 /\ requests = {} /\ suites = {} /\ reports = {} /\ skipped = {}
  /\ launched = {} /\ runner = NotRunning
  /\ page = [p \in Pages |-> Away]
  /\ call = [c \in Calls |-> Free]
  /\ clicks = 0

\* Mutant of Tick: a run goes on when its global timeout has passed.
TickRegardless ==
  /\ now < MaxTime
  /\ now' = now + 1
  /\ UNCHANGED <<diskVars, runnerVars, pageVars, faultVars>>

\* A run lasts no longer than its global timeout.
Tick ==
  /\ now < MaxTime
  /\ runner.pc # "none" => now - runner.since < RunLimit
  /\ now' = now + 1
  /\ UNCHANGED <<diskVars, runnerVars, pageVars, faultVars>>

----------------------------------------------------------------------------
(* What the handlers compute.                                              *)

\* A file that is being written does not parse and counts as absent.
Whole(r) == {s \in suites : s.run = r /\ s.file = "whole"}

\* Mutant of resolveRunStatus: the request file is looked for first.
RequestFileFirst(r) ==
  IF r \in requests THEN "queued"
  ELSE IF \E s \in Whole(r) : s.failed THEN "failed"
  ELSE IF Whole(r) # {} THEN "completed"
  ELSE "idle"

\* Mutant of resolveRunStatus: any report of the scenario will do.
AnyReport(r) ==
  LET found == {s \in suites : s.run.scenario = r.scenario /\ s.file = "whole"}
  IN  IF \E s \in found : s.failed THEN "failed"
      ELSE IF found # {} THEN "completed"
      ELSE IF r \in requests THEN "queued"
      ELSE "idle"

\* A report whose run id matches, or else the request file.
resolveRunStatus(r) ==
  IF \E s \in Whole(r) : s.failed THEN "failed"
  ELSE IF Whole(r) # {} THEN "completed"
  ELSE IF r \in requests THEN "queued"
  ELSE "idle"

\* statusGlobal: the requests of the last hour that have no result yet.
Pending == {r \in requests : now - r.at <= Hour /\ resolveRunStatus(r) = "queued"}

Distance(a, b) == IF a < b THEN b - a ELSE a - b

\* Mutant of BelongsTo: the age of a file is measured from now.
IsRecent(f, s) == f.name \in s.names /\ now - f.mod <= Hour

\* "Delete individual scenario reports that belong to the same run": those of
\* its scenarios that were written within an hour of the suite report.
BelongsTo(f, s) == f.name \in s.names /\ Distance(f.mod, s.mod) <= Hour

----------------------------------------------------------------------------
(* What a page asks and the handler does.                                  *)

Click == clicks < MaxClicks /\ clicks' = clicks + 1

Replies(p, kind, run, answer) ==
  \E c \in Calls :
    /\ call[c] = Free
    /\ call' = [call EXCEPT ![c] =
                  [page |-> p, kind |-> kind, run |-> run, answer |-> answer]]

\* The page is opened and asks for a run that is still queued: statusGlobal
\* answers with the newest.
Mount(p) ==
  /\ page[p] = Away
  /\ page' = [page EXCEPT ![p] = IdlePage]
  /\ IF Pending = {} THEN UNCHANGED call
     ELSE \E r \in Pending :
            (\A q \in Pending : q.at <= r.at) /\ Replies(p, "global", r, "queued")
  /\ UNCHANGED <<now, diskVars, runnerVars, clicks, faultVars>>

\* It is left; answers still under way reach nobody.
Leave(p) ==
  /\ page[p] # Away
  /\ page' = [page EXCEPT ![p] = Away]
  /\ call' = [c \in Calls |->
                IF call[c].page # p THEN call[c]
                ELSE IF call[c].kind = "delete" THEN [call[c] EXCEPT !.page = NoPage]
                ELSE Free]
  /\ UNCHANGED <<now, diskVars, runnerVars, clicks, faultVars>>

\* triggerScenario; the button is disabled while a run is queued, not while
\* the answer to an earlier click is awaited.  The run id is the scenario and
\* the second, so two triggers of a scenario in one second are one request.
\* The write may fail, or the answer get lost.
Trigger(p, s) ==
  /\ page[p].status \notin {"away", "queued"}
  /\ Click
  /\ LET r == [scenario |-> s, at |-> now]
     IN  \/ /\ requests' = requests \cup {r}
            /\ Replies(p, "trigger", r, "queued")
            /\ UNCHANGED faultVars
         \/ Fault /\ requests' \in {requests, requests \cup {r}} /\ UNCHANGED call
  /\ UNCHANGED <<now, suites, reports, skipped, runnerVars, page>>

\* The interval that runs while a run is queued, and statusByRunID.
Poll(p) ==
  /\ page[p].status = "queued"
  /\ LET status == resolveRunStatus(page[p].run)
     IN  /\ status \in {"completed", "failed"}
         /\ Replies(p, "status", page[p].run, status)
  /\ UNCHANGED <<now, diskVars, runnerVars, page, clicks, faultVars>>

\* cancelTrigger, and Cancel: Stat, Remove.  The page ignores the answer.
Cancel(p) ==
  /\ page[p].status = "queued"
  /\ Click
  /\ requests' = requests \ {page[p].run}
  /\ Replies(p, "cancel", NoRun, "none")
  /\ UNCHANGED <<now, suites, reports, skipped, runnerVars, page, faultVars>>

\* DeleteReport of a report that is there: the suite report is read and
\* removed ...
DeleteSuite(p) ==
  /\ page[p] # Away
  /\ Click
  /\ \E s \in suites :
       /\ s.file = "whole"
       /\ suites' = (suites \ {s}) \cup {[s EXCEPT !.file = "gone"]}
       /\ Replies(p, "delete", s.run, "none")
  /\ UNCHANGED <<now, requests, reports, skipped, runnerVars, page, faultVars>>

\* ... then the scenario reports.  One that Glob or Stat cannot find, or Remove
\* cannot remove, is passed over, and the answer is the same.
DeleteScenarioReports(c) ==
  /\ call[c].kind = "delete"
  /\ LET found == {f \in reports : \E s \in suites : s.run = call[c].run /\ BelongsTo(f, s)}
     IN  \/ reports' = reports \ found /\ UNCHANGED <<skipped, faultVars>>
         \/ /\ Fault
            /\ \E removed \in SUBSET found : reports' = reports \ removed
            /\ skipped' = skipped \cup {call[c].run}
  /\ call' = [call EXCEPT ![c] = Free]
  /\ UNCHANGED <<now, requests, suites, runnerVars, page, clicks>>

\* What an answer makes of the page; cancelTrigger goes to idle whatever the
\* answer says, and an answer is not compared with what the page shows by now.
Shown(c) ==
  IF c.kind = "cancel" THEN IdlePage ELSE [status |-> c.answer, run |-> c.run]

Deliver(c) ==
  /\ call[c].kind \in {"trigger", "status", "global", "cancel"}
  /\ page' = [page EXCEPT ![call[c].page] = Shown(call[c])]
  /\ call' = [call EXCEPT ![c] = Free]
  /\ UNCHANGED <<now, diskVars, runnerVars, clicks, faultVars>>

\* The button, or ten seconds.
Dismiss(p) ==
  /\ page[p].status \in {"completed", "failed"}
  /\ page' = [page EXCEPT ![p] = IdlePage]
  /\ UNCHANGED <<now, diskVars, runnerVars, call, clicks, faultVars>>

\* The API restarts in the middle of a deletion.
ApiCrash ==
  /\ \E c \in Calls :
       /\ call[c].kind = "delete"
       /\ call' = [call EXCEPT ![c] = Free]
       /\ skipped' = skipped \cup {call[c].run}
  /\ CrashHappens
  /\ UNCHANGED <<now, requests, suites, reports, runnerVars, page, clicks>>

----------------------------------------------------------------------------
(* The runner, one at a time.                                              *)

RunnerOnly == UNCHANGED <<now, requests, skipped, pageVars>>

Contents(s) == IF s = "all" THEN Names ELSE {s}

\* make chaos SCENARIO=s RUN_ID=r; the run id is unique in chaos_runs.
Launch(s, r, request) ==
  /\ runner.pc = "none"
  /\ Cardinality(launched) < MaxRuns
  /\ \A l \in launched : l.run # r
  /\ launched' = launched \cup {[run |-> r, request |-> request]}
  /\ runner' = [pc |-> "running", run |-> r, left |-> Contents(s), done |-> {},
                failed |-> FALSE, since |-> now]
  /\ UNCHANGED <<suites, reports, faultVars>> /\ RunnerOnly

\* The Makefile gives a run a new id.
NewId(s) == [scenario |-> s, at |-> now]

LaunchByHand == \E s \in Triggers : Launch(s, NewId(s), NoRun)

\* The command that the page shows has no RUN_ID.
LaunchShownCommand ==
  \E p \in Pages : page[p].status = "queued"
    /\ Launch(page[p].run.scenario, NewId(page[p].run.scenario), page[p].run)

\* The user adds the id of the request.
LaunchWithRunId ==
  \E p \in Pages : page[p].status = "queued"
    /\ Launch(page[p].run.scenario, page[p].run, page[p].run)

\* The end of runScenario: its report.
ReportScenario(n) ==
  /\ runner.pc = "running" /\ n \in runner.left
  /\ \E f \in BOOLEAN :
       runner' = [runner EXCEPT !.left = @ \ {n}, !.done = @ \cup {n}, !.failed = @ \/ f]
  /\ reports' = reports \cup {[name |-> n, mod |-> now, run |-> runner.run]}
  /\ UNCHANGED <<launched, suites, faultVars>> /\ RunnerOnly

TheSuite(file) ==
  [run |-> runner.run, mod |-> now, failed |-> runner.failed, names |-> runner.done,
   file |-> file]

\* The end of Run, early when the global timeout has passed: the report is
\* written ...
BeginWrite ==
  /\ runner.pc = "running"
  /\ runner.left = {} \/ now - runner.since = RunLimit
  /\ suites' = suites \cup {TheSuite("torn")}
  /\ runner' = [runner EXCEPT !.pc = "writing"]
  /\ UNCHANGED <<launched, reports, faultVars>> /\ RunnerOnly

\* ... and complete.
EndWrite ==
  /\ runner.pc = "writing"
  /\ suites' = {s \in suites : s.run # runner.run} \cup {TheSuite("whole")}
  /\ runner' = NotRunning
  /\ UNCHANGED <<launched, reports, faultVars>> /\ RunnerOnly

RunnerStep == (\E n \in Names : ReportScenario(n)) \/ BeginWrite \/ EndWrite

\* SIGKILL; no report, or half of one.
RunnerDies ==
  /\ runner.pc # "none"
  /\ CrashHappens
  /\ runner' = NotRunning
  /\ UNCHANGED <<launched, suites, reports>> /\ RunnerOnly

----------------------------------------------------------------------------
Next ==
  \/ Tick
  \/ \E p \in Pages :
       \/ Mount(p) \/ Leave(p) \/ Poll(p) \/ Cancel(p) \/ DeleteSuite(p) \/ Dismiss(p)
       \/ \E s \in Triggers : Trigger(p, s)
  \/ \E c \in Calls : Deliver(c) \/ DeleteScenarioReports(c)
  \/ LaunchByHand \/ LaunchShownCommand \/ LaunchWithRunId
  \/ RunnerStep
  \/ ApiCrash \/ RunnerDies

Spec == Init /\ [][Next]_requestVars

\* A page polls as long as it waits, and an answer arrives.
FairSpec ==
  /\ Spec
  /\ \A p \in Pages : SF_requestVars(Poll(p))
  /\ \A c \in Calls :
       WF_requestVars(Deliver(c)) /\ WF_requestVars(DeleteScenarioReports(c))

----------------------------------------------------------------------------
\* The result a page shows is that of the run it was waiting for, not of
\* another run of the scenario, of an earlier one or of half a report, even
\* when the report was deleted meanwhile.
ShownResultIsReal ==
  \A p \in Pages :
    page[p].status \in {"completed", "failed"} =>
      \E s \in suites :
        /\ s.run = page[p].run /\ s.file # "torn"
        /\ s.failed <=> page[p].status = "failed"

\* DeleteReport leaves no scenario report of the run behind, however the hour
\* of its search falls, unless it was cut off by the end of the process or the
\* file system refused it one of the run's files.
NoOrphanReports ==
  \A f \in reports : \A s \in suites :
    s.run = f.run /\ s.file = "gone" =>
      \/ f.run \in skipped
      \/ \E c \in Calls : call[c].kind = "delete" /\ call[c].run = f.run

\* "Run ID from trigger (correlates report with request)": a page that waits
\* for a run stops waiting once the report with its id is there.
ResultShown ==
  \A p \in Pages :
    LET due == page[p].status = "queued" /\ Whole(page[p].run) # {}
    IN  due ~> ~due

\* "Run this command in the project root terminal: ... The result will appear
\* here automatically when done."  The run that was started for the request
\* has written its report.
ResultAppears ==
  \A p \in Pages :
    LET due == /\ page[p].status = "queued"
               /\ \E l \in launched : l.request = page[p].run /\ Whole(l.run) # {}
    IN  due ~> ~due
==========================================================================
