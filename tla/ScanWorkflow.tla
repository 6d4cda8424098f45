---------------------------- MODULE ScanWorkflow ----------------------------
(***************************************************************************)
(* The scan of the content a case is about: CreateScanRequest, the steps   *)
(* of Execute (op_scan.go) on the row of abuse_case_scans, the pool of     *)
(* workers of the ClamAV scanner that all scans share, and the             *)
(* notification of the reporter.  The workflow engine of the portal runs   *)
(* Execute until it succeeds (FailureBehavior: RetryStep), one attempt per *)
(* scan at a time, and again after a crash.                                *)
(***************************************************************************)
EXTENDS Naturals, Sequences, FiniteSets

CONSTANTS
    Scans,      \* scans that may be asked for; a row each
    Workers,    \* workers of the ClamAV pool (maxWorkers)
    MaxFaults,  \* failures and crashes considered
    None        \* no row, no workflow, no result yet

Verdicts == {"clean", "flagged"}
Statuses == {"pending", "scanning", "error"} \cup Verdicts
Places == {"start", "due", "read", "save", "subject", "pool", "results", "complete", "open", "done"}

\* results: what the stored results add up to, "none" before any are stored.
Row == [status : Statuses, results : Verdicts \cup {"none"}]

\* A workflow: where it is, the status it is about to write, what this attempt found.
Job == [at : Places, to : Statuses, found : Verdicts \cup {"none"}]

ASSUME ScanAssumption ==
    /\ Workers \in Nat \ {0} /\ MaxFaults \in Nat
    /\ None \notin Row /\ None \notin Job

VARIABLES
    row,     \* row[s]: the row of scan s
    job,     \* job[s]: its workflow; None before it is asked for and when it was never started
    queue,   \* tasks that wait in the pool, in order
    busy,    \* tasks that workers work on
    told,    \* history: told[s] is the number of notifications started for s
    tries,   \* history: tries[s] is the number of attempts begun for s
    faults   \* failures and crashes so far

vars == <<row, job, queue, busy, told, tries, faults>>

Init ==
    /\ row = [s \in Scans |-> None]
    /\ job = [s \in Scans |-> None]
    /\ queue = <<>> /\ busy = {}
    /\ told = [s \in Scans |-> 0]
    /\ tries = [s \in Scans |-> 0]
    /\ faults = 0

At(s, l) == job[s] # None /\ job[s].at = l
Goto(s, l) == job' = [job EXCEPT ![s].at = l]
Fault == faults < MaxFaults /\ faults' = faults + 1

\* UpdateScanStatus is called to write a status.
Update(s, st) == job' = [job EXCEPT ![s].at = "read", ![s].to = st]

\* Mutation of Failed: the error is swallowed.
Swallowed(s) == Fault /\ Goto(s, "open")

\* A call of the attempt fails.  While the results are processed (the status to write is final,
\* or the results are being saved) the status is set to error; else Execute returns the error.
Failed(s) ==
    /\ Fault
    /\ IF job[s].to \in Verdicts THEN Update(s, "error") ELSE Goto(s, "due")

-----------------------------------------------------------------------------

\* Mutation of Request: the workflow is started though the row could not be written.
RequestAnyway(s) ==
    /\ row[s] = None /\ job[s] = None
    /\ \/ row' = [row EXCEPT ![s] = [status |-> "pending", results |-> "none"]] /\ UNCHANGED faults
       \/ Fault /\ UNCHANGED row
    /\ job' = [job EXCEPT ![s] = [at |-> "start", to |-> "pending", found |-> "none"]]
    /\ UNCHANGED <<queue, busy, told, tries>>

\* CreateScanRequest writes the row.
Request(s) ==
    /\ row[s] = None
    /\ row' = [row EXCEPT ![s] = [status |-> "pending", results |-> "none"]]
    /\ job' = [job EXCEPT ![s] = [at |-> "start", to |-> "pending", found |-> "none"]]
    /\ UNCHANGED <<queue, busy, told, tries, faults>>

\* CreateScanRequest starts the workflow; when that fails, the row stays as it is.
Start(s) ==
    /\ At(s, "start")
    /\ \/ Goto(s, "due") /\ UNCHANGED faults
       \/ Fault /\ job' = [job EXCEPT ![s] = None]
    /\ UNCHANGED <<row, queue, busy, told, tries>>

\* The engine runs Execute.
Execute(s) ==
    /\ At(s, "due")
    /\ job' = [job EXCEPT ![s] = [at |-> "read", to |-> "scanning", found |-> "none"]]
    /\ tries' = [tries EXCEPT ![s] = @ + 1]
    /\ UNCHANGED <<row, queue, busy, told, faults>>

\* Mutation of Announces: no stored results count as failed ones.
AnnouncesMissing(s) ==
    /\ row[s].status # job[s].to /\ job[s].to \in {"flagged", "error"}
    /\ row[s].results # "clean"

\* The status becomes flagged or error and some of the STORED results failed; without stored
\* results GetScanResults returns an error.
Announces(s) ==
    /\ row[s].status # job[s].to /\ job[s].to \in {"flagged", "error"}
    /\ row[s].results = "flagged"

\* UpdateScanStatus, its first half: read the row, then its results, notify in a goroutine.
ReadRow(s) ==
    /\ At(s, "read")
    /\ \/ /\ Goto(s, "save")
          /\ \/ told' = [told EXCEPT ![s] = IF Announces(s) THEN @ + 1 ELSE @] /\ UNCHANGED faults
             \/ Announces(s) /\ Fault /\ UNCHANGED told
       \/ Failed(s) /\ UNCHANGED told
    /\ UNCHANGED <<row, queue, busy, tries>>

\* UpdateScanStatus, its second half: save the row.
SaveStatus(s) ==
    /\ At(s, "save")
    /\ \/ /\ row' = [row EXCEPT ![s].status = job[s].to]
          /\ Goto(s, CASE job[s].to = "scanning" -> "subject"
                       [] job[s].to \in Verdicts -> "results"
                       [] OTHER -> "due")
          /\ UNCHANGED faults
       \/ Failed(s) /\ UNCHANGED row
    /\ UNCHANGED <<queue, busy, told, tries>>

\* The subject is read, the content found and opened, and a task submitted to the pool, which
\* has no limit on what waits.
Submit(s) ==
    /\ At(s, "subject")
    /\ \/ Goto(s, "pool") /\ queue' = Append(queue, s) /\ UNCHANGED faults
       \/ Failed(s) /\ UNCHANGED queue
    /\ UNCHANGED <<row, busy, told, tries>>

\* A worker takes the task that has waited longest.
Work ==
    /\ queue # <<>> /\ Cardinality(busy) < Workers
    /\ busy' = busy \cup {Head(queue)} /\ queue' = Tail(queue)
    /\ UNCHANGED <<row, job, told, tries, faults>>

\* Mutation of Answer: the worker does not return to the pool.
AnswerAndHold(s) ==
    /\ s \in busy /\ UNCHANGED <<busy, faults>>
    /\ \E v \in Verdicts : job' = [job EXCEPT ![s] = [at |-> "read", to |-> v, found |-> v]]
    /\ UNCHANGED <<row, queue, told, tries>>

\* clamd answers and the worker is free; ScanContent returns to Execute, which calls
\* processScanResults: flagged if any result failed, clean otherwise.
Answer(s) ==
    /\ s \in busy /\ busy' = busy \ {s}
    /\ \/ \E v \in Verdicts : job' = [job EXCEPT ![s] = [at |-> "read", to |-> v, found |-> v]]
          /\ UNCHANGED faults
       \/ Failed(s)
    /\ UNCHANGED <<row, queue, told, tries>>

\* Mutation of SaveResults: its error is only logged.
SaveResultsAtBest(s) ==
    /\ At(s, "results") /\ Goto(s, "complete")
    /\ \/ row' = [row EXCEPT ![s].results = job[s].found] /\ UNCHANGED faults
       \/ Fault /\ UNCHANGED row
    /\ UNCHANGED <<queue, busy, told, tries>>

\* SaveScanResults.
SaveResults(s) ==
    /\ At(s, "results")
    /\ \/ row' = [row EXCEPT ![s].results = job[s].found] /\ Goto(s, "complete") /\ UNCHANGED faults
       \/ Failed(s) /\ UNCHANGED row
    /\ UNCHANGED <<queue, busy, told, tries>>

\* CompleteWorkflowStep; its error is only logged, and Execute returns without one.
Complete(s) ==
    /\ At(s, "complete")
    /\ \/ Goto(s, "done") /\ UNCHANGED faults
       \/ Fault /\ Goto(s, "open")
    /\ UNCHANGED <<row, queue, busy, told, tries>>

\* Mutation of Resumed: a workflow that was completed runs again.
ResumedAll(s) ==
    IF job[s] = None \/ At(s, "start") THEN None ELSE [job[s] EXCEPT !.at = "due"]

\* After a crash: a workflow that was not completed is due again, one that was not started is
\* never started.
Resumed(s) ==
    CASE job[s] = None \/ At(s, "start") -> None
      [] At(s, "done") -> job[s]
      [] OTHER -> [job[s] EXCEPT !.at = "due"]

\* The process dies and starts again; the pool is empty then.
Crash ==
    /\ Fault
    /\ job' = [s \in Scans |-> Resumed(s)]
    /\ queue' = <<>> /\ busy' = {}
    /\ UNCHANGED <<row, told, tries>>

Step(s) ==
    \/ Start(s) \/ Execute(s) \/ ReadRow(s) \/ SaveStatus(s) \/ Submit(s) \/ Answer(s)
    \/ SaveResults(s) \/ Complete(s)

Next == (\E s \in Scans : Request(s) \/ Step(s)) \/ Work \/ Crash

Spec == Init /\ [][Next]_vars

\* The goroutines of the program and of the pool run, clamd answers, and the engine retries.
FairSpec == Spec /\ (\A s \in Scans : WF_vars(Step(s))) /\ WF_vars(Work)

-----------------------------------------------------------------------------

\* Every variable has its type, and a workflow has a row.
TypeOK ==
    /\ row \in [Scans -> Row \cup {None}]
    /\ job \in [Scans -> Job \cup {None}]
    /\ queue \in Seq(Scans) /\ busy \in SUBSET Scans
    /\ told \in [Scans -> Nat] /\ tries \in [Scans -> Nat] /\ faults \in Nat
    /\ \A s \in Scans : job[s] # None => row[s] # None

\* A scan waits for the pool exactly when the pool has one task of it, and no more workers are
\* busy than there are: no answer is lost, none comes twice, and none to an attempt that is over.
Waiting == {queue[i] : i \in DOMAIN queue}
PoolServes ==
    /\ Cardinality(busy) <= Workers
    /\ \A s \in Scans : At(s, "pool") <=> s \in busy \cup Waiting
    /\ busy \cap Waiting = {}
    /\ \A i, k \in DOMAIN queue : queue[i] = queue[k] => i = k

\* The status shown is a verdict, and the results stored are the ones it was drawn from.
Agrees(s) == row[s] # None /\ row[s].status \in Verdicts /\ row[s].results = row[s].status

\* Status and results are two writes, and each may fail; yet a scan that no attempt will touch
\* again shows a verdict that its results bear out, or was never begun.
VerdictHasResults ==
    \A s \in Scans :
        /\ At(s, "done") \/ At(s, "open") => Agrees(s)
        /\ row[s] # None /\ job[s] = None => row[s].status = "pending" /\ tries[s] = 0

\* The results are stored after the notification is decided, so the first attempt of a scan
\* never notifies anybody, whatever it found; every later one does at most twice.
FirstAttemptIsSilent ==
    \A s \in Scans : told[s] = 0 \/ told[s] + 2 <= 2 * tries[s]

\* For its reader a scan is owed, then settled for good.
Verdict == INSTANCE ScanVerdict
    WITH state <- [s \in Scans |->
        IF row[s] = None THEN "none" ELSE IF ~At(s, "done") THEN "owed"
        ELSE IF Agrees(s) THEN row[s].status ELSE "broken"]
SettlesForGood == Verdict!Spec

\* A scan whose workflow was started gets a verdict with its results, and keeps one, as soon as
\* failures and crashes end.
ScanSettles == \A s \in Scans : At(s, "due") ~> []Agrees(s)

\* The notification says (scan_failed_body.tpl): "Our system detected {{.FailedCount}} potential
\* issues during the latest scan".
AnnouncesLatestScan ==
    [][\A s \in Scans : told'[s] > told[s] => job[s].found = "flagged"]_vars
=============================================================================
