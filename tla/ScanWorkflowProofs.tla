------------------------- MODULE ScanWorkflowProofs -------------------------
(***************************************************************************)
(* Theorems about ScanWorkflow, for any set of scans, any number of        *)
(* workers and any number of failures.                                     *)
(***************************************************************************)
EXTENDS ScanWorkflow, FiniteSetTheorems, TLAPS

-----------------------------------------------------------------------------
(* Types. *)

LEMMA InitTypes == Init => TypeOK
    BY ScanAssumption DEF Init, TypeOK

\* A job that is changed is that of one scan.
LEMMA ChangeShape ==
    ASSUME TypeOK, NEW s \in Scans, NEW j \in Job, job' = [job EXCEPT ![s] = j]
    PROVE  /\ job' \in [Scans -> Job \cup {None}] /\ job'[s] = j /\ j # None
           /\ \A t \in Scans \ {s} : job'[t] = job[t]
    BY ScanAssumption DEF TypeOK

LEMMA GotoShape ==
    ASSUME TypeOK, NEW s \in Scans, job[s] # None, NEW l \in Places, Goto(s, l)
    PROVE  /\ job' \in [Scans -> Job \cup {None}]
           /\ \A t \in Scans \ {s} : job'[t] = job[t]
           /\ job'[s] # None /\ job'[s].at = l
           /\ job'[s].to = job[s].to /\ job'[s].found = job[s].found
<1>1. job[s] \in Job
    BY DEF TypeOK
<1>2. [job[s] EXCEPT !.at = l] \in Job
    BY <1>1 DEF Job
<1>3. job' = [job EXCEPT ![s] = [job[s] EXCEPT !.at = l]]
    BY DEF Goto
<1> QED BY <1>1, <1>2, <1>3, ChangeShape DEF Job

LEMMA FailedShape ==
    ASSUME TypeOK, NEW s \in Scans, job[s] # None, Failed(s)
    PROVE  /\ job' \in [Scans -> Job \cup {None}]
           /\ \A t \in Scans \ {s} : job'[t] = job[t]
           /\ job'[s] # None /\ faults' \in Nat
           /\ IF job[s].to \in Verdicts THEN job'[s].at = "read" /\ job'[s].to = "error"
                                        ELSE job'[s].at = "due"
<1>1. job[s] \in Job
    BY DEF TypeOK
<1>2. faults' \in Nat
    BY DEF Failed, Fault, TypeOK
<1>3. CASE job[s].to \in Verdicts
  <2>1. job' = [job EXCEPT ![s] = [job[s] EXCEPT !.at = "read", !.to = "error"]]
      BY <1>3 DEF Failed, Update
  <2>2. [job[s] EXCEPT !.at = "read", !.to = "error"] \in Job
      BY <1>1 DEF Job, Places, Statuses
  <2> QED BY <1>1, <1>2, <1>3, <2>1, <2>2, ChangeShape DEF Job
<1>4. CASE job[s].to \notin Verdicts
    BY <1>2, <1>4, GotoShape DEF Failed, Places
<1> QED BY <1>3, <1>4

\* The three ways a row is written.
LEMMA RowShape ==
    ASSUME TypeOK, NEW s \in Scans, NEW r \in Row, row' = [row EXCEPT ![s] = r]
    PROVE  /\ row' \in [Scans -> Row \cup {None}] /\ row'[s] = r /\ r # None
           /\ \A t \in Scans \ {s} : row'[t] = row[t]
    BY ScanAssumption DEF TypeOK

LEMMA StatusShape ==
    ASSUME TypeOK, NEW s \in Scans, row[s] # None, NEW st \in Statuses,
           row' = [row EXCEPT ![s].status = st]
    PROVE  /\ row' \in [Scans -> Row \cup {None}]
           /\ \A t \in Scans \ {s} : row'[t] = row[t]
           /\ row'[s] # None /\ row'[s].status = st /\ row'[s].results = row[s].results
<1>1. row[s] \in Row
    BY DEF TypeOK
<1>2. [row[s] EXCEPT !.status = st] \in Row
    BY <1>1 DEF Row
<1>3. PICK r \in Row : /\ r.status = st /\ r.results = row[s].results
                       /\ row' = [row EXCEPT ![s] = r]
    BY <1>1, <1>2 DEF Row
<1> QED BY <1>3, RowShape

LEMMA ResultsShape ==
    ASSUME TypeOK, NEW s \in Scans, row[s] # None, NEW v \in Verdicts \cup {"none"},
           row' = [row EXCEPT ![s].results = v]
    PROVE  /\ row' \in [Scans -> Row \cup {None}]
           /\ \A t \in Scans \ {s} : row'[t] = row[t]
           /\ row'[s] # None /\ row'[s].status = row[s].status /\ row'[s].results = v
<1>1. row[s] \in Row
    BY DEF TypeOK
<1>2. [row[s] EXCEPT !.results = v] \in Row
    BY <1>1 DEF Row
<1>3. PICK r \in Row : /\ r.results = v /\ r.status = row[s].status
                       /\ row' = [row EXCEPT ![s] = r]
    BY <1>1, <1>2 DEF Row
<1> QED BY <1>3, RowShape, ZenonT(40)

-----------------------------------------------------------------------------
(* What one step does to one scan. *)

Same(s) == row'[s] = row[s] /\ told'[s] = told[s] /\ tries'[s] = tries[s]
Rests(s) == Same(s) /\ job'[s] = job[s]
Moved(s, l) ==
    /\ job[s] # None /\ job'[s] # None /\ job'[s].at = l
    /\ job'[s].to = job[s].to /\ job'[s].found = job[s].found

Asked(s) ==
    /\ row[s] = None /\ row'[s] # None
    /\ row'[s].status = "pending" /\ row'[s].results = "none"
    /\ job'[s] # None /\ job'[s].at = "start"
    /\ told'[s] = told[s] /\ tries'[s] = tries[s]
Starts(s) == At(s, "start") /\ Same(s) /\ (Moved(s, "due") \/ job'[s] = None)
Begins(s) ==
    /\ At(s, "due") /\ row'[s] = row[s] /\ told'[s] = told[s] /\ tries'[s] = tries[s] + 1
    /\ job'[s] # None /\ job'[s].at = "read" /\ job'[s].to = "scanning"
Reads(s) ==
    /\ At(s, "read") /\ Moved(s, "save") /\ row'[s] = row[s] /\ tries'[s] = tries[s]
    /\ told'[s] = told[s] \/ (told'[s] = told[s] + 1 /\ Announces(s))
Fails(s) ==
    /\ Same(s) /\ job[s] # None /\ job'[s] # None
    /\ job[s].at \in {"read", "save", "subject", "pool", "results"}
    /\ IF job[s].to \in Verdicts THEN job'[s].at = "read" /\ job'[s].to = "error"
                                 ELSE job'[s].at = "due"
Writes(s) ==
    /\ At(s, "save") /\ told'[s] = told[s] /\ tries'[s] = tries[s]
    /\ row'[s] # None /\ row'[s].status = job[s].to /\ row'[s].results = row[s].results
    /\ Moved(s, CASE job[s].to = "scanning" -> "subject"
                  [] job[s].to \in Verdicts -> "results"
                  [] OTHER -> "due")
Submits(s) == At(s, "subject") /\ Same(s) /\ Moved(s, "pool")
Answers(s) ==
    /\ At(s, "pool") /\ Same(s) /\ job'[s] # None /\ job'[s].at = "read"
    /\ job'[s].to \in Verdicts /\ job'[s].found = job'[s].to
Stores(s) ==
    /\ At(s, "results") /\ told'[s] = told[s] /\ tries'[s] = tries[s] /\ Moved(s, "complete")
    /\ row'[s] # None /\ row'[s].status = row[s].status /\ row'[s].results = job[s].found
Completes(s) == At(s, "complete") /\ Same(s) /\ (Moved(s, "done") \/ Moved(s, "open"))
Dies(s) ==
    /\ Same(s)
    /\ \/ (job[s] = None \/ At(s, "start")) /\ job'[s] = None
       \/ At(s, "done") /\ job'[s] = job[s]
       \/ /\ job[s] # None /\ ~At(s, "start") /\ ~At(s, "done")
          /\ job'[s] # None /\ job'[s].at = "due"

Acts(s) ==
    \/ Asked(s) \/ Starts(s) \/ Begins(s) \/ Reads(s) \/ Fails(s) \/ Writes(s) \/ Submits(s)
    \/ Answers(s) \/ Stores(s) \/ Completes(s)

Fits ==
    /\ row' \in [Scans -> Row \cup {None}] /\ job' \in [Scans -> Job \cup {None}]
    /\ told' \in [Scans -> Nat] /\ tries' \in [Scans -> Nat] /\ faults' \in Nat

\* A step of the workflow of s changes s as one of these says, and no other scan.
LEMMA RequestShape ==
    ASSUME TypeOK, NEW s \in Scans, Request(s)
    PROVE  Fits /\ Asked(s) /\ \A t \in Scans \ {s} : Rests(t)
<1>1. [status |-> "pending", results |-> "none"] \in Row
    BY DEF Row, Statuses
<1>2. [at |-> "start", to |-> "pending", found |-> "none"] \in Job
    BY DEF Job, Places, Statuses
<1>3. PICK r \in Row : /\ r.status = "pending" /\ r.results = "none"
                       /\ row' = [row EXCEPT ![s] = r]
    BY <1>1 DEF Request
<1>4. PICK j \in Job : /\ j.at = "start"
                       /\ job' = [job EXCEPT ![s] = j]
    BY <1>2 DEF Request
<1>5. /\ row' \in [Scans -> Row \cup {None}] /\ row'[s] = r /\ r # None
      /\ \A t \in Scans \ {s} : row'[t] = row[t]
    BY <1>3, RowShape
<1>6. /\ job' \in [Scans -> Job \cup {None}] /\ job'[s] = j /\ j # None
      /\ \A t \in Scans \ {s} : job'[t] = job[t]
    BY <1>4, ChangeShape
<1> QED BY <1>3, <1>4, <1>5, <1>6 DEF Request, TypeOK, Fits, Asked, Rests, Same

LEMMA StartShape ==
    ASSUME TypeOK, NEW s \in Scans, Start(s)
    PROVE  Fits /\ Starts(s) /\ \A t \in Scans \ {s} : Rests(t)
<1>1. CASE Goto(s, "due") /\ UNCHANGED faults
    BY <1>1, GotoShape DEF Start, At, TypeOK, Fits, Starts, Moved, Rests, Same, Places
<1>2. CASE Fault /\ job' = [job EXCEPT ![s] = None]
    BY <1>2 DEF Start, Fault, At, TypeOK, Fits, Starts, Rests, Same
<1> QED BY <1>1, <1>2 DEF Start

LEMMA ExecuteShape ==
    ASSUME TypeOK, NEW s \in Scans, Execute(s)
    PROVE  Fits /\ Begins(s) /\ \A t \in Scans \ {s} : Rests(t)
<1>1. [at |-> "read", to |-> "scanning", found |-> "none"] \in Job
    BY DEF Job, Places, Statuses
<1>2. PICK j \in Job : /\ j.at = "read" /\ j.to = "scanning"
                       /\ job' = [job EXCEPT ![s] = j]
    BY <1>1 DEF Execute
<1>3. /\ job' \in [Scans -> Job \cup {None}] /\ job'[s] = j /\ j # None
      /\ \A t \in Scans \ {s} : job'[t] = job[t]
    BY <1>2, ChangeShape
<1> QED BY <1>2, <1>3 DEF Execute, TypeOK, Fits, Begins, Rests, Same

LEMMA ReadRowShape ==
    ASSUME TypeOK, NEW s \in Scans, ReadRow(s)
    PROVE  Fits /\ (Reads(s) \/ Fails(s)) /\ \A t \in Scans \ {s} : Rests(t)
<1>1. CASE Goto(s, "save") /\ UNCHANGED faults
           /\ told' = [told EXCEPT ![s] = IF Announces(s) THEN @ + 1 ELSE @]
    BY <1>1, GotoShape DEF ReadRow, At, TypeOK, Fits, Reads, Moved, Rests, Same, Places
<1>2. CASE Goto(s, "save") /\ Announces(s) /\ Fault /\ UNCHANGED told
    BY <1>2, GotoShape DEF ReadRow, Fault, At, TypeOK, Fits, Reads, Moved, Rests, Same, Places
<1>3. CASE Failed(s) /\ UNCHANGED told
    BY <1>3, FailedShape DEF ReadRow, At, TypeOK, Fits, Fails, Rests, Same
<1> QED BY <1>1, <1>2, <1>3 DEF ReadRow

LEMMA SaveStatusShape ==
    ASSUME TypeOK, NEW s \in Scans, SaveStatus(s)
    PROVE  Fits /\ (Writes(s) \/ Fails(s)) /\ \A t \in Scans \ {s} : Rests(t)
<1>0. job[s] # None /\ job[s] \in Job /\ row[s] # None /\ job[s].to \in Statuses
    BY DEF SaveStatus, At, TypeOK, Job
<1> DEFINE l == CASE job[s].to = "scanning" -> "subject"
                  [] job[s].to \in Verdicts -> "results"
                  [] OTHER -> "due"
<1>1. CASE row' = [row EXCEPT ![s].status = job[s].to] /\ Goto(s, l) /\ UNCHANGED faults
  <2>1. l \in Places
      BY DEF Places
  <2> HIDE DEF l
  <2>2. /\ job' \in [Scans -> Job \cup {None}] /\ Moved(s, l)
        /\ \A t \in Scans \ {s} : job'[t] = job[t]
      BY <1>0, <1>1, <2>1, GotoShape DEF Moved
  <2>3. /\ row' \in [Scans -> Row \cup {None}]
        /\ \A t \in Scans \ {s} : row'[t] = row[t]
        /\ row'[s] # None /\ row'[s].status = job[s].to /\ row'[s].results = row[s].results
      BY <1>0, <1>1, StatusShape
  <2>4. At(s, "save") /\ told' = told /\ tries' = tries /\ faults' = faults
      BY <1>1 DEF SaveStatus
  <2> USE DEF l
  <2> QED BY <2>2, <2>3, <2>4 DEF TypeOK, Fits, Writes, Rests, Same
<1>2. CASE Failed(s) /\ UNCHANGED row
    BY <1>0, <1>2, FailedShape DEF SaveStatus, At, TypeOK, Fits, Fails, Rests, Same
<1> QED BY <1>1, <1>2 DEF SaveStatus

LEMMA SubmitShape ==
    ASSUME TypeOK, NEW s \in Scans, Submit(s)
    PROVE  Fits /\ (Submits(s) \/ Fails(s)) /\ \A t \in Scans \ {s} : Rests(t)
<1>1. CASE Goto(s, "pool") /\ UNCHANGED faults
    BY <1>1, GotoShape DEF Submit, At, TypeOK, Fits, Submits, Moved, Rests, Same, Places
<1>2. CASE Failed(s)
    BY <1>2, FailedShape DEF Submit, At, TypeOK, Fits, Fails, Rests, Same
<1> QED BY <1>1, <1>2 DEF Submit

LEMMA AnswerShape ==
    ASSUME TypeOK, PoolServes, NEW s \in Scans, Answer(s)
    PROVE  Fits /\ (Answers(s) \/ Fails(s)) /\ \A t \in Scans \ {s} : Rests(t)
<1>0. At(s, "pool") /\ job[s] \in Job
    BY DEF Answer, PoolServes, At, TypeOK
<1>1. CASE UNCHANGED faults /\
           \E v \in Verdicts : job' = [job EXCEPT ![s] = [at |-> "read", to |-> v, found |-> v]]
  <2>1. PICK v \in Verdicts : job' = [job EXCEPT ![s] = [at |-> "read", to |-> v, found |-> v]]
      BY <1>1
  <2>2. [at |-> "read", to |-> v, found |-> v] \in Job
      BY DEF Job, Places, Statuses
  <2>3. PICK j \in Job : /\ j = [at |-> "read", to |-> v, found |-> v]
                         /\ job' = [job EXCEPT ![s] = j]
      BY <2>1, <2>2
  <2> QED BY <1>0, <1>1, <2>3, ChangeShape DEF Answer, TypeOK, Fits, Answers, Rests, Same
<1>2. CASE Failed(s)
    BY <1>0, <1>2, FailedShape DEF Answer, At, TypeOK, Fits, Fails, Rests, Same
<1> QED BY <1>1, <1>2 DEF Answer

LEMMA SaveResultsShape ==
    ASSUME TypeOK, NEW s \in Scans, SaveResults(s)
    PROVE  Fits /\ (Stores(s) \/ Fails(s)) /\ \A t \in Scans \ {s} : Rests(t)
<1>0. job[s] # None /\ job[s].found \in Verdicts \cup {"none"} /\ row[s] # None
    BY DEF SaveResults, At, TypeOK, Job
<1>1. CASE row' = [row EXCEPT ![s].results = job[s].found] /\ Goto(s, "complete")
           /\ UNCHANGED faults
    BY <1>0, <1>1, GotoShape, ResultsShape, ZenonT(40)
    DEF SaveResults, At, TypeOK, Fits, Stores, Moved, Rests, Same, Places
<1>2. CASE Failed(s) /\ UNCHANGED row
    BY <1>0, <1>2, FailedShape DEF SaveResults, At, TypeOK, Fits, Fails, Rests, Same
<1> QED BY <1>1, <1>2 DEF SaveResults

LEMMA CompleteShape ==
    ASSUME TypeOK, NEW s \in Scans, Complete(s)
    PROVE  Fits /\ Completes(s) /\ \A t \in Scans \ {s} : Rests(t)
<1>1. CASE Goto(s, "done") /\ UNCHANGED faults
    BY <1>1, GotoShape DEF Complete, At, TypeOK, Fits, Completes, Moved, Rests, Same, Places
<1>2. CASE Fault /\ Goto(s, "open")
    BY <1>2, GotoShape DEF Complete, Fault, At, TypeOK, Fits, Completes, Moved, Rests, Same, Places
<1> QED BY <1>1, <1>2 DEF Complete

LEMMA CrashShape ==
    ASSUME TypeOK, Crash
    PROVE  Fits /\ \A s \in Scans : Dies(s)
<1>1. ASSUME NEW s \in Scans
      PROVE  Resumed(s) \in Job \cup {None} /\ Dies(s)
  <2>1. job'[s] = Resumed(s) /\ Same(s)
      BY DEF Crash, Same
  <2>2. CASE job[s] = None \/ At(s, "start")
      BY <2>1, <2>2 DEF Resumed, Dies, At
  <2>3. CASE At(s, "done")
      BY <2>1, <2>3 DEF Resumed, Dies, At, TypeOK
  <2>4. CASE job[s] # None /\ ~At(s, "start") /\ ~At(s, "done")
    <3>1. job[s] \in Job
        BY <2>4 DEF TypeOK
    <3>2. [job[s] EXCEPT !.at = "due"] \in Job /\ [job[s] EXCEPT !.at = "due"].at = "due"
        BY <3>1 DEF Job, Places
    <3> QED BY <2>1, <2>4, <3>2, ScanAssumption DEF Resumed, Dies
  <2> QED BY <2>2, <2>3, <2>4
<1> QED BY <1>1 DEF Crash, Fits, Fault, TypeOK

\* Every step acts on one scan, or is a crash, or leaves all scans alone.
LEMMA StepOnScans ==
    ASSUME TypeOK, PoolServes, [Next]_vars
    PROVE  /\ Fits
           /\ \/ \A s \in Scans : Rests(s)
              \/ \A s \in Scans : Dies(s)
              \/ \E s \in Scans : Acts(s) /\ \A t \in Scans \ {s} : Rests(t)
<1>1. CASE \E s \in Scans : Request(s)
    BY <1>1, RequestShape DEF Acts
<1>2. CASE \E s \in Scans : Start(s)
    BY <1>2, StartShape DEF Acts
<1>3. CASE \E s \in Scans : Execute(s)
    BY <1>3, ExecuteShape DEF Acts
<1>4. CASE \E s \in Scans : ReadRow(s)
    BY <1>4, ReadRowShape DEF Acts
<1>5. CASE \E s \in Scans : SaveStatus(s)
    BY <1>5, SaveStatusShape DEF Acts
<1>6. CASE \E s \in Scans : Submit(s)
    BY <1>6, SubmitShape DEF Acts
<1>7. CASE \E s \in Scans : Answer(s)
    BY <1>7, AnswerShape DEF Acts
<1>8. CASE \E s \in Scans : SaveResults(s)
    BY <1>8, SaveResultsShape DEF Acts
<1>9. CASE \E s \in Scans : Complete(s)
    BY <1>9, CompleteShape DEF Acts
<1>10. CASE Work \/ UNCHANGED vars
    BY <1>10 DEF Work, vars, TypeOK, Fits, Rests, Same
<1>11. CASE Crash
    BY <1>11, CrashShape
<1> QED BY <1>1, <1>2, <1>3, <1>4, <1>5, <1>6, <1>7, <1>8, <1>9, <1>10, <1>11 DEF Next, Step

-----------------------------------------------------------------------------
(* The pool. *)

PoolInv == TypeOK /\ PoolServes /\ IsFiniteSet(busy)

LEMMA FitsTypes ==
    ASSUME TypeOK, Fits, \A s \in Scans : job'[s] # None => row'[s] # None,
           queue' \in Seq(Scans), busy' \in SUBSET Scans
    PROVE  TypeOK'
    BY DEF TypeOK, Fits

\* Only asking makes a workflow, and it makes the row first.
LEMMA RowsStay ==
    ASSUME TypeOK, NEW s \in Scans, Acts(s) \/ Rests(s) \/ Dies(s), job'[s] # None
    PROVE  row'[s] # None
<1>1. job[s] # None => row[s] # None
    BY DEF TypeOK
<1>2. CASE Asked(s) \/ Starts(s) \/ Begins(s) \/ Reads(s) \/ Fails(s)
    BY <1>1, <1>2 DEF Asked, Starts, Begins, Reads, Fails, Moved, Same, At
<1>3. CASE Writes(s) \/ Submits(s) \/ Answers(s) \/ Stores(s) \/ Completes(s)
    BY <1>1, <1>3 DEF Writes, Submits, Answers, Stores, Completes, Moved, Same, At
<1>4. CASE Rests(s) \/ Dies(s)
    BY <1>1, <1>4 DEF Rests, Dies, Same
<1> QED BY <1>2, <1>3, <1>4 DEF Acts

\* The pool does not notice a step that neither brings a scan to it nor takes one away.
LEMMA PoolUnnoticed ==
    ASSUME PoolServes, UNCHANGED <<queue, busy>>, NEW s \in Scans, ~At(s, "pool"), ~At(s, "pool")',
           \A t \in Scans \ {s} : Rests(t)
    PROVE  PoolServes'
<1>1. \A t \in Scans : At(t, "pool")' <=> At(t, "pool")
    BY DEF Rests, At
<1>2. Waiting' = Waiting
    BY DEF Waiting
<1> QED BY <1>1, <1>2 DEF PoolServes

LEMMA QueueDomain ==
    ASSUME NEW q \in Seq(Scans)
    PROVE  /\ DOMAIN q = 1 .. Len(q) /\ Len(q) \in Nat /\ \A i \in DOMAIN q : q[i] \in Scans
           /\ q = <<>> <=> Len(q) = 0
    OBVIOUS

LEMMA PoolSubmits ==
    ASSUME PoolInv, NEW s \in Scans, At(s, "subject"), At(s, "pool")',
           queue' = Append(queue, s), busy' = busy, \A t \in Scans \ {s} : Rests(t)
    PROVE  PoolServes'
<1>1. queue \in Seq(Scans)
    BY DEF PoolInv, TypeOK
<1>2. s \notin busy \cup Waiting
    BY DEF PoolInv, PoolServes, At
<1>3. /\ DOMAIN queue' = DOMAIN queue \cup {Len(queue) + 1}
      /\ \A i \in DOMAIN queue : queue'[i] = queue[i] /\ i # Len(queue) + 1
      /\ queue'[Len(queue) + 1] = s
    BY <1>1
<1>4. Waiting' = Waiting \cup {s}
    BY <1>3 DEF Waiting
<1>5. \A t \in Scans \ {s} : At(t, "pool")' <=> At(t, "pool")
    BY DEF Rests, At
<1>6. \A i, k \in DOMAIN queue' : queue'[i] = queue'[k] => i = k
    BY <1>2, <1>3 DEF PoolInv, PoolServes, Waiting
<1> QED BY <1>2, <1>4, <1>5, <1>6 DEF PoolInv, PoolServes

LEMMA PoolWorks ==
    ASSUME PoolInv, Work
    PROVE  PoolServes' /\ IsFiniteSet(busy') /\ queue' \in Seq(Scans) /\ busy' \in SUBSET Scans
<1> DEFINE h == queue[1]
<1>1. queue \in Seq(Scans) /\ Len(queue) \in Nat /\ Len(queue) >= 1 /\ 1 \in DOMAIN queue
    BY QueueDomain DEF PoolInv, TypeOK, Work
<1>2. /\ DOMAIN queue' = 1 .. (Len(queue) - 1) /\ queue' \in Seq(Scans)
      /\ \A i \in DOMAIN queue' : queue'[i] = queue[i + 1]
      /\ busy' = busy \cup {h} /\ h \in Scans
    BY <1>1 DEF Work
<1>3. DOMAIN queue = 1 .. Len(queue)
    BY <1>1
<1>4. h \in Waiting /\ h \notin busy
    BY <1>1 DEF PoolInv, PoolServes, Waiting
<1>5. \A i, k \in DOMAIN queue : queue[i] = queue[k] => i = k
    BY DEF PoolInv, PoolServes
<1>6. Waiting' = Waiting \ {h}
  <2>1. \A i \in DOMAIN queue' : i + 1 \in DOMAIN queue /\ i + 1 # 1
      BY <1>1, <1>2, <1>3
  <2>2. Waiting' \subseteq Waiting \ {h}
      BY <1>1, <1>2, <1>5, <2>1 DEF Waiting
  <2>3. ASSUME NEW t \in Waiting \ {h}
        PROVE  t \in Waiting'
    <3>1. PICK i \in DOMAIN queue : queue[i] = t
        BY DEF Waiting
    <3>2. i - 1 \in DOMAIN queue' /\ (i - 1) + 1 = i
        BY <1>1, <1>2, <1>3, <3>1
    <3>3. queue'[i - 1] = t
        BY <1>2, <3>1, <3>2
    <3> QED BY <3>2, <3>3 DEF Waiting
  <2> QED BY <2>2, <2>3
<1>7. \A i, k \in DOMAIN queue' : queue'[i] = queue'[k] => i = k
    BY <1>1, <1>2, <1>3, <1>5
<1>8. IsFiniteSet(busy') /\ Cardinality(busy') = Cardinality(busy) + 1
    BY <1>2, <1>4, FS_AddElement DEF PoolInv
<1>9. Cardinality(busy') <= Workers
    BY <1>8, FS_CardinalityType, ScanAssumption DEF Work, PoolInv
<1>10. \A t \in Scans : At(t, "pool")' <=> At(t, "pool")
    BY DEF Work, At
<1> QED BY <1>2, <1>4, <1>6, <1>7, <1>8, <1>9, <1>10 DEF PoolInv, PoolServes, TypeOK

LEMMA PoolAnswers ==
    ASSUME PoolInv, NEW s \in Scans, Answer(s)
    PROVE  PoolServes' /\ IsFiniteSet(busy')
<1>1. /\ s \in busy /\ busy' = busy \ {s} /\ queue' = queue
    BY DEF Answer
<1>2. s \notin Waiting /\ Waiting' = Waiting
    BY <1>1 DEF PoolInv, PoolServes, Waiting
<1>3. ~At(s, "pool")' /\ \A t \in Scans \ {s} : At(t, "pool")' <=> At(t, "pool")
    BY AnswerShape DEF PoolInv, Answers, Fails, Rests, At
<1>4. IsFiniteSet(busy') /\ Cardinality(busy') <= Cardinality(busy)
    BY <1>1, FS_Subset, FS_RemoveElement, FS_CardinalityType DEF PoolInv
<1>5. Cardinality(busy') <= Workers
    BY <1>1, <1>4, FS_CardinalityType, ScanAssumption DEF PoolInv, PoolServes
<1> QED BY <1>1, <1>2, <1>3, <1>4, <1>5 DEF PoolInv, PoolServes

LEMMA PoolCrashes ==
    ASSUME PoolInv, Crash
    PROVE  PoolServes' /\ IsFiniteSet(busy')
<1>1. queue' = <<>> /\ busy' = {} /\ Waiting' = {}
    BY DEF Crash, Waiting
<1>2. \A s \in Scans : ~At(s, "pool")'
    BY CrashShape DEF PoolInv, Dies, At
<1>3. IsFiniteSet({}) /\ Cardinality({}) = 0
    BY FS_EmptySet
<1> QED BY <1>1, <1>2, <1>3, ScanAssumption DEF PoolServes

LEMMA StepPool == PoolInv /\ [Next]_vars => PoolInv'
<1> SUFFICES ASSUME PoolInv, [Next]_vars
             PROVE  PoolInv'
    OBVIOUS
<1>0. TypeOK /\ PoolServes
    BY DEF PoolInv
<1>1. Fits /\ \A s \in Scans : job'[s] # None => row'[s] # None
    BY <1>0, StepOnScans, RowsStay
<1>2. CASE \E s \in Scans : Request(s) \/ Start(s) \/ Execute(s)
  <2>1. PICK s \in Scans : Request(s) \/ Start(s) \/ Execute(s)
      BY <1>2
  <2>2. UNCHANGED <<queue, busy>>
      BY <2>1 DEF Request, Start, Execute
  <2>3. (Asked(s) \/ Starts(s) \/ Begins(s)) /\ \A t \in Scans \ {s} : Rests(t)
      BY <1>0, <2>1, RequestShape, StartShape, ExecuteShape
  <2>4. ~At(s, "pool") /\ ~At(s, "pool")'
      BY <1>0, <2>3 DEF Asked, Starts, Begins, Moved, At, TypeOK
  <2> QED BY <1>0, <1>1, <2>2, <2>3, <2>4, PoolUnnoticed, FitsTypes DEF PoolInv, TypeOK
<1>3. CASE \E s \in Scans : ReadRow(s) \/ SaveStatus(s) \/ SaveResults(s) \/ Complete(s)
  <2>1. PICK s \in Scans : ReadRow(s) \/ SaveStatus(s) \/ SaveResults(s) \/ Complete(s)
      BY <1>3
  <2>2. /\ UNCHANGED <<queue, busy>>
        /\ At(s, "read") \/ At(s, "save") \/ At(s, "results") \/ At(s, "complete")
      BY <2>1 DEF ReadRow, SaveStatus, SaveResults, Complete
  <2>3. /\ Reads(s) \/ Fails(s) \/ Writes(s) \/ Stores(s) \/ Completes(s)
        /\ \A t \in Scans \ {s} : Rests(t)
      BY <1>0, <2>1, ReadRowShape, SaveStatusShape, SaveResultsShape, CompleteShape
  <2>4. ~At(s, "pool") /\ ~At(s, "pool")'
      BY <2>2, <2>3 DEF Reads, Fails, Writes, Stores, Completes, Moved, At
  <2> QED BY <1>0, <1>1, <2>2, <2>3, <2>4, PoolUnnoticed, FitsTypes DEF PoolInv, TypeOK
<1>4. CASE \E s \in Scans : Submit(s)
  <2>1. PICK s \in Scans : Submit(s)
      BY <1>4
  <2>2. CASE Submits(s) /\ queue' = Append(queue, s)
    <3>1. At(s, "subject") /\ At(s, "pool")' /\ busy' = busy /\ queue' \in Seq(Scans)
        BY <2>1, <2>2 DEF Submit, Submits, Moved, At, PoolInv, TypeOK
    <3>2. PoolServes'
        BY <1>0, <2>1, <2>2, <3>1, PoolSubmits, SubmitShape
    <3> QED BY <1>0, <1>1, <3>1, <3>2, FitsTypes DEF PoolInv, TypeOK
  <2>3. CASE Failed(s) /\ queue' = queue
    <3>1. At(s, "subject") /\ UNCHANGED <<queue, busy>> /\ job[s] # None
        BY <2>1, <2>3 DEF Submit, At
    <3>2. ~At(s, "pool") /\ ~At(s, "pool")' /\ \A t \in Scans \ {s} : Rests(t)
        BY <1>0, <2>1, <2>3, <3>1, FailedShape, SubmitShape DEF At
    <3> QED BY <1>0, <1>1, <3>1, <3>2, PoolUnnoticed, FitsTypes DEF PoolInv, TypeOK
  <2>4. \/ Submits(s) /\ queue' = Append(queue, s)
        \/ Failed(s) /\ queue' = queue
    <3>1. CASE Goto(s, "pool") /\ queue' = Append(queue, s)
      <4>1. At(s, "subject") /\ job[s] # None /\ Same(s) /\ "pool" \in Places
          BY <2>1 DEF Submit, Same, At, Places
      <4>2. Goto(s, "pool")
          BY <3>1
      <4>3. Moved(s, "pool")
          BY <1>0, <4>1, <4>2, GotoShape DEF Moved
      <4>4. Submits(s)
          BY <4>1, <4>3 DEF Submits
      <4> QED BY <3>1, <4>4
    <3> QED BY <2>1, <3>1 DEF Submit
  <2> QED BY <2>2, <2>3, <2>4
<1>5. CASE \E s \in Scans : Answer(s)
  <2>1. PICK s \in Scans : Answer(s)
      BY <1>5
  <2>2. queue' \in Seq(Scans) /\ busy' \in SUBSET Scans
      BY <1>0, <2>1 DEF Answer, TypeOK
  <2> QED BY <1>0, <1>1, <2>1, <2>2, PoolAnswers, FitsTypes DEF PoolInv
<1>6. CASE Work
    BY <1>0, <1>1, <1>6, PoolWorks, FitsTypes DEF PoolInv
<1>7. CASE Crash
  <2>1. queue' \in Seq(Scans) /\ busy' \in SUBSET Scans
      BY <1>7 DEF Crash
  <2> QED BY <1>0, <1>1, <1>7, <2>1, PoolCrashes, FitsTypes DEF PoolInv
<1>8. CASE UNCHANGED vars
    BY <1>8 DEF vars, PoolInv, TypeOK, PoolServes, Waiting, At
<1> QED BY <1>2, <1>3, <1>4, <1>5, <1>6, <1>7, <1>8 DEF Next, Step

LEMMA InitPool == Init => PoolInv
<1>1. IsFiniteSet({}) /\ Cardinality({}) = 0
    BY FS_EmptySet
<1> QED BY <1>1, InitTypes, ScanAssumption DEF Init, PoolInv, PoolServes, Waiting, At

LEMMA PoolAlways == Spec => []PoolInv
    BY InitPool, StepPool, PTL DEF Spec

\* Rows, workflows and tasks keep their types.
THEOREM TypeCorrect == Spec => []TypeOK
<1>1. PoolInv => TypeOK
    BY DEF PoolInv
<1> QED BY <1>1, PoolAlways, PTL

\* A scan waits for the pool exactly when the pool has one task of it, and no more workers are
\* busy than there are, through failures and crashes.
THEOREM PoolCorrect == Spec => []PoolServes
<1>1. PoolInv => PoolServes
    BY DEF PoolInv
<1> QED BY <1>1, PoolAlways, PTL

-----------------------------------------------------------------------------
(* The verdict and its results. *)

\* What each place of an attempt guarantees of the row and of the status about to be written.
Control(s) ==
    /\ row[s] = None => job[s] = None /\ told[s] = 0 /\ tries[s] = 0
    /\ row[s] # None /\ (job[s] = None \/ At(s, "start")) =>
          row[s].status = "pending" /\ row[s].results = "none" /\ tries[s] = 0
    /\ At(s, "subject") \/ At(s, "pool") => job[s].to = "scanning"
    /\ (At(s, "read") \/ At(s, "save")) /\ job[s].to \in Verdicts => job[s].found = job[s].to
    /\ At(s, "results") => /\ job[s].to \in Verdicts /\ job[s].found = job[s].to
                           /\ row[s].status = job[s].to
    /\ At(s, "complete") \/ At(s, "open") \/ At(s, "done") => Agrees(s)

ControlInv == PoolInv /\ \A s \in Scans : Control(s)

LEMMA StepControl ==
    ASSUME TypeOK, NEW s \in Scans, Control(s), Acts(s) \/ Rests(s) \/ Dies(s)
    PROVE  Control(s)'
<1>0. /\ job[s] # None => row[s] # None
      /\ tries[s] \in Nat /\ told[s] \in Nat
    BY DEF TypeOK
<1>1. CASE Asked(s)
    BY <1>0, <1>1 DEF Asked, Control, At
<1>2. CASE Starts(s)
    BY <1>0, <1>2 DEF Starts, Same, Moved, Control, At
<1>3. CASE Begins(s)
    BY <1>0, <1>3 DEF Begins, Control, At, Verdicts
<1>4. CASE Reads(s)
    BY <1>0, <1>4 DEF Reads, Moved, Control, At
<1>5. CASE Fails(s)
    BY <1>0, <1>5 DEF Fails, Same, Control, At, Verdicts
<1>6. CASE Writes(s)
    BY <1>0, <1>6 DEF Writes, Moved, Control, At, Verdicts
<1>7. CASE Submits(s)
    BY <1>0, <1>7 DEF Submits, Same, Moved, Control, At
<1>8. CASE Answers(s)
    BY <1>0, <1>8 DEF Answers, Same, Control, At
<1>9. CASE Stores(s)
    BY <1>0, <1>9 DEF Stores, Moved, Control, Agrees, At
<1>10. CASE Completes(s)
    BY <1>0, <1>10 DEF Completes, Same, Moved, Control, Agrees, At
<1>11. CASE Rests(s)
    BY <1>11 DEF Rests, Same, Control, Agrees, At
<1>12. CASE Dies(s)
    BY <1>0, <1>12 DEF Dies, Same, Control, Agrees, At
<1> QED BY <1>1, <1>2, <1>3, <1>4, <1>5, <1>6, <1>7, <1>8, <1>9, <1>10, <1>11, <1>12 DEF Acts

LEMMA InitControl == Init => ControlInv
    BY InitPool DEF Init, ControlInv, Control, At

LEMMA StepControlInv == ControlInv /\ [Next]_vars => ControlInv'
<1> SUFFICES ASSUME ControlInv, [Next]_vars
             PROVE  ControlInv'
    OBVIOUS
<1>1. PoolInv' /\ TypeOK /\ PoolServes
    BY StepPool DEF ControlInv, PoolInv
<1>2. \A s \in Scans : Control(s)'
    BY <1>1, StepOnScans, StepControl DEF ControlInv
<1> QED BY <1>1, <1>2 DEF ControlInv

LEMMA ControlAlways == Spec => []ControlInv
    BY InitControl, StepControlInv, PTL DEF Spec

\* Status and results are two writes, and each may fail; yet a scan that no attempt will touch
\* again shows a verdict that its results bear out, or was never begun.
THEOREM VerdictCorrect == Spec => []VerdictHasResults
<1>1. ControlInv => VerdictHasResults
    BY DEF ControlInv, Control, VerdictHasResults, At
<1> QED BY <1>1, ControlAlways, PTL

-----------------------------------------------------------------------------
(* To its reader a scan is owed, then settled for good. *)

\* The state of the abstract scan.
Shown(s) ==
    IF row[s] = None THEN "none" ELSE IF ~At(s, "done") THEN "owed"
    ELSE IF Agrees(s) THEN row[s].status ELSE "broken"

Asking(s) == Shown(s) = "none" /\ Shown(s)' = "owed"
Settling(s) == Shown(s) = "owed" /\ Shown(s)' \in {"clean", "flagged"}

LEMMA ActShown ==
    ASSUME TypeOK, NEW s \in Scans, Control(s), Control(s)', Acts(s)
    PROVE  Shown(s)' = Shown(s) \/ Asking(s) \/ Settling(s)
<1>0. job[s] # None => row[s] # None
    BY DEF TypeOK
<1>1. CASE Asked(s)
    BY <1>0, <1>1 DEF Asked, Shown, Asking, At
<1>2. CASE Starts(s) \/ Begins(s) \/ Reads(s) \/ Fails(s)
    BY <1>0, <1>2 DEF Starts, Begins, Reads, Fails, Same, Moved, Shown, At
<1>3. CASE Writes(s)
    BY <1>0, <1>3 DEF Writes, Moved, Shown, At
<1>4. CASE Submits(s) \/ Answers(s) \/ Stores(s)
    BY <1>0, <1>4 DEF Submits, Answers, Stores, Same, Moved, Shown, At
<1>5. CASE Completes(s)
    BY <1>0, <1>5 DEF Completes, Same, Moved, Control, Shown, Settling, Agrees, Verdicts, At
<1> QED BY <1>1, <1>2, <1>3, <1>4, <1>5 DEF Acts

LEMMA RestShown ==
    ASSUME TypeOK, NEW s \in Scans, Rests(s) \/ Dies(s)
    PROVE  Shown(s)' = Shown(s)
<1>0. job[s] # None => row[s] # None
    BY DEF TypeOK
<1>1. CASE Rests(s)
    BY <1>1 DEF Rests, Same, Shown, Agrees, At
<1>2. CASE Dies(s)
    BY <1>0, <1>2 DEF Dies, Same, Shown, Agrees, At
<1> QED BY <1>1, <1>2

Board == [s \in Scans |-> Shown(s)]

LEMMA StepOfVerdict ==
    ControlInv /\ ControlInv' /\ [Next]_vars => [Verdict!Next]_Board
<1> SUFFICES ASSUME ControlInv, ControlInv', [Next]_vars, ~(Board' = Board)
             PROVE  Verdict!Next
    OBVIOUS
<1>1. TypeOK /\ PoolServes
    BY DEF ControlInv, PoolInv
<1>2. (\A s \in Scans : Rests(s) \/ Dies(s)) => Board' = Board
    BY <1>1, RestShown DEF Board
<1>3. PICK s \in Scans : Acts(s) /\ \A t \in Scans \ {s} : Rests(t)
    BY <1>1, <1>2, StepOnScans
<1>4. \A t \in Scans \ {s} : Shown(t)' = Shown(t)
    BY <1>1, <1>3, RestShown
<1>5. Shown(s)' # Shown(s)
    BY <1>4 DEF Board
<1>6. Board' = [Board EXCEPT ![s] = Shown(s)'] /\ Board[s] = Shown(s)
    BY <1>4 DEF Board
<1>7. CASE Asking(s)
  <2>1. Verdict!Request(s)
      BY <1>6, <1>7 DEF Verdict!Request, Asking, Board, Shown
  <2> QED BY <2>1 DEF Verdict!Next
<1>8. CASE Settling(s)
  <2>1. PICK v \in {"clean", "flagged"} : v = Shown(s)'
      BY <1>8 DEF Settling
  <2>2. Verdict!Settle(s)
      BY <1>6, <1>8, <2>1 DEF Verdict!Settle, Settling, Board, Shown
  <2> QED BY <2>2 DEF Verdict!Next
<1> QED BY <1>1, <1>3, <1>5, <1>7, <1>8, ActShown DEF ControlInv

\* A scan that was asked for is owed, and once its workflow is complete it has one verdict,
\* with its results, that never changes.
THEOREM SettlesForGoodCorrect == Spec => SettlesForGood
<1>1. Init => Verdict!Init
    BY DEF Init, Verdict!Init
<1> QED BY <1>1, StepOfVerdict, ControlAlways, PTL
        DEF Spec, SettlesForGood, Verdict!Spec, Board, Shown

-----------------------------------------------------------------------------
(* Notifications. *)

\* Of the notifications that an attempt may start, those that it still may.
Left(s) ==
    IF ~(At(s, "read") \/ At(s, "save") \/ At(s, "subject") \/ At(s, "pool") \/ At(s, "results"))
    THEN 0
    ELSE IF job[s].to = "error" THEN (IF At(s, "read") THEN 1 ELSE 0)
    ELSE IF job[s].to \in Verdicts /\ ~At(s, "read") THEN 1 ELSE 2

\* Results are stored at the end of an attempt, so the attempt that finds some is not the first.
Silent(s) ==
    /\ job[s] # None /\ ~At(s, "start") /\ ~At(s, "due") => tries[s] >= 1
    /\ row[s] # None /\ row[s].results # "none" =>
          \/ tries[s] >= 2
          \/ At(s, "complete") \/ At(s, "open") \/ At(s, "done")
          \/ At(s, "due") /\ tries[s] >= 1
    /\ told[s] = 0 \/ (tries[s] >= 2 /\ told[s] + 2 + Left(s) <= 2 * tries[s])

SilentInv == ControlInv /\ \A s \in Scans : Silent(s)

LEMMA StepSilent ==
    ASSUME TypeOK, NEW s \in Scans, Control(s), Silent(s), Acts(s) \/ Rests(s) \/ Dies(s)
    PROVE  Silent(s)'
<1>0. /\ job[s] # None => row[s] # None
      /\ tries[s] \in Nat /\ told[s] \in Nat
    BY DEF TypeOK
<1>1. CASE Asked(s)
    BY <1>0, <1>1 DEF Asked, Control, Silent, Left, At
<1>2. CASE Starts(s)
    BY <1>0, <1>2 DEF Starts, Same, Moved, Control, Silent, Left, At
<1>3. CASE Begins(s)
    BY <1>0, <1>3 DEF Begins, Silent, Left, At, Verdicts
<1>4. CASE Reads(s)
  <2>1. /\ At(s, "read") /\ At(s, "save")' /\ job'[s].to = job[s].to /\ job[s] # None
        /\ row'[s] = row[s] /\ tries'[s] = tries[s] /\ tries[s] >= 1
      BY <1>4 DEF Reads, Moved, Silent, At
  <2>2. Left(s) \in {1, 2} /\ Left(s)' \in {0, 1, 2} /\ Left(s)' <= Left(s)
      BY <2>1 DEF Left, At, Verdicts
  <2>3. CASE told'[s] = told[s]
      BY <1>0, <2>1, <2>2, <2>3 DEF Silent, At
  <2>4. CASE told'[s] = told[s] + 1 /\ Announces(s)
    <3>1. tries[s] >= 2
        BY <1>0, <2>1, <2>4 DEF Announces, Silent, At
    <3>2. Left(s)' < Left(s) /\ Left(s)' <= 1
        BY <2>1, <2>4 DEF Announces, Left, At, Verdicts
    <3> QED BY <1>0, <2>1, <2>2, <2>4, <3>1, <3>2 DEF Silent, At
  <2> QED BY <1>4, <2>3, <2>4 DEF Reads
<1>5. CASE Fails(s)
  <2>1. /\ row'[s] = row[s] /\ told'[s] = told[s] /\ tries'[s] = tries[s] /\ tries[s] >= 1
        /\ job[s].at \in {"read", "save", "subject", "pool", "results"} /\ job[s] # None
        /\ job'[s] # None /\ job'[s].at \in {"read", "due"}
      BY <1>5 DEF Fails, Same, Silent, At
  <2>2. Left(s) \in {0, 1, 2} /\ Left(s)' \in {0, 1}
      BY <1>5, <2>1 DEF Fails, Left, At, Verdicts
  <2>3. Left(s)' <= Left(s)
      BY <1>5, <2>1 DEF Fails, Left, At, Verdicts
  <2>4. row[s] # None /\ row[s].results # "none" => tries[s] >= 2
      BY <2>1 DEF Silent, At
  <2>5. told[s] = 0 \/ (tries[s] >= 2 /\ told[s] + 2 + Left(s) <= 2 * tries[s])
      BY DEF Silent
  <2>6. told'[s] = 0 \/ (tries'[s] >= 2 /\ told'[s] + 2 + Left(s)' <= 2 * tries'[s])
      BY <1>0, <2>1, <2>2, <2>3, <2>5
  <2> QED BY <2>1, <2>4, <2>6 DEF Silent
<1>6. CASE Writes(s)
    BY <1>0, <1>6 DEF Writes, Moved, Silent, Left, At, Verdicts
<1>7. CASE Submits(s)
    BY <1>0, <1>7 DEF Submits, Same, Moved, Control, Silent, Left, At, Verdicts
<1>8. CASE Answers(s)
    BY <1>0, <1>8 DEF Answers, Same, Control, Silent, Left, At, Verdicts
<1>9. CASE Stores(s)
    BY <1>0, <1>9 DEF Stores, Moved, Control, Silent, Left, At, Verdicts
<1>10. CASE Completes(s)
    BY <1>0, <1>10 DEF Completes, Same, Moved, Silent, Left, At
<1>11. CASE Rests(s)
    BY <1>11 DEF Rests, Same, Silent, Left, At
<1>12. CASE Dies(s)
    BY <1>0, <1>12 DEF Dies, Same, Control, Silent, Left, At, Verdicts
<1> QED BY <1>1, <1>2, <1>3, <1>4, <1>5, <1>6, <1>7, <1>8, <1>9, <1>10, <1>11, <1>12 DEF Acts

LEMMA InitSilent == Init => SilentInv
    BY InitControl DEF Init, SilentInv, Silent, At

LEMMA StepSilentInv == SilentInv /\ [Next]_vars => SilentInv'
<1> SUFFICES ASSUME SilentInv, [Next]_vars
             PROVE  SilentInv'
    OBVIOUS
<1>1. ControlInv' /\ TypeOK /\ PoolServes
    BY StepControlInv DEF SilentInv, ControlInv, PoolInv
<1>2. \A s \in Scans : Silent(s)'
    BY <1>1, StepOnScans, StepSilent DEF SilentInv, ControlInv
<1> QED BY <1>1, <1>2 DEF SilentInv

\* The first attempt of a scan never notifies anybody, whatever it found; each later one at
\* most twice.
THEOREM FirstAttemptCorrect == Spec => []FirstAttemptIsSilent
<1>1. SilentInv => FirstAttemptIsSilent
  <2> SUFFICES ASSUME SilentInv, NEW s \in Scans
               PROVE  told[s] = 0 \/ told[s] + 2 <= 2 * tries[s]
      BY DEF FirstAttemptIsSilent
  <2>1. Left(s) \in Nat /\ told[s] \in Nat /\ tries[s] \in Nat
      BY DEF SilentInv, ControlInv, PoolInv, TypeOK, Left
  <2>2. told[s] = 0 \/ (tries[s] >= 2 /\ told[s] + 2 + Left(s) <= 2 * tries[s])
      BY DEF SilentInv, Silent
  <2> QED BY <2>1, <2>2
<1> QED BY <1>1, InitSilent, StepSilentInv, PTL DEF Spec
=============================================================================
