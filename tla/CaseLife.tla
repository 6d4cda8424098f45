------------------------------ MODULE CaseLife ------------------------------
(***************************************************************************)
(* The life of one case after it is stored: status changes                 *)
(* (CaseServiceDefault.UpdateStatus, called by the updateCaseStatus        *)
(* handler and by the intake), edits (the updateCase handler), the status  *)
(* history and the notifications, each of which runs in a goroutine of its *)
(* own.  UpdateStatus and updateCase save the whole row that they read     *)
(* earlier, and every database call is a transaction of its own, so what   *)
(* happens in between is overwritten.  Cases do not share any of this      *)
(* state: one case is enough.                                              *)
(***************************************************************************)
EXTENDS Naturals, Sequences, FiniteSets

CONSTANTS
    Requests,    \* the requests that work on the case
    Reporters,   \* whom the case may be assigned to
    Statuses,    \* the statuses that are asked for, and the first one
    Texts,       \* the rest of the row: descriptions that differ
    Blank,       \* a description of spaces only: long enough for the DTO, not for Validate
    New,         \* CaseStatusNew
    Asks,        \* Asks[q]: what request q may turn out to be: a kind, and the fields to set
    MaxFaults,   \* how many kinds of calls may fail, once each (a bound of the model)
    None         \* no case, no row

ASSUME CaseAssumption ==
    /\ New \in Statuses /\ Blank \in Texts
    /\ MaxFaults \in Nat
    /\ None \notin Statuses /\ None \notin Reporters /\ None \notin Texts
    /\ \A q \in Requests : \A a \in Asks[q] :
          /\ a \in [kind : {"create", "status", "resolve", "edit"},
                    patch : [status : Statuses \cup {None}, reporter : Reporters \cup {None}, text : Texts \cup {None}]]
          /\ a.kind = "create" => a.patch.status = New /\ a.patch.reporter # None /\ a.patch.text # None
          /\ a.kind \in {"status", "resolve"} =>
                a.patch.status # None /\ a.patch.reporter = None /\ a.patch.text = None
    /\ None \notin [status : Statuses, reporter : Reporters, text : Texts]

VARIABLES
    row,      \* abuse_cases: the row of the case
    history,  \* abuse_case_status_history: the old and the new status of each entry
    comms,    \* abuse_communications: the notifications recorded as sent, by their place in notes
    inbox,    \* the mails that left, in that order: the place in notes of each
    req,      \* the requests
    notes,    \* the goroutines that notify, in the order in which they were started
    trail,    \* history: every row saved so far, with who saved it
    faults    \* history: the kinds of calls that failed, each at most once

vars == <<row, history, comms, inbox, req, notes, trail, faults>>

Row == [status : Statuses, reporter : Reporters, text : Texts]
Kinds == {"create", "status", "resolve", "edit"}

\* What a request asks to change; None where it leaves the field alone.
Patches == [status : Statuses \cup {None}, reporter : Reporters \cup {None}, text : Texts \cup {None}]
Only(s) == [status |-> s, reporter |-> None, text |-> None]

Idle == [at |-> "idle", kind |-> "edit", patch |-> Only(None), old |-> None, row |-> None, since |-> 0]

Init ==
    /\ row = None /\ history = <<>> /\ comms = {} /\ inbox = <<>>
    /\ req = [q \in Requests |-> Idle] /\ notes = <<>>
    /\ trail = <<>> /\ faults = {}

-----------------------------------------------------------------------------

\* Mutation of Merge: a field that the request leaves out is cleared, not kept.
MergeZero(patch, r) ==
    [status |-> IF patch.status = None THEN r.status ELSE patch.status,
     reporter |-> IF patch.reporter = None THEN r.reporter ELSE patch.reporter,
     text |-> IF patch.text = None THEN CHOOSE t \in Texts : t # Blank ELSE patch.text]

\* The handler applies the fields that are set to the row it fetched.
Merge(patch, r) ==
    [status |-> IF patch.status = None THEN r.status ELSE patch.status,
     reporter |-> IF patch.reporter = None THEN r.reporter ELSE patch.reporter,
     text |-> IF patch.text = None THEN r.text ELSE patch.text]

\* Mutation of Valid: anything is stored.
ValidAny(r) == r.text \in Texts

\* Case.Validate; the other fields of a row are valid whenever the DTO accepted them.
Valid(r) == r.text # Blank

Fault(what) == Cardinality(faults) < MaxFaults /\ what \notin faults /\ faults' = faults \cup {what}
Sound == UNCHANGED faults

Move(q, l) == req' = [req EXCEPT ![q].at = l]
Finish(q) == req' = [req EXCEPT ![q] = [Idle EXCEPT !.at = "done"]]

\* Nothing but request q is under way.
Alone(q) ==
    /\ \A p \in Requests \ {q} : req[p].at \in {"idle", "done"}
    /\ \A n \in DOMAIN notes : notes[n].at = "done"

\* A notification to start: of the creation, or of a change from one status to another.
Note(kind, old, new) == [at |-> "read", kind |-> kind, old |-> old, new |-> new, to |-> None]

(* The requests. *)

\* A request comes in: for a case to be opened, or for the one that is.
Ask(q) ==
    /\ req[q].at = "idle"
    /\ \E a \in Asks[q] :
        /\ IF a.kind = "create" THEN row = None /\ \A p \in Requests : req[p].at # "insert"
           ELSE row # None
        /\ req' = [req EXCEPT ![q] = [Idle EXCEPT !.kind = a.kind, !.patch = a.patch,
                !.at = CASE a.kind = "create" -> "insert" [] a.kind = "status" -> "look" [] OTHER -> "read"]]
    /\ UNCHANGED <<row, history, comms, inbox, notes, trail, faults>>

\* Create: an invalid case, or one the database refuses, is an error; otherwise
\* the reporter is notified.  The request of a case that was refused may be repeated.
Create(q) ==
    /\ req[q].at = "insert"
    /\ \/ /\ Valid(req[q].patch) /\ Sound
          /\ row' = req[q].patch
          /\ trail' = <<[row |-> row', by |-> req[q].kind, patch |-> req[q].patch, stale |-> FALSE, alone |-> TRUE]>>
          /\ notes' = Append(notes, Note("creation", None, New))
          /\ Finish(q)
       \/ /\ \/ ~Valid(req[q].patch) /\ Sound
             \/ Fault("create")
          /\ req' = [req EXCEPT ![q] = Idle]
          /\ UNCHANGED <<row, trail, notes>>
    /\ UNCHANGED <<history, comms, inbox>>

\* updateCaseStatus: the first GetByID, for the old status.
Look(q) ==
    /\ req[q].at = "look"
    /\ \/ req' = [req EXCEPT ![q].at = "read", ![q].old = row.status] /\ Sound
       \/ Fault("look") /\ Finish(q)
    /\ UNCHANGED <<row, history, comms, inbox, notes, trail>>

\* GetByID of UpdateStatus and of updateCase; UpdateStatus returns when nothing would change.
Read(q) ==
    /\ req[q].at = "read"
    /\ \/ /\ req[q].kind = "edit" \/ row.status # req[q].patch.status
          /\ req' = [req EXCEPT ![q].row = row, ![q].since = Len(trail),
                                ![q].at = IF req[q].kind = "edit" THEN "save" ELSE "enter"]
          /\ Sound
       \/ /\ req[q].kind # "edit" /\ row.status = req[q].patch.status
          /\ IF req[q].kind = "status" THEN Move(q, "reread") ELSE Finish(q)
          /\ Sound
       \/ Fault("read") /\ Finish(q)
    /\ UNCHANGED <<row, history, comms, inbox, notes, trail>>

\* Mutation of Enter: the old status is the one the handler looked up first.
EnterLooked(q) ==
    /\ req[q].at = "enter" /\ Move(q, "save")
    /\ \/ history' = Append(history, [old |-> IF req[q].kind = "status" THEN req[q].old ELSE req[q].row.status,
                                     new |-> req[q].patch.status]) /\ Sound
       \/ UNCHANGED history /\ Fault("history")
    /\ UNCHANGED <<row, comms, inbox, notes, trail>>

\* The entry of the status history; a failure is only logged.
Enter(q) ==
    /\ req[q].at = "enter" /\ Move(q, "save")
    /\ \/ history' = Append(history, [old |-> req[q].row.status, new |-> req[q].patch.status]) /\ Sound
       \/ UNCHANGED history /\ Fault("history")
    /\ UNCHANGED <<row, comms, inbox, notes, trail>>

\* Mutation of Announce: the handler's own notification is relied on.
AnnounceResolved(q) ==
    IF req[q].kind # "resolve" THEN UNCHANGED notes
    ELSE notes' = Append(notes, Note("status", req[q].row.status, req[q].patch.status))

\* UpdateStatus starts a notification once the case is saved; an edit starts none.
Announce(q) ==
    IF req[q].kind = "edit" THEN UNCHANGED notes
    ELSE notes' = Append(notes, Note("status", req[q].row.status, req[q].patch.status))

\* Update: the row that was read is saved with what was asked for.
Save(q) ==
    /\ req[q].at = "save"
    /\ \/ /\ Valid(Merge(req[q].patch, req[q].row)) /\ Sound
          /\ row' = Merge(req[q].patch, req[q].row)
          /\ trail' = Append(trail, [row |-> row', by |-> req[q].kind, patch |-> req[q].patch,
                                     stale |-> Len(trail) # req[q].since, alone |-> Alone(q)])
          /\ Announce(q)
          /\ IF req[q].kind = "status" THEN Move(q, "reread") ELSE Finish(q)
       \/ /\ \/ ~Valid(Merge(req[q].patch, req[q].row)) /\ Sound
             \/ Fault("save")
          /\ Finish(q)
          /\ UNCHANGED <<row, trail, notes>>
    /\ UNCHANGED <<history, comms, inbox>>

\* Mutation of Reread: the old and the new status are exchanged.
RereadSwapped(q) ==
    /\ req[q].at = "reread" /\ Finish(q)
    /\ \/ /\ IF req[q].old = row.status THEN UNCHANGED notes
             ELSE notes' = Append(notes, Note("status", row.status, req[q].old))
          /\ Sound
       \/ Fault("reread") /\ UNCHANGED notes
    /\ UNCHANGED <<row, history, comms, inbox, trail>>

\* updateCaseStatus: the second GetByID; the handler notifies too when the status
\* differs from the one that it looked up first.
Reread(q) ==
    /\ req[q].at = "reread" /\ Finish(q)
    /\ \/ /\ IF req[q].old = row.status THEN UNCHANGED notes
             ELSE notes' = Append(notes, Note("status", req[q].old, row.status))
          /\ Sound
       \/ Fault("reread") /\ UNCHANGED notes
    /\ UNCHANGED <<row, history, comms, inbox, trail>>

(* The goroutines that notify. *)

Turn(n, l) == notes' = [notes EXCEPT ![n].at = l]

\* The communication that says a notice was sent, the last thing a goroutine does;
\* a failure is only logged.
Record(n) ==
    \/ comms' = comms \cup {n} /\ Sound
    \/ UNCHANGED comms /\ Fault("comm")

\* GetByID of the case and of its reporter; for a creation also an access token,
\* without which the mail is left out and recorded all the same.
Address(n) ==
    /\ notes[n].at = "read"
    /\ \/ notes' = [notes EXCEPT ![n].at = "mail", ![n].to = row.reporter] /\ Sound
       \/ Fault("lookup") /\ Turn(n, "done")
       \/ notes[n].kind = "creation" /\ Fault("token") /\ Turn(n, "store")
    /\ UNCHANGED <<row, history, comms, inbox, req, trail>>

\* The end of SendCreationNotification without a token.
Store(n) ==
    /\ notes[n].at = "store" /\ Turn(n, "done") /\ Record(n)
    /\ UNCHANGED <<row, history, inbox, req, trail>>

\* SendTemplatedEmail and the record of it; without the mail nothing is recorded.
Mail(n) ==
    /\ notes[n].at = "mail" /\ Turn(n, "done")
    /\ \/ inbox' = Append(inbox, n) /\ Record(n)
       \/ UNCHANGED <<inbox, comms>> /\ Fault("mail")
    /\ UNCHANGED <<row, history, req, trail>>

\* The process stops and starts again: requests and goroutines are gone.
Crash ==
    /\ Fault("crash")
    /\ req' = [q \in Requests |-> IF req[q].at = "idle" THEN Idle ELSE [Idle EXCEPT !.at = "done"]]
    /\ notes' = [n \in DOMAIN notes |-> [notes[n] EXCEPT !.at = "done"]]
    /\ UNCHANGED <<row, history, comms, inbox, trail>>

Serve(q) == Create(q) \/ Look(q) \/ Read(q) \/ Enter(q) \/ Save(q) \/ Reread(q)
Notify(n) == Address(n) \/ Mail(n) \/ Store(n)

Next ==
    \/ \E q \in Requests : Ask(q) \/ Serve(q)
    \/ \E n \in DOMAIN notes : Notify(n)
    \/ Crash

Spec == Init /\ [][Next]_vars

\* Requests are served and goroutines run; nothing makes a request come in, a
\* call fail or the process stop.
FairSpec ==
    /\ Spec
    /\ \A q \in Requests : WF_vars(Serve(q))
    /\ \A n \in 1..(2 * Cardinality(Requests)) : WF_vars(n \in DOMAIN notes /\ Notify(n))

-----------------------------------------------------------------------------

Locations == {"idle", "insert", "look", "read", "enter", "save", "reread", "done"}
Notice == [at : {"read", "mail", "store", "done"}, kind : {"creation", "status"},
           old : Statuses \cup {None}, new : Statuses, to : Reporters \cup {None}]

\* The case, the tables, the requests and the goroutines keep their types; a row
\* that is stored is one Validate accepts.
TypeOK ==
    /\ row \in Row \cup {None}
    /\ row # None => row.text # Blank
    /\ history \in Seq([old : Statuses, new : Statuses])
    /\ comms \subseteq DOMAIN notes
    /\ inbox \in Seq(DOMAIN notes)
    /\ req \in [Requests -> [at : Locations, kind : Kinds, patch : Patches, old : Statuses \cup {None},
                             row : Row \cup {None}, since : Nat]]
    /\ notes \in Seq(Notice)
    /\ trail \in Seq([row : Row, by : Kinds, patch : Patches, stale : BOOLEAN, alone : BOOLEAN])

Quiet == /\ \A q \in Requests : req[q].at \in {"idle", "done"}
         /\ \A n \in DOMAIN notes : notes[n].at = "done"

\* A save by the updateCase handler that set the status: it writes no history and tells nobody.
ByEdit(i) == trail[i].by = "edit" /\ trail[i].patch.status # None

\* A mail about a change tells one that happened: the case had the old status and
\* later the new one, and the reporter it goes to was the case's at that time or
\* later.  The mail is made by a goroutine from what two different reads returned.
NoticeTellsPassage ==
    \A i \in DOMAIN inbox : LET n == notes[inbox[i]] IN
        n.kind = "status" =>
            \E a, b, c \in DOMAIN trail :
                /\ a < b /\ trail[a].row.status = n.old /\ trail[b].row.status = n.new
                /\ b <= c /\ trail[c].row.reporter = n.to

\* As long as no edit sets the status, no save overwrites another and no call of
\* UpdateStatus is cut short, the status history is a chain from the first status
\* to the one of the case, although history and case are written by separate
\* transactions, the history first.
HistoryTellsStatus ==
    (/\ row # None /\ Quiet
     /\ \A i \in DOMAIN trail : ~trail[i].stale /\ ~ByEdit(i)
     /\ faults \cap {"history", "save", "crash"} = {}) =>
        /\ \A i \in DOMAIN history : history[i].old = IF i = 1 THEN New ELSE history[i - 1].new
        /\ row.status = IF history = <<>> THEN New ELSE history[Len(history)].new

\* A field that a request does not ask to change is changed by its save only if
\* another request saved the case after this one had read it.
LostUpdateNeedsOverlap ==
    \A i \in DOMAIN trail : (i > 1 /\ ~trail[i].stale) =>
        \A f \in DOMAIN trail[i].patch :
            trail[i].patch[f] = None => trail[i].row[f] = trail[i - 1].row[f]

\* When changes of the status come one at a time, each after the notices of the one
\* before, the last mail the reporter gets tells the status the case has.  Changes
\* in quick succession have their goroutines overtake each other.
LastMailIsCurrent ==
    (/\ Quiet /\ faults = {}
     /\ \A i \in DOMAIN trail : trail[i].alone /\ ~ByEdit(i)) =>
        \A i \in DOMAIN inbox :
            (i = Len(inbox) /\ notes[inbox[i]].kind = "status") => notes[inbox[i]].new = row.status

\* A status that UpdateStatus saved is told to the reporter, or some call failed.
ChangeIsTold ==
    \A s \in Statuses :
        (\E i \in DOMAIN trail : trail[i].by \in {"status", "resolve"} /\ trail[i].patch.status = s)
            ~> (faults # {} \/ \E i \in DOMAIN inbox : notes[inbox[i]].kind = "status" /\ notes[inbox[i]].new = s)

=============================================================================
