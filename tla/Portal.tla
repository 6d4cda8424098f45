------------------------------- MODULE Portal -------------------------------
(***************************************************************************)
(* What a reporter does on the public site of the plugin and what it       *)
(* leaves in the tables: submitting a report, exchanging the access token  *)
(* for a JWT, commenting on the case and uploading evidence, beside the    *)
(* intake that looks up subjects, and administrators who open and reassign *)
(* cases, store reporters and subjects, add comments and upload evidence.  *)
(* Every database call is a transaction of its own and the object store is *)
(* written between two of them.                                            *)
(*                                                                         *)
(* Not here: the content of comments and files, what getCase shows, and    *)
(* time: a JWT is good for 90 days, but a token buys another one at any    *)
(* time, for ValidateToken does not look at the date of expiry.            *)
(***************************************************************************)
EXTENDS Naturals, Sequences, FiniteSets

CONSTANTS
    Requests,    \* the requests that come in
    Asks,        \* Asks[q]: what request q may turn out to be
    Emails,      \* addresses of reporters
    Hashes,      \* hashes of reported content
    MaxReassign, \* how often administrators reassign a case (a bound of the model)
    MaxFaults    \* how many kinds of calls may fail, once each (a bound of the model)

Kinds == {"submit", "find", "comment", "upload", "adminComment", "adminUpload",
          "adminReporter", "adminSubject", "adminCase"}

ASSUME PortalAssumption ==
    /\ \A q \in Requests : Asks[q] \subseteq [kind : Kinds, email : Emails, hash : Hashes]
    /\ MaxReassign \in Nat /\ MaxFaults \in Nat

VARIABLES
    schema,     \* of the database that the portal runs on: it never changes
    reporters,  \* abuse_reporters: the address of each row, and what kind of request made it
                \* from how many rows it had looked at
    subjects,   \* abuse_subjects: the hash and type of each row, and the same
    cases,      \* abuse_cases: the reporter of each row, and those it had before
    tokens,     \* abuse_tokens
    evidence,   \* abuse_evidence
    objects,    \* the object store: the evidence rows whose file is there
    comms,      \* abuse_communications written by requests
    pending,    \* the goroutines that notify the reporter of a case
    mails,      \* the mails they sent
    req,        \* the requests
    faults      \* history: the kinds of calls that failed, each at most once

tables == <<reporters, subjects, cases, tokens, evidence, comms>>
outside == <<objects, mails>>
vars == <<schema, tables, outside, pending, req, faults>>

\* A request: where it is, what it is for, what it has read and made, and its answer.
Idle == [at |-> "idle", kind |-> "find", email |-> CHOOSE e \in Emails : TRUE,
         hash |-> CHOOSE h \in Hashes : TRUE, case |-> 0, reporter |-> 0, made |-> 0,
         since |-> 0, answer |-> "none"]

Init ==
    /\ schema \in {"mysql", "sqlite"}
    /\ reporters = <<>> /\ subjects = <<>> /\ cases = <<>> /\ tokens = <<>>
    /\ evidence = <<>> /\ objects = {} /\ comms = <<>> /\ pending = {} /\ mails = {}
    /\ req = [q \in Requests |-> Idle] /\ faults = {}

-----------------------------------------------------------------------------

Fault(what) == Cardinality(faults) < MaxFaults /\ what \notin faults /\ faults' = faults \cup {what}
Sound == UNCHANGED faults

Go(q, r) == req' = [req EXCEPT ![q] = r]
Move(q, l) == req' = [req EXCEPT ![q].at = l]
Answer(q, r) == req' = [req EXCEPT ![q] = [r EXCEPT !.at = "done", !.answer = "ok"]]
Fail(q, a) == req' = [req EXCEPT ![q] = [Idle EXCEPT !.at = "done", !.answer = a]]

\* First(s, x): the oldest row of s that holds x.
First(s, x) == CHOOSE i \in DOMAIN s : s[i].key = x /\ \A j \in 1..(i - 1) : s[j].key # x
Has(s, x) == \E i \in DOMAIN s : s[i].key = x

(* submitReport. *)

\* A request comes in.
Ask(q) ==
    /\ req[q].at = "idle"
    /\ \E a \in Asks[q] : LET r == [Idle EXCEPT !.kind = a.kind, !.email = a.email, !.hash = a.hash] IN
        \/ a.kind = "submit" /\ Go(q, [r EXCEPT !.at = "reporter"])
        \/ a.kind = "find" /\ Go(q, [r EXCEPT !.at = "find"])
        \/ a.kind \in {"comment", "upload"} /\ tokens # <<>> /\ Go(q, [r EXCEPT !.at = "exchange"])
        \/ a.kind = "adminReporter" /\ Go(q, [r EXCEPT !.at = "newReporter"])
        \/ a.kind = "adminSubject" /\ Go(q, [r EXCEPT !.at = "subject"])
        \/ a.kind = "adminCase" /\ \E o \in DOMAIN reporters : Go(q, [r EXCEPT !.at = "case", !.reporter = o])
        \/ /\ a.kind \in {"adminComment", "adminUpload"}
           /\ \E c \in DOMAIN cases :
                Go(q, [r EXCEPT !.at = IF a.kind = "adminComment" THEN "look" ELSE "row", !.case = c])
    /\ UNCHANGED <<tables, outside, pending, faults>>

\* Mutation of FindReporter: an error of the look-up is taken for a reporter not found.
FindReporterAnyway(q) ==
    /\ req[q].at = "reporter"
    /\ \/ /\ Has(reporters, req[q].email) /\ Sound
          /\ Go(q, [req[q] EXCEPT !.at = "subject", !.reporter = First(reporters, req[q].email)])
       \/ ~Has(reporters, req[q].email) /\ Sound /\ Go(q, [req[q] EXCEPT !.at = "newReporter", !.since = Len(reporters)])
       \/ Fault("reporter") /\ Go(q, [req[q] EXCEPT !.at = "newReporter", !.since = Len(reporters)])
    /\ UNCHANGED <<tables, outside, pending>>

\* GetByEmail: the oldest row of the address.
FindReporter(q) ==
    /\ req[q].at = "reporter"
    /\ \/ /\ Has(reporters, req[q].email) /\ Sound
          /\ Go(q, [req[q] EXCEPT !.at = "subject", !.reporter = First(reporters, req[q].email)])
       \/ /\ ~Has(reporters, req[q].email) /\ Sound
          /\ Go(q, [req[q] EXCEPT !.at = "newReporter", !.since = Len(reporters)])
       \/ Fault("reporter") /\ Fail(q, "error")
    /\ UNCHANGED <<tables, outside, pending>>

\* email is unique in abuse_reporters: in the schema for SQLite, but not in the one for MySQL.
UniqueEmail == schema = "sqlite"

\* The unique index refuses another row of address e.
Taken(e) == UniqueEmail /\ Has(reporters, e)

\* ReporterService.Create, which fails when the address is taken; an administrator's request
\* (createReporter) looks nothing up before.
CreateReporter(q) ==
    /\ req[q].at = "newReporter"
    /\ \/ /\ ~Taken(req[q].email)
          /\ reporters' = Append(reporters, [key |-> req[q].email, checked |-> req[q].since, by |-> req[q].kind])
          /\ IF req[q].kind = "submit" THEN Go(q, [req[q] EXCEPT !.at = "subject", !.reporter = Len(reporters')])
             ELSE Answer(q, [req[q] EXCEPT !.made = Len(reporters')])
          /\ Sound
       \/ /\ Taken(req[q].email) /\ UNCHANGED reporters /\ Sound
          /\ Go(q, [req[q] EXCEPT !.at = "done", !.answer = "taken"])
       \/ UNCHANGED reporters /\ Fault("newReporter") /\ Fail(q, "error")
    /\ UNCHANGED <<subjects, cases, tokens, evidence, comms, outside, pending>>

\* SubjectService.Create: a form makes a subject row of its own, whether there is one or
\* not, and of type url even for a hash; an administrator (createSubject) chooses the type.
CreateSubject(q) ==
    /\ req[q].at = "subject"
    /\ \/ /\ \E type \in IF req[q].kind = "submit" THEN {"url"} ELSE {"url", "hash"} :
                subjects' = Append(subjects, [key |-> req[q].hash, type |-> type, checked |-> 0, by |-> req[q].kind])
          /\ IF req[q].kind = "submit" THEN Move(q, "case") ELSE Answer(q, [req[q] EXCEPT !.made = Len(subjects')])
          /\ Sound
       \/ UNCHANGED subjects /\ Fault("subject") /\ Fail(q, "error")
    /\ UNCHANGED <<reporters, cases, tokens, evidence, comms, outside, pending>>

\* IsTrusted, which decides only about the review flag, and CaseService.Create,
\* which starts the notice of the creation; an administrator (createCase) gets no token.
CreateCase(q) ==
    /\ req[q].at = "case"
    /\ \/ /\ cases' = Append(cases, [reporter |-> req[q].reporter, owners |-> <<req[q].reporter>>])
          /\ pending' = pending \cup {[kind |-> "creation", of |-> Len(cases')]}
          /\ IF req[q].kind = "submit" THEN Go(q, [req[q] EXCEPT !.at = "token", !.case = Len(cases')])
             ELSE Answer(q, [req[q] EXCEPT !.case = Len(cases')])
          /\ Sound
       \/ UNCHANGED <<cases, pending>> /\ Fault("case") /\ Fail(q, "error")
    /\ UNCHANGED <<reporters, subjects, tokens, evidence, comms, outside>>

\* GenerateToken, whose failure is an error to the client although the case exists;
\* there is nothing left to do after it but to answer.
IssueToken(q) ==
    /\ req[q].at = "token"
    /\ \/ /\ tokens' = Append(tokens, [case |-> req[q].case, reporter |-> req[q].reporter, told |-> TRUE])
          /\ Answer(q, [req[q] EXCEPT !.made = Len(tokens')]) /\ Sound
       \/ UNCHANGED tokens /\ Fault("issue") /\ Fail(q, "error")
    /\ UNCHANGED <<reporters, subjects, cases, evidence, comms, outside, pending>>

(* FindOrCreate of the intake: look up a subject of type hash, so none that a form made,
   and create the one that is not found. *)

Known(h) == \E i \in DOMAIN subjects : subjects[i].key = h /\ subjects[i].type = "hash"

FindSubject(q) ==
    /\ req[q].at = "find"
    /\ \/ Known(req[q].hash) /\ Sound /\ Answer(q, req[q])
       \/ ~Known(req[q].hash) /\ Sound /\ Go(q, [req[q] EXCEPT !.at = "insert", !.since = Len(subjects)])
       \/ Fault("find") /\ Fail(q, "error")
    /\ UNCHANGED <<tables, outside, pending>>

InsertSubject(q) ==
    /\ req[q].at = "insert"
    /\ \/ subjects' = Append(subjects, [key |-> req[q].hash, type |-> "hash", checked |-> req[q].since, by |-> "find"])
          /\ Answer(q, req[q]) /\ Sound
       \/ UNCHANGED subjects /\ Fault("insert") /\ Fail(q, "error")
    /\ UNCHANGED <<reporters, cases, tokens, evidence, comms, outside, pending>>

(* The routes behind a JWT. *)

\* ValidateToken finds the row of a token and does not look at its date of expiry: what
\* the row names.
Claims(t) == [case |-> tokens[t].case, reporter |-> tokens[t].reporter]

\* Mutation of Exchange: the claims name the reporter the case has now.
ExchangeCurrent(q) ==
    /\ req[q].at = "exchange"
    /\ \E t \in DOMAIN tokens, ref \in DOMAIN cases :
        /\ tokens[t].told
        /\ IF ref # tokens[t].case THEN Fail(q, "refused")
           ELSE Go(q, [req[q] EXCEPT !.at = "check", !.case = ref, !.reporter = cases[ref].reporter])
    /\ Sound
    /\ UNCHANGED <<tables, outside, pending>>

\* exchangeToken or refreshToken: the case and the reporter of the token are the claims of
\* the JWT the request then carries.  The case in the path of the request may be another one.
Exchange(q) ==
    /\ req[q].at = "exchange"
    /\ \E t \in DOMAIN tokens, ref \in DOMAIN cases :
        /\ tokens[t].told
        /\ IF ref # Claims(t).case THEN Fail(q, "refused")
           ELSE Go(q, [req[q] EXCEPT !.at = "check", !.case = ref, !.reporter = Claims(t).reporter])
    /\ Sound
    /\ UNCHANGED <<tables, outside, pending>>

\* addComment and uploadFile: the case is still the reporter's, or the request is refused.
Check(q) ==
    /\ req[q].at = "check"
    /\ LET c == req[q].case IN
        \/ /\ cases[c].reporter = req[q].reporter /\ Sound
           /\ Go(q, [req[q] EXCEPT !.since = Len(cases[c].owners),
                                   !.at = IF req[q].kind = "comment" THEN "store" ELSE "row"])
        \/ cases[c].reporter # req[q].reporter /\ Sound /\ Fail(q, "refused")
        \/ Fault("check") /\ Fail(q, "error")
    /\ UNCHANGED <<tables, outside, pending>>

\* addCaseCommunication: the case exists.
Look(q) ==
    /\ req[q].at = "look"
    /\ \/ Move(q, "store") /\ Sound
       \/ Fault("look") /\ Fail(q, "error")
    /\ UNCHANGED <<tables, outside, pending>>

\* Who a comment or a file is said to be from: what administrators store has the fixed id 1,
\* which may be that of a reporter.
Sender(r) == IF r.kind \in {"adminComment", "adminUpload"} THEN 1 ELSE r.reporter

\* CommunicationService.Create, the last thing addComment, addCaseCommunication and
\* uploadFile do.  An incoming comment, which only an administrator may store here,
\* is mailed to the reporter.
StoreComm(q) ==
    /\ req[q].at = "store"
    /\ \/ /\ comms' = Append(comms, [case |-> req[q].case, sender |-> Sender(req[q]), since |-> req[q].since,
                                      of |-> req[q].kind])
          /\ Answer(q, [req[q] EXCEPT !.made = IF @ = 0 THEN Len(comms') ELSE @]) /\ Sound
          /\ \/ UNCHANGED pending
             \/ req[q].kind = "adminComment" /\ pending' = pending \cup {[kind |-> "comment", of |-> Len(comms')]}
       \/ UNCHANGED <<comms, pending>> /\ Fault("comm") /\ Fail(q, "error")
    /\ UNCHANGED <<reporters, subjects, cases, tokens, evidence, outside>>

\* CreateFromData: the row is created first, its id is part of the key of the object.
CreateRow(q) ==
    /\ req[q].at = "row"
    /\ \/ /\ evidence' = Append(evidence, [case |-> req[q].case, by |-> Sender(req[q]), of |-> req[q].kind,
                                            path |-> FALSE, live |-> TRUE])
          /\ Go(q, [req[q] EXCEPT !.at = "object", !.made = Len(evidence')]) /\ Sound
       \/ UNCHANGED evidence /\ Fault("row") /\ Fail(q, "error")
    /\ UNCHANGED <<reporters, subjects, cases, tokens, comms, outside, pending>>

\* S3MultipartUpload.
Upload(q) ==
    /\ req[q].at = "object"
    /\ \/ objects' = objects \cup {req[q].made} /\ Move(q, "path") /\ Sound
       \/ UNCHANGED objects /\ Fault("object") /\ Move(q, "rollback")
    /\ UNCHANGED <<tables, mails, pending>>

\* Mutation of Rollback: the row stays.
RollbackNone(q) ==
    /\ req[q].at = "rollback" /\ Fail(q, "error") /\ Sound
    /\ UNCHANGED <<tables, outside, pending>>

\* The row of a file that could not be stored is deleted; an error of that is not looked at.
Rollback(q) ==
    /\ req[q].at = "rollback" /\ Fail(q, "error")
    /\ \/ evidence' = [evidence EXCEPT ![req[q].made].live = FALSE] /\ Sound
       \/ UNCHANGED evidence /\ Fault("rollback")
    /\ UNCHANGED <<reporters, subjects, cases, tokens, comms, outside, pending>>

\* Mutation of SavePath: an error is only logged.
SavePathAnyway(q) ==
    /\ req[q].at = "path"
    /\ \/ evidence' = [evidence EXCEPT ![req[q].made].path = TRUE] /\ Sound
       \/ UNCHANGED evidence /\ Fault("path")
    /\ pending' = pending \cup {[kind |-> "evidence", of |-> req[q].made]}
    /\ IF req[q].kind = "upload" THEN Move(q, "store") ELSE Answer(q, req[q])
    /\ UNCHANGED <<reporters, subjects, cases, tokens, comms, outside>>

\* The row is saved with the path of its object and the reporter is notified; uploadFile
\* then adds a comment, uploadEvidence is done.
SavePath(q) ==
    /\ req[q].at = "path"
    /\ \/ /\ evidence' = [evidence EXCEPT ![req[q].made].path = TRUE]
          /\ pending' = pending \cup {[kind |-> "evidence", of |-> req[q].made]}
          /\ Sound
          /\ IF req[q].kind = "upload" THEN Move(q, "store") ELSE Answer(q, req[q])
       \/ UNCHANGED <<evidence, pending>> /\ Fault("path") /\ Fail(q, "error")
    /\ UNCHANGED <<reporters, subjects, cases, tokens, comms, outside>>

(* Goroutines and administrators. *)

\* The case a notification is about.
CaseOf(p) == CASE p.kind = "creation" -> p.of
               [] p.kind = "evidence" -> evidence[p.of].case
               [] p.kind = "comment" -> comms[p.of].case

\* SendCreationNotification issues a token of its own and mails it, notifyEvidenceAdded
\* and notifyNewComment only mail; errors end the goroutine.
Notify(p) ==
    /\ pending' = pending \ {p}
    /\ LET to == cases[CaseOf(p)].reporter IN
        \/ /\ mails' = mails \cup {[kind |-> p.kind, of |-> p.of, to |-> to]} /\ Sound
           /\ IF p.kind = "creation"
              THEN tokens' = Append(tokens, [case |-> p.of, reporter |-> to, told |-> TRUE])
              ELSE UNCHANGED tokens
        \/ /\ UNCHANGED mails /\ Fault("mail")
           /\ \/ UNCHANGED tokens
              \/ /\ p.kind = "creation"
                 /\ tokens' = Append(tokens, [case |-> p.of, reporter |-> to, told |-> FALSE])
    /\ UNCHANGED <<reporters, subjects, cases, evidence, comms, objects, req>>

\* updateCase gives the case to another reporter.
Reassign(c, r) ==
    /\ Len(cases[c].owners) <= MaxReassign /\ r # cases[c].reporter
    /\ cases' = [cases EXCEPT ![c].reporter = r, ![c].owners = Append(@, r)]
    /\ UNCHANGED <<reporters, subjects, tokens, evidence, comms, outside, pending, req, faults>>

\* The process stops and starts again: requests and goroutines are gone.
Crash ==
    /\ Fault("crash")
    /\ req' = [q \in Requests |-> IF req[q].at \in {"idle", "done"} THEN req[q]
                                  ELSE [Idle EXCEPT !.at = "done", !.answer = "error"]]
    /\ pending' = {}
    /\ UNCHANGED <<tables, outside>>

Serve(q) ==
    \/ Ask(q) \/ FindReporter(q) \/ CreateReporter(q) \/ CreateSubject(q) \/ CreateCase(q) \/ IssueToken(q)
    \/ FindSubject(q) \/ InsertSubject(q)
    \/ Exchange(q) \/ Check(q) \/ Look(q) \/ StoreComm(q) \/ CreateRow(q) \/ Upload(q) \/ Rollback(q) \/ SavePath(q)

Next ==
    /\ UNCHANGED schema
    /\ \/ \E q \in Requests : Serve(q)
       \/ \E p \in pending : Notify(p)
       \/ \E c \in DOMAIN cases, r \in DOMAIN reporters : Reassign(c, r)
       \/ Crash

Spec == Init /\ [][Next]_vars

-----------------------------------------------------------------------------

\* What two look-up-then-create requests leave when they overlap.  With the schema of MySQL a
\* form adds a second row of its address, and with either schema the intake adds a second
\* subject of type hash, only when the look-up was over before the earlier row was stored,
\* whoever stored it.  With the schema of SQLite an address never has two rows; instead the
\* form fails, and only in the same case.  (An administrator looks nothing up, and neither
\* does a form for its subject: what those two add may double without any overlap.)
DuplicateNeedsOverlap ==
    /\ \A i, j \in DOMAIN reporters : (i < j /\ reporters[i].key = reporters[j].key) =>
          ~UniqueEmail /\ (reporters[j].by = "submit" => reporters[j].checked < i)
    /\ \A q \in Requests : (req[q].answer = "taken" /\ req[q].kind = "submit") =>
          \E i \in DOMAIN reporters : reporters[i].key = req[q].email /\ req[q].since < i
    /\ \A i, j \in DOMAIN subjects :
          (i < j /\ subjects[i].key = subjects[j].key /\ subjects[i].type = "hash" /\ subjects[j].by = "find") =>
             subjects[j].checked < i

\* A report that was answered is a case of the reporter's with a token that opens
\* it; a comment and a file that were answered are stored with the case, the file
\* with its object.  What was answered with an error may be stored all the same.
AnsweredIsStored ==
    \A q \in Requests : LET r == req[q] IN r.answer = "ok" =>
        CASE r.kind = "submit" ->
                /\ tokens[r.made].case = r.case /\ tokens[r.made].reporter = cases[r.case].owners[1]
                /\ reporters[cases[r.case].owners[1]].key = r.email
          [] r.kind = "find" -> Known(r.hash)
          [] r.kind = "adminReporter" -> reporters[r.made].key = r.email
          [] r.kind = "adminSubject" -> subjects[r.made].key = r.hash
          [] r.kind = "adminCase" -> cases[r.case].owners[1] = r.reporter
          [] r.kind \in {"comment", "adminComment"} -> comms[r.made].case = r.case
          [] r.kind \in {"upload", "adminUpload"} ->
                /\ evidence[r.made].live /\ evidence[r.made].path /\ r.made \in objects
                /\ evidence[r.made].case = r.case

\* Whatever a reporter stored with a case, a token had been issued to that reporter for that
\* case, and the case was the reporter's when the request was checked: only a request that
\* was checked before the case changed hands may be stored after it did.  (A file has no such
\* record of its own but the comment that ends its upload; of one whose comment failed it is
\* only said that its sender owned the case at some time.)
AccessIsGranted ==
    /\ \A i \in DOMAIN comms : comms[i].of # "adminComment" =>
          /\ cases[comms[i].case].owners[comms[i].since] = comms[i].sender
          /\ \E t \in DOMAIN tokens : tokens[t].case = comms[i].case /\ tokens[t].reporter = comms[i].sender
    /\ \A i \in DOMAIN evidence : evidence[i].of = "upload" =>
          \E k \in DOMAIN cases[evidence[i].case].owners : cases[evidence[i].case].owners[k] = evidence[i].by

\* An upload that is under way.
UnderWay(i) == \E q \in Requests : req[q].made = i /\ req[q].at \in {"object", "rollback", "path"}

\* What may leave file i without its path: one failed save of the path, which nothing repairs,
\* if the object is there; a failed upload and then a failed rollback if it is not; or a crash.
Excused(i) ==
    IF i \in objects THEN faults \cap {"path", "crash"} # {}
    ELSE {"object", "rollback"} \subseteq faults \/ "crash" \in faults

\* A row with a path has its object, an object never lacks its row, and the reporter is told of
\* no file that is not whole.  A row without a path -- of no use, and neither is its object, which
\* only the path leads to -- is of an upload under way or was left behind: ONE failed save of the
\* path or ONE crash is enough for that, a failed upload alone is not.
EvidenceIsWhole ==
    /\ \A i \in DOMAIN evidence : evidence[i].path => evidence[i].live /\ i \in objects
    /\ \A i \in objects : i \in DOMAIN evidence /\ evidence[i].live
    /\ \A m \in mails : m.kind = "evidence" => evidence[m.of].path
    /\ \A i \in DOMAIN evidence : (evidence[i].live /\ ~evidence[i].path) => UnderWay(i) \/ Excused(i)

=============================================================================
