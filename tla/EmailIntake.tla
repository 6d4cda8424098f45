---------------------------- MODULE EmailIntake ----------------------------
(***************************************************************************)
(* What happens to one e-mail after the IMAP client hands its body to      *)
(* EmailServiceDefault.handleProcessedEmail: the duplicate check, the      *)
(* routing by the pipeline, the creation of one case per reported hash,    *)
(* the automatic resolution and blocking for trusted reporters, and the    *)
(* record that the e-mail was processed.  Every database call is a         *)
(* transaction of its own (db.ExecuteTransaction), so every call is a step *)
(* of its own here, and each may fail; the process may also stop between   *)
(* any two of them.  Administrators and the public report form work on the *)
(* same tables at the same time.                                           *)
(*                                                                         *)
(* Not here: the status history and the notifications of a case, the       *)
(* expiry of blocks, duplicate rows of reporters and subjects, and the     *)
(* IMAP session that delivers the mails.                                   *)
(***************************************************************************)
EXTENDS Naturals, Sequences, FiniteSets

CONSTANTS
    Mails,        \* e-mail contents; two deliveries of one mail are equal to the duplicate check
    Reporters,    \* rows of abuse_reporters that may come to exist
    Hashes,       \* content hashes, one subject row each
    Kind,         \* Kind[m]: what the pipeline makes of mail m
    From,         \* From[m]: the reporter named by mail m
    TextHashes,   \* TextHashes[m]: hashes found in the text of m
    UrlHashes,    \* UrlHashes[m]: hashes found in the URLs of m
    Limits,       \* how often events of each kind may happen together (bounds of the model)
    None          \* no mail, no hash, no row

Kinds == {"report", "reply", "malformed"}
Events == {"delivery", "submission", "edit", "block", "fault"}

ASSUME IntakeAssumption ==
    /\ None \notin Mails
    /\ Kind \in [Mails -> Kinds]
    /\ From \in [Mails -> Reporters]
    /\ TextHashes \in [Mails -> SUBSET Hashes]
    /\ UrlHashes \in [Mails -> SUBSET Hashes]
    /\ Limits \subseteq [Events -> Nat]

VARIABLES
    processed,  \* abuse_processed_emails: the mails recorded as processed
    reporters,  \* abuse_reporters
    subjects,   \* abuse_subjects, by hash
    cases,      \* abuse_cases, by id
    comms,      \* abuse_communications: the mails stored with a case
    blocks,     \* abuse_blocklist: live rows, with the case the handler wrote them for (0: an administrator's)
    pc,         \* where the handler of the polling goroutine is
    mail,       \* the mail it handles
    trusted,    \* its copy of IsTrusted(reporter)
    todo,       \* subjects of its loop that have no case yet
    subject,    \* the subject of its loop that it works on
    cur,        \* id of the case it created last
    row,        \* the case row its UpdateStatus read
    edits,      \* open requests of administrators: the row of case id, as it was read
    vouched,    \* history: reporters some administrator gave a settled case, or another's case
    edited,     \* history: ids of the cases administrators saved
    matched,    \* history: mails that DetectThread took for a reply to a stored one
    faults,     \* history: <<mail, step>> for each step that failed while handling mail
    used        \* used[k]: how many events of kind k happened

tables == <<processed, reporters, subjects, cases, comms, blocks>>
local == <<mail, trusted, todo, subject, cur, row>>
admin == <<edits, vouched, edited>>
history == <<matched, faults, used>>
vars == <<tables, pc, local, admin, history>>

Statuses == {"new", "in_progress", "resolved", "closed"}
CaseRow == [mail : Mails \cup {None}, hash : Hashes, reporter : Reporters,
            needsReview : BOOLEAN, status : Statuses]
Locations == {"idle", "check", "route", "thread", "reporter", "subjects", "trust", "create",
              "read", "save", "lookup", "block", "comm", "mark"}
\* What may fail: each call that touches the database, and the process itself.
Steps == {"check", "reporter", "url", "subjects", "trust", "create", "resolve", "block", "comm",
          "mark", "crash"}

\* The statuses GetTrustStatus counts.
Settled(status) == status \in {"resolved", "closed"}

\* The hashes a report names: extractAndLinkHashSubjects, then extractAndLinkURLSubjects;
\* a mail without a hash in its text is skipped, whatever its URLs hold.
Named(m) == IF TextHashes[m] = {} THEN {} ELSE TextHashes[m] \cup UrlHashes[m]

Init ==
    /\ processed = {} /\ reporters = {} /\ subjects = {}
    /\ cases = <<>> /\ comms = {} /\ blocks = {}
    /\ pc = "idle" /\ mail = None /\ trusted = FALSE /\ todo = {} /\ subject = None
    /\ cur = 0 /\ row = None
    /\ edits = {} /\ vouched = {} /\ edited = {}
    /\ matched = {} /\ faults = {} /\ used = [k \in Events |-> 0]

-----------------------------------------------------------------------------

\* Mutations of Trusted: any case of the reporter counts; a settled case of anyone counts.
TrustedByAnyCase(r) == \E i \in DOMAIN cases : cases[i].reporter = r
TrustedByAnyone(r) == \E i \in DOMAIN cases : Settled(cases[i].status) /\ r \in Reporters

\* GetTrustStatus: the reporter has at least one settled case.
Trusted(r) == \E i \in DOMAIN cases : cases[i].reporter = r /\ Settled(cases[i].status)

\* IsBlocked: a live row holds the hash.
Blocked(h) == \E b \in blocks : b.hash = h

\* Counts an event of kind k against its bound.
Spend(k) ==
    /\ used' = [used EXCEPT ![k] = @ + 1]
    /\ \E limit \in Limits : \A j \in Events : used'[j] <= limit[j]

\* One step of the handler fails, or no step does.
Fault(step) == Spend("fault") /\ faults' = faults \cup {<<mail, step>>} /\ UNCHANGED matched
Sound == UNCHANGED history

Goto(l) == pc' = l

\* The steps that failed while mail m was handled.
FaultsOf(m) == {f[2] : f \in {g \in faults : g[1] = m}}

(* The polling goroutine: handleProcessedEmail and what it calls. *)

\* The IMAP client calls the handler with the body of a fetched message.
Deliver(m) ==
    /\ pc = "idle" /\ Goto("check")
    /\ mail' = m /\ trusted' = FALSE /\ todo' = {} /\ subject' = None /\ cur' = 0 /\ row' = None
    /\ Spend("delivery")
    /\ UNCHANGED <<tables, admin, matched, faults>>

\* ParseEmail or ARFProcessor.Process fails: the error is returned before anything is stored.
Reject ==
    /\ pc = "check" /\ Kind[mail] = "malformed"
    /\ Goto("idle")
    /\ UNCHANGED <<tables, local, admin, history>>

\* The processedCheck callback.  An error of the look-up is logged and the mail
\* is then handled as if it were new.
CheckProcessed ==
    /\ pc = "check" /\ Kind[mail] # "malformed"
    /\ \/ mail \in processed /\ Goto("idle") /\ Sound
       \/ mail \notin processed /\ Goto("route") /\ Sound
       \/ Fault("check") /\ Goto("route")
    /\ UNCHANGED <<tables, local, admin>>

\* DetectThread: a reply names a stored mail or a case that has one, or it names neither
\* (which headers decide is abstracted to the choice); everything else opens cases.
Route ==
    /\ pc = "route"
    /\ \/ /\ Kind[mail] = "reply" /\ comms # {} /\ Goto("thread")
          /\ matched' = matched \cup {mail} /\ UNCHANGED <<faults, used>>
       \/ Goto("reporter") /\ Sound
    /\ UNCHANGED <<tables, local, admin>>

\* handleThreadMatch parses the reader that ProcessEmail has already read to
\* its end: the parser fails, and neither the reply nor a status is stored.
HandleThreadMatch ==
    /\ pc = "thread" /\ Goto("mark")
    /\ UNCHANGED <<tables, local, admin, history>>

\* Mutation of GetOrCreateReporter: an unknown reporter is not created.
GetReporter ==
    /\ pc = "reporter" /\ Goto("subjects") /\ Sound
    /\ UNCHANGED <<tables, local, admin>>

\* getOrCreateReporter.
GetOrCreateReporter ==
    /\ pc = "reporter"
    /\ \/ reporters' = reporters \cup {From[mail]} /\ Goto("subjects") /\ Sound
       \/ UNCHANGED reporters /\ Fault("reporter") /\ Goto("mark")
    /\ UNCHANGED <<processed, subjects, cases, comms, blocks, local, admin>>

\* extractAndLinkHashSubjects stops at the first error and leaves the subjects it made;
\* extractAndLinkURLSubjects skips the URLs whose subject cannot be made.
LinkSubjects ==
    /\ pc = "subjects"
    /\ \/ /\ todo' = Named(mail) /\ subjects' = subjects \cup Named(mail)
          /\ Goto(IF Named(mail) = {} THEN "mark" ELSE "trust") /\ Sound
       \/ /\ \E skipped \in SUBSET (Named(mail) \ TextHashes[mail]) :
                skipped # {} /\ todo' = Named(mail) \ skipped
          /\ subjects' = subjects \cup todo'
          /\ Fault("url") /\ Goto("trust")
       \/ /\ Named(mail) # {} /\ UNCHANGED todo
          /\ \E made \in SUBSET TextHashes[mail] : subjects' = subjects \cup made
          /\ Fault("subjects") /\ Goto("mark")
    /\ UNCHANGED <<processed, reporters, cases, comms, blocks, mail, trusted, subject, cur, row, admin>>

\* IsTrusted, read once before the loop.
CheckTrust ==
    /\ pc = "trust"
    /\ \/ trusted' = Trusted(From[mail]) /\ Goto("create") /\ Sound
       \/ UNCHANGED trusted /\ Fault("trust") /\ Goto("mark")
    /\ UNCHANGED <<tables, mail, todo, subject, cur, row, admin>>

\* CaseService.Create for the next subject of the loop.
CreateCase ==
    /\ pc = "create"
    /\ \E h \in todo : subject' = h /\ todo' = todo \ {h}
    /\ \/ /\ cases' = Append(cases, [mail |-> mail, hash |-> subject', reporter |-> From[mail],
                                     needsReview |-> ~trusted, status |-> "new"])
          /\ cur' = Len(cases) + 1
          /\ Goto(IF trusted THEN "read" ELSE "comm") /\ Sound
       \/ UNCHANGED <<cases, cur>> /\ Fault("create") /\ Goto("mark")
    /\ UNCHANGED <<processed, reporters, subjects, comms, blocks, mail, trusted, row, admin>>

\* Mutation of ResolveRead: the test for an unchanged status is inverted.
ResolveReadInverted ==
    /\ pc = "read"
    /\ row' = cases[cur] /\ Sound
    /\ Goto(IF cases[cur].status = "resolved" THEN "save" ELSE "lookup")
    /\ UNCHANGED <<tables, mail, trusted, todo, subject, cur, admin>>

\* autoResolveAndBlock, UpdateStatus: the row is read; a case that already has
\* the status needs no write; an error ends autoResolveAndBlock, not the loop.
ResolveRead ==
    /\ pc = "read"
    /\ \/ row' = cases[cur] /\ Sound
          /\ Goto(IF cases[cur].status = "resolved" THEN "lookup" ELSE "save")
       \/ UNCHANGED row /\ Fault("resolve") /\ Goto("comm")
    /\ UNCHANGED <<tables, mail, trusted, todo, subject, cur, admin>>

\* Mutation of ResolveSave: autoResolveAndBlock returns after the update, whatever its outcome.
ResolveSaveOnly ==
    /\ pc = "save" /\ Goto("comm") /\ Sound
    /\ cases' = [cases EXCEPT ![cur] = [row EXCEPT !.status = "resolved"]]
    /\ UNCHANGED <<processed, reporters, subjects, comms, blocks, local, admin>>

\* autoResolveAndBlock, UpdateStatus: the whole row is saved as it was read, with the new status.
ResolveSave ==
    /\ pc = "save"
    /\ \/ cases' = [cases EXCEPT ![cur] = [row EXCEPT !.status = "resolved"]]
          /\ Goto("lookup") /\ Sound
       \/ UNCHANGED cases /\ Fault("resolve") /\ Goto("comm")
    /\ UNCHANGED <<processed, reporters, subjects, comms, blocks, local, admin>>

\* autoResolveAndBlock, BlockContent: IsBlocked first.
BlockLookup ==
    /\ pc = "lookup"
    /\ \/ Goto(IF Blocked(subject) THEN "comm" ELSE "block") /\ Sound
       \/ Fault("block") /\ Goto("comm")
    /\ UNCHANGED <<tables, local, admin>>

\* autoResolveAndBlock, BlockContent: then the insert, in a transaction of its own.
BlockInsert ==
    /\ pc = "block" /\ Goto("comm")
    /\ \/ blocks' = blocks \cup {[hash |-> subject, case |-> cur]} /\ Sound
       \/ UNCHANGED blocks /\ Fault("block")
    /\ UNCHANGED <<processed, reporters, subjects, cases, comms, local, admin>>

\* Mutation of AddCommunication: the loop ends with its first subject.
AddCommunicationOnce ==
    /\ pc = "comm" /\ Goto("mark") /\ Sound
    /\ comms' = comms \cup {[case |-> cur, mail |-> mail]}
    /\ UNCHANGED <<processed, reporters, subjects, cases, blocks, local, admin>>

\* CommunicationService.Create; an error leaves the loop.
AddCommunication ==
    /\ pc = "comm"
    /\ \/ comms' = comms \cup {[case |-> cur, mail |-> mail]} /\ Sound
          /\ Goto(IF todo = {} THEN "mark" ELSE "create")
       \/ UNCHANGED comms /\ Fault("comm") /\ Goto("mark")
    /\ UNCHANGED <<processed, reporters, subjects, cases, blocks, local, admin>>

\* Mutation of MarkProcessed: only a mail whose handling succeeded is recorded.
MarkOnSuccess ==
    /\ pc = "mark" /\ Goto("idle") /\ Sound
    /\ processed' = IF FaultsOf(mail) = {} THEN processed \cup {mail} ELSE processed
    /\ UNCHANGED <<reporters, subjects, cases, comms, blocks, local, admin>>

\* MarkEmailProcessed, whether or not the handling succeeded.
MarkProcessed ==
    /\ pc = "mark" /\ Goto("idle")
    /\ \/ processed' = processed \cup {mail} /\ Sound
       \/ UNCHANGED processed /\ Fault("mark")
    /\ UNCHANGED <<reporters, subjects, cases, comms, blocks, local, admin>>

\* The process stops in the middle of a mail and is started again.
Crash ==
    /\ pc # "idle" /\ Goto("idle")
    /\ Fault("crash")
    /\ UNCHANGED <<tables, local, admin>>

Handler ==
    \/ Reject \/ CheckProcessed \/ Route \/ HandleThreadMatch \/ GetOrCreateReporter
    \/ LinkSubjects \/ CheckTrust \/ CreateCase \/ ResolveRead \/ ResolveSave
    \/ BlockLookup \/ BlockInsert \/ AddCommunication \/ MarkProcessed

-----------------------------------------------------------------------------
(* The other users of the tables. *)

\* A case that no e-mail opened.
OpenCase(h, r, review) ==
    /\ Spend("submission")
    /\ cases' = Append(cases, [mail |-> None, hash |-> h, reporter |-> r,
                               needsReview |-> review, status |-> "new"])
    /\ UNCHANGED <<processed, comms, blocks, pc, local, admin, matched, faults>>

\* SubmitReport: the public form; the case needs review unless the reporter is trusted.
SubmitReport(r, h) ==
    /\ reporters' = reporters \cup {r}
    /\ subjects' = subjects \cup {h}
    /\ OpenCase(h, r, ~Trusted(r))

\* createCase of the administration API: any existing reporter and subject.
CreateCaseByAdmin(r, h, review) ==
    /\ OpenCase(h, r, review)
    /\ UNCHANGED <<reporters, subjects>>

\* updateCase and updateCaseStatus: an administrator's request reads the row of case i.
AdminRead(i) ==
    /\ edits' = edits \cup {[id |-> i, was |-> cases[i]]}
    /\ Spend("edit")
    /\ UNCHANGED <<tables, pc, local, vouched, edited, matched, faults>>

\* updateCase and updateCaseStatus: the whole row is saved as it was read, with
\* the fields the administrator set.
AdminSave(e, status, review, r, h) ==
    /\ cases' = [cases EXCEPT ![e.id] = [e.was EXCEPT !.status = status, !.needsReview = review,
                                                      !.reporter = r, !.hash = h]]
    /\ vouched' = IF Settled(status) \/ r # e.was.reporter THEN vouched \cup {r} ELSE vouched
    /\ edited' = edited \cup {e.id}
    /\ edits' = edits \ {e}
    /\ UNCHANGED <<processed, reporters, subjects, comms, blocks, pc, local, history>>

\* blockContent of the administration API.
AdminBlock(h) ==
    /\ ~Blocked(h) /\ Spend("block")
    /\ blocks' = blocks \cup {[hash |-> h, case |-> 0]}
    /\ UNCHANGED <<processed, reporters, subjects, cases, comms, pc, local, admin, matched, faults>>

\* unblockContent, and the removal of an expired block: every row of the hash goes.
Unblock(h) ==
    /\ Blocked(h) /\ Spend("block")
    /\ blocks' = {b \in blocks : b.hash # h}
    /\ UNCHANGED <<processed, reporters, subjects, cases, comms, pc, local, admin, matched, faults>>

Others ==
    \/ \E r \in Reporters, h \in Hashes : SubmitReport(r, h)
    \/ \E r \in reporters, h \in subjects, n \in BOOLEAN : CreateCaseByAdmin(r, h, n)
    \/ \E i \in DOMAIN cases : AdminRead(i)
    \/ \E e \in edits, s \in Statuses, n \in BOOLEAN, r \in reporters, h \in subjects :
          AdminSave(e, s, n, r, h)
    \/ \E h \in Hashes : AdminBlock(h) \/ Unblock(h)

\* Nothing arrives: where the bounds end a behaviour, only the handler's idleness lets it stop.
Idle == pc = "idle" /\ UNCHANGED vars

Next == (\E m \in Mails : Deliver(m)) \/ Handler \/ Crash \/ Others \/ Idle

Spec == Init /\ [][Next]_vars

\* The polling goroutine runs the handler to its end: no step of it waits for anyone.
FairSpec == Spec /\ WF_vars(Handler)

-----------------------------------------------------------------------------
(* Properties. *)

\* Every variable has its type, and no row refers to a reporter, subject or case that does not
\* exist (the foreign keys of the schema, which the handler must respect at every step).
TypeOK ==
    /\ processed \subseteq Mails /\ reporters \subseteq Reporters /\ subjects \subseteq Hashes
    /\ cases \in Seq(CaseRow)
    /\ \A i \in DOMAIN cases : cases[i].reporter \in reporters /\ cases[i].hash \in subjects
    /\ comms \subseteq [case : DOMAIN cases, mail : Mails]
    /\ blocks \subseteq [hash : Hashes, case : {0} \cup DOMAIN cases]
    /\ pc \in Locations /\ mail \in Mails \cup {None} /\ (pc # "idle" => mail # None)
    /\ trusted \in BOOLEAN /\ todo \subseteq Hashes /\ subject \in Hashes \cup {None}
    /\ cur \in {0} \cup DOMAIN cases /\ row \in CaseRow \cup {None}
    /\ edits \subseteq [id : DOMAIN cases, was : CaseRow]
    /\ vouched \subseteq Reporters /\ edited \subseteq DOMAIN cases
    /\ matched \subseteq Mails /\ faults \subseteq Mails \X Steps /\ used \in [Events -> Nat]

\* However often a mail is delivered and wherever its handling fails, it opens at most one
\* case per hash -- unless the look-up or the record of the duplicate check itself failed, or
\* the process stopped before the record was written.
AtMostOneCase ==
    \A i, j \in DOMAIN cases :
        (i # j /\ cases[i].mail \in Mails /\ cases[i].mail = cases[j].mail
               /\ i \notin edited /\ j \notin edited /\ cases[i].hash = cases[j].hash)
            => FaultsOf(cases[i].mail) \cap {"check", "mark", "crash"} # {}

\* A reporter is trusted only if some administrator settled a case of theirs, or moved another's
\* case to them: the cases that the handler resolves by itself, of which it is the trust that
\* decides, never make a new reporter trusted.
TrustIsVouched ==
    \A i \in DOMAIN cases : Settled(cases[i].status) => cases[i].reporter \in vouched

\* A block that the handler wrote names a hash that the mail of its case reported, and the
\* sender of that mail was vouched for, whatever was done to the case meanwhile.
BlocksHaveGrounds ==
    \A b \in blocks : b.case # 0 =>
        LET m == cases[b.case].mail
        IN  m \in Mails /\ b.hash \in Named(m) /\ From[m] \in vouched

\* A case that is not to be reviewed is not left for nobody: unless an administrator took it up
\* or its resolution failed, the handler has resolved it or is about to.
NoStrandedCase ==
    \A i \in DOMAIN cases :
        (cases[i].mail \in Mails /\ ~cases[i].needsReview /\ cases[i].status = "new")
            => \/ i \in edited
               \/ cur = i /\ pc \in {"read", "save"}
               \/ FaultsOf(cases[i].mail) \cap {"resolve", "crash"} # {}

\* A report recorded as processed is never handled again, so by then every hash it names has a
\* case, and the case has the text of the report -- unless a step failed.
ProcessedIsHandled ==
    \A m \in processed : (Kind[m] = "report" /\ FaultsOf(m) = {}) =>
        \A h \in Named(m) : \E c \in comms :
            c.mail = m /\ cases[c.case].mail = m /\ (cases[c.case].hash = h \/ c.case \in edited)

\* Once a sender was found trusted, every hash of the mail that awaits its case becomes blocked,
\* unless a step fails: the loop ends, and none of its exits skips a block.
TrustedReportBlocks ==
    \A m \in Mails, h \in Hashes :
        (pc = "create" /\ mail = m /\ trusted /\ h \in todo)
            ~> (Blocked(h) \/ FaultsOf(m) # {})

\* The comment of handleThreadMatch: it "adds communication to an existing case".
RepliesAreStored ==
    \A m \in matched \cap processed : FaultsOf(m) # {} \/ \E c \in comms : c.mail = m
=============================================================================
