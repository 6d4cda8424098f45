------------------------- MODULE EmailIntakeProofs -------------------------
(***************************************************************************)
(* Proofs about EmailIntake, for every set of mails, reporters and hashes  *)
(* and without the bounds of the runs.                                     *)
(***************************************************************************)
EXTENDS EmailIntake, TLAPS

-----------------------------------------------------------------------------
(* What a write to abuse_cases does to the other rows. *)

\* Inserting a row keeps the others and gives the new one the next id.
LEMMA AppendRow ==
    ASSUME NEW S, NEW s \in Seq(S), NEW c \in S
    PROVE  /\ Append(s, c) \in Seq(S)
           /\ Len(s) + 1 \notin DOMAIN s
           /\ DOMAIN Append(s, c) = DOMAIN s \cup {Len(s) + 1}
           /\ \A i \in DOMAIN s : Append(s, c)[i] = s[i]
           /\ Append(s, c)[Len(s) + 1] = c
           /\ 0 \notin DOMAIN Append(s, c)
    OBVIOUS

\* Saving a row keeps the others.
LEMMA PutRow ==
    ASSUME NEW S, NEW s \in Seq(S), NEW k \in DOMAIN s, NEW c \in S
    PROVE  /\ [s EXCEPT ![k] = c] \in Seq(S)
           /\ DOMAIN [s EXCEPT ![k] = c] = DOMAIN s
           /\ \A i \in DOMAIN s \ {k} : [s EXCEPT ![k] = c][i] = s[i]
           /\ [s EXCEPT ![k] = c][k] = c
    OBVIOUS

-----------------------------------------------------------------------------
(* Types. *)

\* What each part of the handler may rely on: the reporter and the subjects were stored before
\* the loop, the loop works on a case that exists, and the row to be saved has been read.
Control ==
    /\ pc \in {"subjects", "trust", "create", "read", "save", "lookup", "block", "comm"}
         => From[mail] \in reporters
    /\ pc \in {"read", "save", "lookup", "block", "comm"} => cur \in DOMAIN cases /\ subject \in Hashes
    /\ pc = "save" => row \in CaseRow /\ row.reporter \in reporters /\ row.hash \in subjects
    /\ todo \subseteq subjects

TypeInv == TypeOK /\ Control

\* The write of this step inserts row c; it saves row c under the id k.
Inserted(c) ==
    /\ c \in CaseRow /\ cases' \in Seq(CaseRow)
    /\ Len(cases) + 1 \notin DOMAIN cases /\ DOMAIN cases' = DOMAIN cases \cup {Len(cases) + 1}
    /\ \A i \in DOMAIN cases : cases'[i] = cases[i]
    /\ cases'[Len(cases) + 1] = c

Saved(k, c) ==
    /\ c \in CaseRow /\ cases' \in Seq(CaseRow)
    /\ k \in DOMAIN cases /\ DOMAIN cases' = DOMAIN cases
    /\ \A i \in DOMAIN cases : cases'[i] = IF i = k THEN c ELSE cases[i]

\* CreateCase inserts a row for one of the subjects it has to do, or ends the loop.
LEMMA CreateCaseShape ==
    ASSUME TypeInv, CreateCase
    PROVE  /\ mail \in Mails /\ subject' \in todo /\ todo' = todo \ {subject'}
           /\ \/ UNCHANGED <<cases, cur>> /\ pc' = "mark"
              \/ /\ cur' = Len(cases) + 1
                 /\ (pc' = "read" /\ trusted) \/ pc' = "comm"
                 /\ \E c \in CaseRow : /\ Inserted(c) /\ c.mail = mail /\ c.hash = subject'
                                        /\ c.reporter = From[mail] /\ c.status = "new"
<1>1. mail \in Mails /\ From[mail] \in Reporters /\ todo \subseteq Hashes /\ trusted \in BOOLEAN
    BY IntakeAssumption DEF TypeInv, TypeOK, CreateCase
<1>2. subject' \in todo /\ todo' = todo \ {subject'}
    BY DEF CreateCase
<1>3. CASE UNCHANGED <<cases, cur>> /\ Goto("mark")
    BY <1>1, <1>2, <1>3 DEF Goto
<1>4. CASE ~(UNCHANGED <<cases, cur>> /\ Goto("mark"))
  <2> DEFINE c == [mail |-> mail, hash |-> subject', reporter |-> From[mail],
                   needsReview |-> ~trusted, status |-> "new"]
  <2>1. cases' = Append(cases, c) /\ cur' = Len(cases) + 1
      BY <1>4 DEF CreateCase
  <2>2. (pc' = "read" /\ trusted) \/ pc' = "comm"
      BY <1>4 DEF CreateCase, Goto
  <2>3. c \in CaseRow
      BY <1>1, <1>2 DEF CaseRow, Statuses
  <2>4. /\ c.mail = mail /\ c.hash = subject'
        /\ c.reporter = From[mail] /\ c.status = "new"
      OBVIOUS
  <2> HIDE DEF c
  <2>5. Inserted(c)
      BY <2>1, <2>3, AppendRow DEF Inserted, TypeInv, TypeOK
  <2> QED BY <1>1, <1>2, <2>1, <2>2, <2>3, <2>4, <2>5
<1> QED BY <1>3, <1>4

\* ResolveSave saves the row it read with the status resolved, or fails.
LEMMA ResolveSaveShape ==
    ASSUME TypeInv, ResolveSave
    PROVE  \/ UNCHANGED cases /\ pc' = "comm"
           \/ /\ pc' = "lookup"
              /\ \E c \in CaseRow : /\ Saved(cur, c) /\ c.mail = row.mail /\ c.hash = row.hash
                                     /\ c.reporter = row.reporter
<1>1. CASE UNCHANGED cases /\ Goto("comm")
    BY <1>1 DEF Goto
<1>2. CASE ~(UNCHANGED cases /\ Goto("comm"))
  <2> DEFINE c == [row EXCEPT !.status = "resolved"]
  <2>1. cases' = [cases EXCEPT ![cur] = c] /\ pc' = "lookup" /\ cur \in DOMAIN cases
      BY <1>2 DEF ResolveSave, Goto, TypeInv, Control
  <2>2. /\ c \in CaseRow /\ c.mail = row.mail /\ c.hash = row.hash
        /\ c.reporter = row.reporter
      BY DEF TypeInv, Control, ResolveSave, CaseRow, Statuses
  <2> HIDE DEF c
  <2>3. Saved(cur, c)
      BY <2>1, <2>2, PutRow DEF Saved, TypeInv, TypeOK
  <2> QED BY <2>1, <2>2, <2>3
<1> QED BY <1>1, <1>2

\* A case opened outside the handler is a row that names no mail.
LEMMA OpenCaseShape ==
    ASSUME TypeInv,
           NEW h \in Hashes, NEW r \in Reporters, NEW review \in BOOLEAN, OpenCase(h, r, review)
    PROVE  \E c \in CaseRow : /\ Inserted(c) /\ c.mail = None /\ c.hash = h
                              /\ c.reporter = r /\ c.status = "new"
<1> DEFINE c == [mail |-> None, hash |-> h, reporter |-> r, needsReview |-> review, status |-> "new"]
<1>1. cases' = Append(cases, c) /\ c \in CaseRow
    BY DEF OpenCase, CaseRow, Statuses
<1>2. c.mail = None /\ c.hash = h /\ c.reporter = r /\ c.status = "new"
    OBVIOUS
<1> HIDE DEF c
<1>3. Inserted(c)
    BY <1>1, AppendRow DEF Inserted, TypeInv, TypeOK
<1> QED BY <1>1, <1>2, <1>3

\* AdminSave saves the row its request read with the fields the administrator set.
LEMMA AdminSaveShape ==
    ASSUME TypeInv,
           NEW e \in edits, NEW s \in Statuses, NEW n \in BOOLEAN, NEW r \in reporters,
           NEW h \in subjects, AdminSave(e, s, n, r, h)
    PROVE  /\ e.id \in DOMAIN cases /\ e.was \in CaseRow
           /\ \E c \in CaseRow : /\ Saved(e.id, c) /\ c.mail = e.was.mail /\ c.hash = h
                                  /\ c.reporter = r /\ c.status = s
<1> DEFINE c == [e.was EXCEPT !.status = s, !.needsReview = n, !.reporter = r, !.hash = h]
<1>1. cases' = [cases EXCEPT ![e.id] = c]
    BY DEF AdminSave
<1>2. e.id \in DOMAIN cases /\ e.was \in CaseRow /\ r \in Reporters /\ h \in Hashes
    BY DEF TypeInv, TypeOK
<1>3. /\ c \in CaseRow /\ c.mail = e.was.mail /\ c.hash = h
      /\ c.reporter = r /\ c.status = s
    BY <1>2 DEF CaseRow
<1> HIDE DEF c
<1>4. Saved(e.id, c)
    BY <1>1, <1>2, <1>3, PutRow DEF Saved, TypeInv, TypeOK
<1> QED BY <1>2, <1>3, <1>4

LEMMA InitTypes == Init => TypeInv
<1> USE IntakeAssumption DEF Init
<1>1. Init => TypeOK
  <2> SUFFICES ASSUME Init PROVE TypeOK
      OBVIOUS
  <2>1. cases \in Seq(CaseRow) /\ DOMAIN cases = {}
      OBVIOUS
  <2>2. trusted \in BOOLEAN
      OBVIOUS
  <2>3. used \in [Events -> Nat]
      OBVIOUS
  <2> QED BY <2>1, <2>2, <2>3 DEF TypeOK, Locations
<1>2. Init => Control
    BY DEF Control
<1> QED BY <1>1, <1>2 DEF TypeInv

\* A step that fails is recorded; no other step of the handler touches faults.
FaultStep == Spend("fault") /\ \E step \in Steps : faults' = faults \cup {<<mail, step>>}

LEMMA FaultTypes ==
    ASSUME TypeOK, pc # "idle", FaultStep \/ UNCHANGED <<faults, used>>
    PROVE  faults' \subseteq Mails \X Steps /\ used' \in [Events -> Nat]
    BY DEF TypeOK, FaultStep, Spend, Events

\* The handler writes the history only as a mail that it handles matches or fails.
LEMMA HistoryTypes ==
    ASSUME TypeInv, Handler \/ Crash
    PROVE  faults' \subseteq Mails \X Steps /\ used' \in [Events -> Nat] /\ matched' \subseteq Mails
<1>1. pc # "idle" /\ (FaultStep \/ UNCHANGED <<faults, used>>)
    BY DEF Handler, Reject, CheckProcessed, Route, HandleThreadMatch, GetOrCreateReporter, LinkSubjects,
           CheckTrust, CreateCase, ResolveRead, ResolveSave, BlockLookup, BlockInsert, AddCommunication,
           MarkProcessed, Crash, Fault, FaultStep, Sound, history, Steps
<1>2. matched' = matched \/ (Route /\ matched' = matched \cup {mail})
    BY DEF Handler, Reject, CheckProcessed, Route, HandleThreadMatch, GetOrCreateReporter, LinkSubjects,
           CheckTrust, CreateCase, ResolveRead, ResolveSave, BlockLookup, BlockInsert, AddCommunication,
           MarkProcessed, Crash, Fault, Sound, history
<1>3. mail \in Mails
    BY <1>1 DEF TypeInv, TypeOK
<1> QED BY <1>1, <1>2, <1>3, FaultTypes DEF TypeInv, TypeOK

\* The new row refers to the reporter and to a subject that the handler stored before.
LEMMA CreateCaseTypes == TypeInv /\ CreateCase => TypeInv'
<1> SUFFICES ASSUME TypeInv, CreateCase PROVE TypeInv'
    OBVIOUS
<1>1. faults' \subseteq Mails \X Steps /\ used' \in [Events -> Nat] /\ matched' \subseteq Mails
    BY HistoryTypes DEF Handler
<1>2. mail \in Mails /\ subject' \in todo /\ todo' = todo \ {subject'}
    BY CreateCaseShape
<1>3. CASE UNCHANGED <<cases, cur>> /\ pc' = "mark"
    BY <1>1, <1>2, <1>3 DEF TypeInv, TypeOK, Control, CreateCase, admin, Locations
<1>4. ASSUME NEW c \in CaseRow, Inserted(c), c.hash = subject', c.reporter = From[mail],
             cur' = Len(cases) + 1, pc' \in {"read", "comm"}
      PROVE  TypeInv'
    BY <1>1, <1>2, <1>4 DEF TypeInv, TypeOK, Control, CreateCase, Inserted, admin, Locations
<1> QED BY <1>3, <1>4, CreateCaseShape

\* The saved row is the row that was read, which refers to rows that still exist.
LEMMA ResolveSaveTypes == TypeInv /\ ResolveSave => TypeInv'
<1> SUFFICES ASSUME TypeInv, ResolveSave PROVE TypeInv'
    OBVIOUS
<1>1. faults' \subseteq Mails \X Steps /\ used' \in [Events -> Nat] /\ matched' \subseteq Mails
    BY HistoryTypes DEF Handler
<1> USE DEF TypeInv, TypeOK, Control, ResolveSave, local, admin, Locations
<1>2. CASE UNCHANGED cases /\ pc' = "comm"
    BY <1>1, <1>2
<1>3. ASSUME NEW c \in CaseRow, Saved(cur, c), c.hash = row.hash, c.reporter = row.reporter,
             pc' = "lookup"
      PROVE  TypeInv'
    BY <1>1, <1>3 DEF Saved
<1> QED BY <1>2, <1>3, ResolveSaveShape

\* A case opened outside the handler refers to a reporter and a subject that exist by then.
LEMMA OpenCaseTypes ==
    ASSUME TypeInv,
           NEW h \in Hashes, NEW r \in Reporters, NEW review \in BOOLEAN, OpenCase(h, r, review),
           reporters' = reporters \cup {r}, subjects' = subjects \cup {h}
    PROVE  TypeInv'
<1>1. PICK c \in CaseRow : Inserted(c) /\ c.hash = h /\ c.reporter = r
    BY OpenCaseShape
<1>2. used' \in [Events -> Nat]
    BY DEF TypeInv, TypeOK, OpenCase, Spend, Events
<1> QED BY <1>1, <1>2 DEF TypeInv, TypeOK, Control, OpenCase, Inserted, local, admin

\* An administrator's request saves the row it read with a reporter and a subject that exist.
LEMMA AdminSaveTypes ==
    ASSUME TypeInv,
           NEW e \in edits, NEW s \in Statuses, NEW n \in BOOLEAN, NEW r \in reporters,
           NEW h \in subjects, AdminSave(e, s, n, r, h)
    PROVE  TypeInv'
<1>1. PICK c \in CaseRow : Saved(e.id, c) /\ c.hash = h /\ c.reporter = r
    BY AdminSaveShape
<1> QED BY <1>1 DEF TypeInv, TypeOK, Control, AdminSave, Saved, local, history

LEMMA StepTypes == TypeInv /\ [Next]_vars => TypeInv'
<1> SUFFICES ASSUME TypeInv, [Next]_vars PROVE TypeInv'
    OBVIOUS
<1>1. ASSUME Handler \/ Crash
      PROVE  faults' \subseteq Mails \X Steps /\ used' \in [Events -> Nat] /\ matched' \subseteq Mails
    BY <1>1, HistoryTypes
<1> USE IntakeAssumption DEF TypeInv, TypeOK, Control, Goto, Locations
<1>2. ASSUME NEW m \in Mails, Deliver(m) PROVE TypeInv'
  <2>1. used' \in [Events -> Nat]
      BY <1>2 DEF Deliver, Spend, Events
  <2>2. trusted' \in BOOLEAN
      BY <1>2 DEF Deliver
  <2> QED BY <1>2, <2>1, <2>2 DEF Deliver, tables, admin
<1>3. CASE Reject
    BY <1>1, <1>3 DEF Handler, Reject, tables, local, admin
<1>4. CASE CheckProcessed
    BY <1>1, <1>4 DEF Handler, CheckProcessed, tables, local, admin
<1>5. CASE Route
    BY <1>1, <1>5 DEF Handler, Route, tables, local, admin
<1>6. CASE HandleThreadMatch
    BY <1>1, <1>6 DEF Handler, HandleThreadMatch, tables, local, admin
<1>7. CASE GetOrCreateReporter
    BY <1>1, <1>7 DEF Handler, GetOrCreateReporter, tables, local, admin
<1>8. CASE LinkSubjects
    BY <1>1, <1>8 DEF Handler, LinkSubjects, tables, local, admin, Named
<1>9. CASE CheckTrust
    BY <1>1, <1>9 DEF Handler, CheckTrust, tables, local, admin, Trusted
<1>10. CASE ResolveRead
    BY <1>1, <1>10 DEF Handler, ResolveRead, tables, local, admin
<1>11. CASE BlockLookup
    BY <1>1, <1>11 DEF Handler, BlockLookup, tables, local, admin
<1>12. CASE BlockInsert
    BY <1>1, <1>12 DEF Handler, BlockInsert, tables, local, admin
<1>13. CASE AddCommunication
    BY <1>1, <1>13 DEF Handler, AddCommunication, tables, local, admin
<1>14. CASE MarkProcessed
    BY <1>1, <1>14 DEF Handler, MarkProcessed, tables, local, admin
<1>15. CASE Crash
    BY <1>1, <1>15 DEF Handler, Crash, tables, local, admin
<1>16. CASE CreateCase
    BY <1>16, CreateCaseTypes
<1>17. CASE ResolveSave
    BY <1>17, ResolveSaveTypes
<1>18. ASSUME NEW r \in Reporters, NEW h \in Hashes, SubmitReport(r, h) PROVE TypeInv'
    BY <1>18, OpenCaseTypes DEF SubmitReport
<1>19. ASSUME NEW r \in reporters, NEW h \in subjects, NEW n \in BOOLEAN, CreateCaseByAdmin(r, h, n)
      PROVE  TypeInv'
  <2>1. reporters' = reporters \cup {r} /\ subjects' = subjects \cup {h} /\ OpenCase(h, r, n)
      BY <1>19 DEF CreateCaseByAdmin
  <2>2. r \in Reporters /\ h \in Hashes
      BY <1>19
  <2> QED BY <2>1, <2>2, OpenCaseTypes
<1>20. ASSUME NEW i \in DOMAIN cases, AdminRead(i) PROVE TypeInv'
    BY <1>20, SMTT(40) DEF AdminRead, tables, local, Spend, Events
<1>21. ASSUME NEW e \in edits, NEW s \in Statuses, NEW n \in BOOLEAN, NEW r \in reporters,
             NEW h \in subjects, AdminSave(e, s, n, r, h)
      PROVE  TypeInv'
    BY <1>21, AdminSaveTypes
<1>22. ASSUME NEW h \in Hashes, AdminBlock(h) \/ Unblock(h) PROVE TypeInv'
  <2>1. CASE AdminBlock(h)
    BY <2>1 DEF AdminBlock, local, admin, Spend, Events
  <2>2. CASE Unblock(h)
    BY <2>2, SMTT(40) DEF Unblock, local, admin, Spend, Events
  <2> QED BY <1>22, <2>1, <2>2
<1>23. CASE UNCHANGED vars
    BY <1>23 DEF vars, tables, local, admin, history
<1> QED BY <1>2, <1>3, <1>4, <1>5, <1>6, <1>7, <1>8, <1>9, <1>10, <1>11, <1>12, <1>13, <1>14, <1>15, <1>16, <1>17, <1>18, <1>19, <1>20, <1>21, <1>22, <1>23 DEF Next, Handler, Others, Idle

\* The model's variables keep their types, and the rows of abuse_cases, abuse_communications and
\* abuse_blocklist never refer to a row that does not exist, at whatever step the handler fails.
THEOREM TypeCorrect == Spec => []TypeOK
<1>1. TypeInv => TypeOK
    BY DEF TypeInv
<1> QED BY <1>1, InitTypes, StepTypes, PTL DEF Spec

-----------------------------------------------------------------------------
(* Trust. *)

\* The case's reporter is the sender of its mail, or was put there by an administrator.
Kept(c) == c.mail \in Mails => c.reporter \in vouched \cup {From[c.mail]}

\* Why trust never grows by automation alone.  TrustIsVouched is not inductive: the handler
\* settles a case on the strength of an earlier look at the trust of its sender, and saves a row
\* that an administrator may have given to another reporter; so do open requests.
Vouching ==
    /\ TrustIsVouched
    /\ \A i \in DOMAIN cases : Kept(cases[i])
    /\ \A e \in edits : Kept(e.was) /\ e.was.mail = cases[e.id].mail
    /\ pc # "idle" /\ trusted => From[mail] \in vouched
    /\ pc \in {"read", "save", "lookup", "block"} => trusted /\ cases[cur].mail = mail
    /\ pc = "save" => Kept(row) /\ row.mail = mail

\* The loop works on subjects that the mail names, so the blocks it writes name them too.
Grounds ==
    /\ BlocksHaveGrounds
    /\ pc # "idle" => todo \subseteq Named(mail)
    /\ pc \in {"read", "save", "lookup", "block"} => subject \in Named(mail)

TrustInv == TypeInv /\ Vouching /\ Grounds

LEMMA InitTrust == Init => TrustInv
<1> SUFFICES ASSUME Init PROVE TrustInv
    OBVIOUS
<1>1. TypeInv /\ DOMAIN cases = {}
    BY InitTypes DEF Init
<1> QED BY <1>1 DEF Init, TrustInv, Vouching, TrustIsVouched, Grounds, BlocksHaveGrounds

LEMMA StepTrust == TrustInv /\ [Next]_vars => TrustInv'
<1> SUFFICES ASSUME TrustInv, [Next]_vars PROVE (Vouching /\ Grounds)'
    BY StepTypes DEF TrustInv
<1>0. TypeInv /\ TypeInv'
    BY StepTypes DEF TrustInv
<1> USE DEF TrustInv, Vouching, Grounds, TrustIsVouched, BlocksHaveGrounds, Kept, Goto
<1>1. ASSUME NEW m \in Mails, Deliver(m) PROVE (Vouching /\ Grounds)'
    BY <1>0, <1>1 DEF TypeInv, TypeOK, Deliver, tables, admin
<1>2. CASE Reject
    BY <1>0, <1>2 DEF TypeInv, TypeOK, Control, Reject, tables, local, admin
<1>3. CASE CheckProcessed
    BY <1>0, <1>3 DEF TypeInv, TypeOK, Control, CheckProcessed, tables, local, admin
<1>4. CASE Route
    BY <1>0, <1>4 DEF TypeInv, TypeOK, Control, Route, tables, local, admin
<1>5. CASE HandleThreadMatch
    BY <1>0, <1>5 DEF TypeInv, TypeOK, Control, HandleThreadMatch, tables, local, admin
<1>6. CASE GetOrCreateReporter
    BY <1>0, <1>6 DEF TypeInv, TypeOK, Control, GetOrCreateReporter, tables, local, admin
<1>7. CASE LinkSubjects
    BY <1>0, <1>7, SMTT(40) DEF TypeInv, TypeOK, Control, LinkSubjects, tables, local, admin, Named
<1>8. CASE CheckTrust
    BY <1>0, <1>8 DEF TypeInv, TypeOK, Control, CheckTrust, tables, local, admin, Trusted
<1>9. CASE ResolveRead
    BY <1>0, <1>9 DEF TypeInv, TypeOK, Control, ResolveRead, tables, local, admin
<1>10. CASE BlockLookup
    BY <1>0, <1>10 DEF TypeInv, TypeOK, Control, BlockLookup, tables, local, admin
<1>11. CASE BlockInsert
    BY <1>0, <1>11 DEF TypeInv, TypeOK, Control, BlockInsert, tables, local, admin
<1>12. CASE AddCommunication
    BY <1>0, <1>12 DEF TypeInv, TypeOK, Control, AddCommunication, tables, local, admin
<1>13. CASE MarkProcessed
    BY <1>0, <1>13 DEF TypeInv, TypeOK, Control, MarkProcessed, tables, local, admin
<1>14. CASE Crash
    BY <1>0, <1>14 DEF TypeInv, TypeOK, Control, Crash, tables, local, admin
<1>15. CASE CreateCase
  <2>1. mail \in Mails /\ subject' \in todo /\ todo' = todo \ {subject'}
      BY <1>0, <1>15, CreateCaseShape
  <2>2. CASE UNCHANGED <<cases, cur>> /\ pc' = "mark"
      BY <1>0, <1>15, <2>1, <2>2 DEF TypeInv, TypeOK, CreateCase, admin
  <2>3. ASSUME NEW c \in CaseRow, Inserted(c), c.mail = mail, c.reporter = From[mail], c.status = "new",
               cur' = Len(cases) + 1, (pc' = "read" /\ trusted) \/ pc' = "comm"
        PROVE  (Vouching /\ Grounds)'
      BY <1>0, <1>15, <2>1, <2>3 DEF TypeInv, TypeOK, CreateCase, Inserted, Settled, admin
  <2> QED BY <1>0, <1>15, <2>2, <2>3, CreateCaseShape
<1>16. CASE ResolveSave
  <2>1. CASE UNCHANGED cases /\ pc' = "comm"
      BY <1>0, <1>16, <2>1 DEF TypeInv, TypeOK, ResolveSave, local, admin
  <2>2. ASSUME NEW c \in CaseRow, Saved(cur, c), c.mail = row.mail, c.reporter = row.reporter,
               pc' = "lookup"
        PROVE  (Vouching /\ Grounds)'
    <3>1. c.mail = mail /\ cases[cur].mail = mail /\ mail \in Mails /\ trusted
        BY <1>0, <1>16, <2>2 DEF TypeInv, TypeOK, ResolveSave
    <3>2. c.reporter \in vouched /\ From[mail] \in vouched
        BY <1>16, <2>2, <3>1 DEF ResolveSave
    <3>3. DOMAIN cases' = DOMAIN cases /\ \A i \in DOMAIN cases : cases'[i].mail = cases[i].mail
        BY <2>2, <3>1 DEF Saved
    <3>4. Vouching'
        BY <1>0, <1>16, <2>2, <3>1, <3>2, <3>3 DEF TypeInv, TypeOK, ResolveSave, Saved, local, admin
    <3>5. Grounds'
        BY <1>0, <1>16, <2>2, <3>1, <3>3 DEF TypeInv, TypeOK, ResolveSave, local, admin
    <3> QED BY <3>4, <3>5
  <2> QED BY <1>0, <1>16, <2>1, <2>2, ResolveSaveShape
<1>17. ASSUME NEW c \in CaseRow, Inserted(c), c.mail = None, c.status = "new",
              UNCHANGED <<blocks, pc, local, admin>>
       PROVE  (Vouching /\ Grounds)'
    BY <1>0, <1>17, IntakeAssumption DEF TypeInv, TypeOK, Control, Inserted, Settled, local, admin
<1>18. ASSUME NEW i \in DOMAIN cases, AdminRead(i) PROVE (Vouching /\ Grounds)'
    BY <1>0, <1>18 DEF TypeInv, TypeOK, AdminRead, tables, local
<1>19. ASSUME NEW e \in edits, NEW s \in Statuses, NEW n \in BOOLEAN, NEW r \in reporters,
             NEW h \in subjects, AdminSave(e, s, n, r, h)
      PROVE  (Vouching /\ Grounds)'
  <2>1. PICK c \in CaseRow :
          /\ Saved(e.id, c) /\ c.mail = e.was.mail /\ c.reporter = r /\ c.status = s
      BY <1>0, <1>19, AdminSaveShape
  <2> QED BY <1>0, <1>19, <2>1 DEF TypeInv, TypeOK, Control, AdminSave, Saved, local
<1>20. ASSUME NEW h \in Hashes, AdminBlock(h) \/ Unblock(h) PROVE (Vouching /\ Grounds)'
    BY <1>0, <1>20 DEF TypeInv, TypeOK, AdminBlock, Unblock, local, admin
<1>21. CASE UNCHANGED vars
    BY <1>0, <1>21 DEF vars, tables, local, admin
<1>22. ASSUME NEW r \in Reporters, NEW h \in Hashes, SubmitReport(r, h) PROVE (Vouching /\ Grounds)'
  <2>1. PICK c \in CaseRow : Inserted(c) /\ c.mail = None /\ c.status = "new"
      BY <1>0, <1>22, OpenCaseShape DEF SubmitReport
  <2> QED BY <1>17, <1>22, <2>1 DEF SubmitReport, OpenCase
<1>23. ASSUME NEW r \in reporters, NEW h \in subjects, NEW n \in BOOLEAN, CreateCaseByAdmin(r, h, n)
       PROVE  (Vouching /\ Grounds)'
  <2>1. r \in Reporters /\ h \in Hashes
      BY <1>0 DEF TypeInv, TypeOK
  <2>2. PICK c \in CaseRow : Inserted(c) /\ c.mail = None /\ c.status = "new"
      BY <1>0, <1>23, <2>1, OpenCaseShape DEF CreateCaseByAdmin
  <2> QED BY <1>17, <1>23, <2>2 DEF CreateCaseByAdmin, OpenCase
<1> QED BY <1>1, <1>2, <1>3, <1>4, <1>5, <1>6, <1>7, <1>8, <1>9, <1>10, <1>11, <1>12, <1>13, <1>14, <1>15, <1>16, <1>18, <1>19, <1>20, <1>21, <1>22, <1>23
           DEF Next, Handler, Others, Idle

\* No reporter becomes trusted by automation alone: whoever has a settled case was given one by
\* an administrator.
THEOREM TrustCorrect == Spec => []TrustIsVouched
<1>1. TrustInv => TrustIsVouched
    BY DEF TrustInv, Vouching
<1> QED BY <1>1, InitTrust, StepTrust, PTL DEF Spec

\* Every block that the handler writes names a hash its mail reported, on the word of a reporter
\* that an administrator vouched for.
THEOREM GroundsCorrect == Spec => []BlocksHaveGrounds
<1>1. TrustInv => BlocksHaveGrounds
    BY DEF TrustInv, Grounds
<1> QED BY <1>1, InitTrust, StepTrust, PTL DEF Spec

-----------------------------------------------------------------------------
(* One case per mail and hash. *)

\* The duplicate check or its record failed for mail m, or the process stopped while handling it.
Excused(m) == FaultsOf(m) \cap {"check", "mark", "crash"} # {}

\* No case came from mail m.
Unopened(m) == \A i \in DOMAIN cases : cases[i].mail # m

\* Why one mail never opens two cases for a hash: until its record is written a mail has only the
\* cases of the loop under way, and the loop never returns to a hash it has done.
OnceFor(m) ==
    /\ m \notin processed /\ (pc = "idle" \/ mail # m \/ pc = "check") => Unopened(m)
    /\ mail = m /\ pc \in {"route", "thread", "reporter", "subjects", "trust"} => Unopened(m)
    /\ mail = m /\ pc \in {"create", "read", "save", "lookup", "block", "comm"} =>
          \A i \in DOMAIN cases \ edited : cases[i].mail = m => cases[i].hash \notin todo

Once == \A m \in Mails : Excused(m) \/ OnceFor(m)

\* The handler saves the hash that is stored, unless an administrator replaced it meanwhile.
Unchanged == pc = "save" => cur \in edited \/ row.hash = cases[cur].hash

OnceInv == TrustInv /\ AtMostOneCase /\ Once /\ Unchanged

\* A mail stays excused, and is excused by the failures named above.
LEMMA ExcusedGrows ==
    ASSUME NEW m \in Mails, faults \subseteq faults',
           Excused(m) \/ \E s \in {"check", "mark", "crash"} : <<m, s>> \in faults'
    PROVE  Excused(m)'
<1>1. ASSUME NEW s \in {"check", "mark", "crash"}, <<m, s>> \in faults' PROVE Excused(m)'
  <2>1. <<m, s>> \in {g \in faults' : g[1] = m}
      BY <1>1
  <2>2. s \in {f[2] : f \in {g \in faults' : g[1] = m}}
      BY <2>1
  <2> QED BY <2>2 DEF Excused, FaultsOf
<1>2. CASE Excused(m)
    BY <1>2 DEF Excused, FaultsOf
<1> QED BY <1>1, <1>2

LEMMA InitOnce == Init => OnceInv
<1> SUFFICES ASSUME Init PROVE OnceInv
    OBVIOUS
<1>1. TrustInv /\ DOMAIN cases = {} /\ pc = "idle"
    BY InitTrust DEF Init
<1> QED BY <1>1 DEF OnceInv, Once, OnceFor, Unopened, Unchanged, AtMostOneCase

\* Failures are recorded and never forgotten.
LEMMA FaultsGrow == [Next]_vars => faults \subseteq faults'
    BY DEF Next, Handler, Others, Idle, Deliver, Reject, CheckProcessed, Route, HandleThreadMatch,
           GetOrCreateReporter, LinkSubjects, CheckTrust, CreateCase, ResolveRead, ResolveSave, BlockLookup,
           BlockInsert, AddCommunication, MarkProcessed, Crash, SubmitReport, CreateCaseByAdmin, OpenCase,
           AdminRead, AdminSave, AdminBlock, Unblock, Fault, Sound, history, vars

\* Without a new row and with no row given another hash, no two cases become equal.
LEMMA KeepOne ==
    ASSUME OnceInv, faults \subseteq faults', DOMAIN cases' = DOMAIN cases, edited \subseteq edited',
           \A i \in DOMAIN cases : cases'[i].mail = cases[i].mail,
           \A i \in DOMAIN cases \ edited' : cases'[i].hash = cases[i].hash
    PROVE  AtMostOneCase'
<1> SUFFICES ASSUME NEW i \in DOMAIN cases, NEW j \in DOMAIN cases, i # j,
                    cases'[i].mail \in Mails, cases'[i].mail = cases'[j].mail,
                    i \notin edited', j \notin edited', cases'[i].hash = cases'[j].hash
             PROVE  Excused(cases[i].mail)'
    BY DEF AtMostOneCase, Excused
<1>1. Excused(cases[i].mail)
    BY DEF OnceInv, AtMostOneCase, Excused
<1> QED BY <1>1, ExcusedGrows

LEMMA StepOnceFor ==
    ASSUME OnceInv, [Next]_vars, TypeInv', NEW m \in Mails, ~ Excused(m)'
    PROVE  OnceFor(m)'
<1>0. TypeInv /\ TypeInv' /\ Vouching /\ faults \subseteq faults'
    BY FaultsGrow DEF OnceInv, TrustInv
<1>1. OnceFor(m)
  <2>1. ~ Excused(m)
      BY <1>0, ExcusedGrows
  <2> QED BY <2>1 DEF OnceInv, Once
<1>2. <<m, "check">> \notin faults' /\ <<m, "mark">> \notin faults' /\ <<m, "crash">> \notin faults'
    BY <1>0, ExcusedGrows
<1> USE DEF OnceFor, Unopened, Goto
<1>3. ASSUME NEW n \in Mails, Deliver(n) PROVE OnceFor(m)'
    BY <1>0, <1>1, <1>3 DEF TypeInv, TypeOK, Deliver, tables, admin
<1>4. CASE Reject
    BY <1>1, <1>2, <1>4 DEF Reject, tables, local, admin
<1>5. CASE CheckProcessed
    BY <1>1, <1>2, <1>5 DEF CheckProcessed, tables, local, admin, Fault
<1>6. CASE Route
    BY <1>1, <1>2, <1>6 DEF Route, tables, local, admin
<1>7. CASE HandleThreadMatch
    BY <1>1, <1>2, <1>7 DEF HandleThreadMatch, tables, local, admin
<1>8. CASE GetOrCreateReporter
    BY <1>1, <1>2, <1>8 DEF GetOrCreateReporter, tables, local, admin
<1>9. CASE LinkSubjects
    BY <1>1, <1>2, <1>9 DEF LinkSubjects, tables, local, admin
<1>10. CASE CheckTrust
    BY <1>1, <1>2, <1>10 DEF CheckTrust, tables, local, admin
<1>11. CASE ResolveRead
    BY <1>1, <1>2, <1>11 DEF ResolveRead, tables, local, admin
<1>12. CASE BlockLookup
    BY <1>1, <1>2, <1>12 DEF BlockLookup, tables, local, admin
<1>13. CASE BlockInsert
    BY <1>1, <1>2, <1>13 DEF BlockInsert, tables, local, admin
<1>14. CASE AddCommunication
    BY <1>1, <1>2, <1>14 DEF AddCommunication, tables, local, admin
<1>15. CASE MarkProcessed
    BY <1>1, <1>2, <1>15 DEF MarkProcessed, tables, local, admin, Fault
<1>16. CASE Crash
    BY <1>1, <1>2, <1>16 DEF Crash, tables, local, admin, Fault
<1>17. CASE CreateCase
  <2>1. mail \in Mails /\ subject' \in todo /\ todo' = todo \ {subject'}
      BY <1>0, <1>17, CreateCaseShape
  <2>2. CASE UNCHANGED <<cases, cur>> /\ pc' = "mark"
      BY <1>1, <1>17, <2>1, <2>2 DEF CreateCase, admin
  <2>3. ASSUME NEW c \in CaseRow, Inserted(c), c.mail = mail, c.hash = subject',
               pc' \in {"read", "comm"}
        PROVE  OnceFor(m)'
      BY <1>1, <1>17, <2>1, <2>3 DEF CreateCase, Inserted, admin
  <2> QED BY <1>0, <1>17, <2>2, <2>3, CreateCaseShape
<1>18. CASE ResolveSave
  <2>1. CASE UNCHANGED cases /\ pc' = "comm"
      BY <1>1, <1>18, <2>1 DEF ResolveSave, local, admin
  <2>2. ASSUME NEW c \in CaseRow, Saved(cur, c), c.mail = row.mail, c.hash = row.hash, pc' = "lookup"
        PROVE  OnceFor(m)'
    <3>1. c.mail = cases[cur].mail /\ (cur \in edited \/ c.hash = cases[cur].hash)
        BY <1>0, <1>18, <2>2 DEF ResolveSave, OnceInv, Unchanged, Vouching
    <3> QED BY <1>1, <1>18, <2>2, <3>1 DEF ResolveSave, Saved, local, admin
  <2> QED BY <1>0, <1>18, <2>1, <2>2, ResolveSaveShape
<1>19. ASSUME NEW c \in CaseRow, Inserted(c), c.mail = None, UNCHANGED <<processed, pc, local, admin>>
       PROVE  OnceFor(m)'
    BY <1>1, <1>19, IntakeAssumption DEF Inserted, local, admin
<1>20. ASSUME NEW r \in Reporters, NEW h \in Hashes, SubmitReport(r, h) PROVE OnceFor(m)'
  <2>1. PICK c \in CaseRow : Inserted(c) /\ c.mail = None
      BY <1>0, <1>20, OpenCaseShape DEF SubmitReport
  <2> QED BY <1>19, <1>20, <2>1 DEF SubmitReport, OpenCase
<1>21. ASSUME NEW r \in reporters, NEW h \in subjects, NEW n \in BOOLEAN, CreateCaseByAdmin(r, h, n)
       PROVE  OnceFor(m)'
  <2>1. r \in Reporters /\ h \in Hashes
      BY <1>0 DEF TypeInv, TypeOK
  <2>2. PICK c \in CaseRow : Inserted(c) /\ c.mail = None
      BY <1>0, <1>21, <2>1, OpenCaseShape DEF CreateCaseByAdmin
  <2> QED BY <1>19, <1>21, <2>2 DEF CreateCaseByAdmin, OpenCase
<1>22. ASSUME NEW i \in DOMAIN cases, AdminRead(i) PROVE OnceFor(m)'
    BY <1>1, <1>22 DEF AdminRead, tables, local
<1>23. ASSUME NEW e \in edits, NEW s \in Statuses, NEW n \in BOOLEAN, NEW r \in reporters,
              NEW h \in subjects, AdminSave(e, s, n, r, h)
       PROVE  OnceFor(m)'
  <2>1. PICK c \in CaseRow : Saved(e.id, c) /\ c.mail = e.was.mail
      BY <1>0, <1>23, AdminSaveShape
  <2>2. c.mail = cases[e.id].mail
      BY <1>0, <1>23, <2>1 DEF Vouching
  <2>3. /\ DOMAIN cases' = DOMAIN cases /\ edited' = edited \cup {e.id}
        /\ \A i \in DOMAIN cases : cases'[i].mail = cases[i].mail
        /\ \A i \in DOMAIN cases \ edited' : cases'[i].hash = cases[i].hash
        /\ UNCHANGED <<processed, pc, local>>
      BY <1>23, <2>1, <2>2 DEF AdminSave, Saved
  <2> QED BY <1>1, <2>3 DEF local
<1>24. ASSUME NEW h \in Hashes, AdminBlock(h) \/ Unblock(h) PROVE OnceFor(m)'
    BY <1>1, <1>24 DEF AdminBlock, Unblock, local, admin
<1>25. CASE UNCHANGED vars
    BY <1>1, <1>25 DEF vars, tables, local, admin
<1> QED BY <1>3, <1>4, <1>5, <1>6, <1>7, <1>8, <1>9, <1>10, <1>11, <1>12, <1>13, <1>14, <1>15, <1>16, <1>17, <1>18, <1>20, <1>21, <1>22, <1>23, <1>24, <1>25
           DEF Next, Handler, Others, Idle

\* A row that is inserted differs from those of its mail in its hash, so no two cases become equal.
LEMMA InsertOne ==
    ASSUME OnceInv, TypeInv', faults \subseteq faults', edited' = edited,
           NEW c \in CaseRow, Inserted(c),
           c.mail \in Mails => \/ Excused(c.mail)'
                              \/ \A i \in DOMAIN cases \ edited : cases[i].mail = c.mail => cases[i].hash # c.hash
    PROVE  AtMostOneCase'
<1> DEFINE k == Len(cases) + 1
<1>1. /\ DOMAIN cases' = DOMAIN cases \cup {k} /\ cases'[k] = c
      /\ \A i \in DOMAIN cases : cases'[i] = cases[i]
    BY DEF Inserted
<1> HIDE DEF k
<1> SUFFICES ASSUME NEW i \in DOMAIN cases', NEW j \in DOMAIN cases', i # j,
                    cases'[i].mail \in Mails, cases'[i].mail = cases'[j].mail,
                    i \notin edited', j \notin edited', cases'[i].hash = cases'[j].hash
             PROVE  Excused(cases[i].mail)'
    BY DEF AtMostOneCase, Excused
<1>2. CASE i = k \/ j = k
  <2>1. cases'[i].mail = c.mail
      BY <1>1, <1>2
  <2>2. Excused(c.mail)'
      BY <1>1, <1>2
  <2> QED BY <2>1, <2>2 DEF Excused, FaultsOf
<1>3. CASE i # k /\ j # k
  <2>1. Excused(cases[i].mail) /\ cases[i].mail \in Mails
      BY <1>1, <1>3 DEF OnceInv, AtMostOneCase, Excused
  <2>2. Excused(cases'[i].mail)
      BY <1>1, <1>3, <2>1 DEF Excused, FaultsOf
  <2> QED BY <1>1, <1>3, <2>1, ExcusedGrows DEF Excused, FaultsOf
<1> QED BY <1>2, <1>3

LEMMA StepOne ==
    ASSUME OnceInv, [Next]_vars, TypeInv'
    PROVE  AtMostOneCase'
<1>0. TypeInv /\ TypeInv' /\ Vouching /\ faults \subseteq faults'
    BY FaultsGrow DEF OnceInv, TrustInv
<1>1. ASSUME UNCHANGED <<cases, edited>> PROVE AtMostOneCase'
    BY <1>0, <1>1, KeepOne
<1>2. CASE CreateCase
  <2>1. edited' = edited /\ pc = "create"
      BY <1>2 DEF CreateCase, admin
  <2>2. CASE UNCHANGED cases
      BY <1>1, <2>1, <2>2
  <2>3. ASSUME NEW c \in CaseRow, Inserted(c), c.mail = mail, c.hash = subject', subject' \in todo
        PROVE  AtMostOneCase'
    <3>1. c.mail \in Mails => Excused(c.mail) \/ OnceFor(c.mail)
        BY DEF OnceInv, Once
    <3>2. (c.mail \in Mails /\ Excused(c.mail)) => Excused(c.mail)'
        BY <1>0, ExcusedGrows
    <3> QED BY <1>0, <2>1, <2>3, <3>1, <3>2, InsertOne DEF OnceFor
  <2> QED BY <1>0, <1>2, <2>2, <2>3, CreateCaseShape
<1>3. CASE ResolveSave
  <2>1. edited' = edited
      BY <1>3 DEF ResolveSave, admin
  <2>2. CASE UNCHANGED cases
      BY <1>1, <2>1, <2>2
  <2>3. ASSUME NEW c \in CaseRow, Saved(cur, c), c.mail = row.mail, c.hash = row.hash
        PROVE  AtMostOneCase'
    <3>1. c.mail = cases[cur].mail /\ (cur \in edited \/ c.hash = cases[cur].hash)
        BY <1>0, <1>3, <2>3 DEF ResolveSave, OnceInv, Unchanged, Vouching
    <3> QED BY <1>0, <2>1, <2>3, <3>1, KeepOne DEF Saved
  <2> QED BY <1>0, <1>3, <2>2, <2>3, ResolveSaveShape
<1>4. ASSUME NEW c \in CaseRow, Inserted(c), c.mail = None, UNCHANGED admin PROVE AtMostOneCase'
    BY <1>0, <1>4, IntakeAssumption, InsertOne DEF admin
<1>5. ASSUME NEW r \in Reporters, NEW h \in Hashes, SubmitReport(r, h) PROVE AtMostOneCase'
  <2>1. PICK c \in CaseRow : Inserted(c) /\ c.mail = None
      BY <1>0, <1>5, OpenCaseShape DEF SubmitReport
  <2> QED BY <1>4, <1>5, <2>1 DEF SubmitReport, OpenCase
<1>6. ASSUME NEW r \in reporters, NEW h \in subjects, NEW n \in BOOLEAN, CreateCaseByAdmin(r, h, n)
      PROVE  AtMostOneCase'
  <2>1. r \in Reporters /\ h \in Hashes
      BY <1>0 DEF TypeInv, TypeOK
  <2>2. PICK c \in CaseRow : Inserted(c) /\ c.mail = None
      BY <1>0, <1>6, <2>1, OpenCaseShape DEF CreateCaseByAdmin
  <2> QED BY <1>4, <1>6, <2>2 DEF CreateCaseByAdmin, OpenCase
<1>7. ASSUME NEW e \in edits, NEW s \in Statuses, NEW n \in BOOLEAN, NEW r \in reporters,
             NEW h \in subjects, AdminSave(e, s, n, r, h)
      PROVE  AtMostOneCase'
  <2>1. PICK c \in CaseRow : Saved(e.id, c) /\ c.mail = e.was.mail
      BY <1>0, <1>7, AdminSaveShape
  <2>2. c.mail = cases[e.id].mail
      BY <1>0, <1>7, <2>1 DEF Vouching
  <2>3. /\ DOMAIN cases' = DOMAIN cases /\ edited' = edited \cup {e.id}
        /\ \A i \in DOMAIN cases : cases'[i].mail = cases[i].mail
        /\ \A i \in DOMAIN cases \ edited' : cases'[i].hash = cases[i].hash
      BY <1>7, <2>1, <2>2 DEF AdminSave, Saved
  <2> QED BY <1>0, <2>3, KeepOne
<1>8. CASE UNCHANGED <<cases, edited>>
    BY <1>1, <1>8
<1>9. \/ UNCHANGED <<cases, edited>> \/ CreateCase \/ ResolveSave
      \/ \E r \in Reporters, h \in Hashes : SubmitReport(r, h)
      \/ \E r \in reporters, h \in subjects, n \in BOOLEAN : CreateCaseByAdmin(r, h, n)
      \/ \E e \in edits, s \in Statuses, n \in BOOLEAN, r \in reporters, h \in subjects :
            AdminSave(e, s, n, r, h)
    BY DEF Next, Handler, Others, Idle, Deliver, Reject, CheckProcessed, Route, HandleThreadMatch,
           GetOrCreateReporter, LinkSubjects, CheckTrust, ResolveRead, BlockLookup, BlockInsert,
           AddCommunication, MarkProcessed, Crash, AdminRead, AdminBlock, Unblock, vars, tables, admin
<1> QED BY <1>2, <1>3, <1>5, <1>6, <1>7, <1>8, <1>9

\* Between the read and the save of UpdateStatus only an administrator writes the row.
LEMMA StepUnchanged ==
    ASSUME OnceInv, [Next]_vars, TypeInv'
    PROVE  Unchanged'
<1>0. TypeInv /\ Unchanged
    BY DEF OnceInv, TrustInv
<1>1. CASE ResolveRead
    BY <1>0, <1>1 DEF Unchanged, ResolveRead, Goto, tables
<1>2. CASE pc' # "save"
    BY <1>2 DEF Unchanged
<1>3. ASSUME pc' = pc, cur' = cur, row' = row, edited \subseteq edited', cur \in DOMAIN cases,
             cases'[cur].hash = cases[cur].hash \/ cur \in edited'
      PROVE  Unchanged'
    BY <1>0, <1>3 DEF Unchanged
<1>4. CASE pc' = "save" /\ pc = "save"
  <2>1. cur \in DOMAIN cases
      BY <1>0, <1>4 DEF TypeInv, Control
  <2>2. ASSUME NEW c \in CaseRow, Inserted(c), UNCHANGED <<pc, local, admin>> PROVE Unchanged'
      BY <1>3, <2>1, <2>2 DEF Inserted, local, admin
  <2>3. ASSUME NEW r \in Reporters, NEW h \in Hashes, SubmitReport(r, h) PROVE Unchanged'
    <3>1. PICK c \in CaseRow : Inserted(c)
        BY <1>0, <2>3, OpenCaseShape DEF SubmitReport
    <3> QED BY <2>2, <2>3, <3>1 DEF SubmitReport, OpenCase
  <2>4. ASSUME NEW r \in reporters, NEW h \in subjects, NEW n \in BOOLEAN, CreateCaseByAdmin(r, h, n)
        PROVE  Unchanged'
    <3>1. r \in Reporters /\ h \in Hashes
        BY <1>0 DEF TypeInv, TypeOK
    <3>2. PICK c \in CaseRow : Inserted(c)
        BY <1>0, <2>4, <3>1, OpenCaseShape DEF CreateCaseByAdmin
    <3> QED BY <2>2, <2>4, <3>1, <3>2 DEF CreateCaseByAdmin, OpenCase
  <2>5. ASSUME NEW e \in edits, NEW s \in Statuses, NEW n \in BOOLEAN, NEW r \in reporters,
               NEW h \in subjects, AdminSave(e, s, n, r, h)
        PROVE  Unchanged'
    <3>1. PICK c \in CaseRow : Saved(e.id, c)
        BY <1>0, <2>5, AdminSaveShape
    <3> QED BY <1>3, <2>1, <2>5, <3>1 DEF AdminSave, Saved, local
  <2>6. ASSUME NEW i \in DOMAIN cases, AdminRead(i) PROVE Unchanged'
      BY <1>3, <2>1, <2>6 DEF AdminRead, tables, local
  <2>7. ASSUME NEW h \in Hashes, AdminBlock(h) \/ Unblock(h) PROVE Unchanged'
      BY <1>3, <2>1, <2>7 DEF AdminBlock, Unblock, local, admin
  <2>8. CASE UNCHANGED vars
      BY <1>3, <2>1, <2>8 DEF vars, tables, local, admin
  <2>9. ~ Handler /\ ~ Crash /\ ~ \E m \in Mails : Deliver(m)
      BY <1>4 DEF Handler, Deliver, Reject, CheckProcessed, Route, HandleThreadMatch, GetOrCreateReporter,
         LinkSubjects, CheckTrust, CreateCase, ResolveRead, ResolveSave, BlockLookup, BlockInsert,
         AddCommunication, MarkProcessed, Crash, Goto
  <2> QED BY <2>3, <2>4, <2>5, <2>6, <2>7, <2>8, <2>9 DEF Next, Others, Idle
<1>5. CASE pc' = "save" /\ pc # "save"
  <2>1. ResolveRead
      BY <1>5 DEF Next, Handler, Others, Idle, Deliver, Reject, CheckProcessed, Route, HandleThreadMatch,
         GetOrCreateReporter, LinkSubjects, CheckTrust, CreateCase, ResolveSave, BlockLookup, BlockInsert,
         AddCommunication, MarkProcessed, Crash, SubmitReport, CreateCaseByAdmin, OpenCase, AdminRead,
         AdminSave, AdminBlock, Unblock, Goto, vars
  <2> QED BY <1>1, <2>1
<1> QED BY <1>2, <1>4, <1>5

LEMMA StepOnce == OnceInv /\ [Next]_vars => OnceInv'
<1> SUFFICES ASSUME OnceInv, [Next]_vars PROVE OnceInv'
    OBVIOUS
<1>1. TrustInv' /\ TypeInv'
    BY StepTrust DEF OnceInv, TrustInv
<1>2. AtMostOneCase' /\ Unchanged'
    BY <1>1, StepOne, StepUnchanged
<1>3. Once'
  <2> SUFFICES ASSUME NEW m \in Mails, ~ Excused(m)' PROVE OnceFor(m)'
      BY DEF Once
  <2> QED BY <1>1, StepOnceFor
<1> QED BY <1>1, <1>2, <1>3 DEF OnceInv

\* One mail opens at most one case per hash, however often it is delivered and whatever fails in
\* its handling -- but for the duplicate check, its record, or the process itself.
THEOREM OnceCorrect == Spec => []AtMostOneCase
<1>1. OnceInv => AtMostOneCase
    BY DEF OnceInv
<1> QED BY <1>1, InitOnce, StepOnce, PTL DEF Spec

-----------------------------------------------------------------------------
(* What is left when a mail was handled. *)

\* Hash h of mail m has its case, and the case the text of the mail.
Stored(m, h) ==
    \E c \in comms : c.mail = m /\ cases[c.case].mail = m /\ (cases[c.case].hash = h \/ c.case \in edited)

\* How far the handler has come with a report m no step of which failed: what is no longer
\* to do is stored, but for the subject the loop works on, whose case exists.
HandledFor(m) ==
    /\ m \in processed => \A h \in Named(m) : Stored(m, h)
    /\ mail = m =>
          /\ pc # "thread"
          /\ pc = "trust" => todo = Named(m)
          /\ pc = "create" => \A h \in Named(m) \ todo : Stored(m, h)
          /\ pc \in {"read", "save", "lookup", "block", "comm"} =>
                /\ \A h \in Named(m) \ (todo \cup {subject}) : Stored(m, h)
                /\ cases[cur].mail = m /\ (cases[cur].hash = subject \/ cur \in edited)
          /\ pc = "mark" => \A h \in Named(m) : Stored(m, h)

Handled == \A m \in Mails : (Kind[m] = "report" /\ FaultsOf(m) = {}) => HandledFor(m)

HandledInv == OnceInv /\ NoStrandedCase /\ Handled

\* What failed stays failed, and a step that fails is recorded.
LEMMA FailedGrows ==
    ASSUME NEW m, NEW S, faults \subseteq faults',
           FaultsOf(m) \cap S # {} \/ \E s \in S : <<m, s>> \in faults'
    PROVE  FaultsOf(m)' \cap S # {}
<1>1. ASSUME NEW s \in S, <<m, s>> \in faults' PROVE FaultsOf(m)' \cap S # {}
  <2>1. <<m, s>> \in {g \in faults' : g[1] = m}
      BY <1>1
  <2>2. s \in {f[2] : f \in {g \in faults' : g[1] = m}}
      BY <2>1
  <2> QED BY <2>2, <1>1 DEF FaultsOf
<1>2. CASE FaultsOf(m) \cap S # {}
    BY <1>2 DEF FaultsOf
<1> QED BY <1>1, <1>2

\* CreateCase asks for a review unless the sender is trusted, whose case it then resolves.
LEMMA CreateCaseReview ==
    ASSUME TypeInv, CreateCase
    PROVE  /\ edited' = edited /\ faults \subseteq faults'
           /\ \/ cases' = cases /\ pc' = "mark"
              \/ /\ DOMAIN cases' = DOMAIN cases \cup {Len(cases) + 1} /\ cur' = Len(cases) + 1
                 /\ \A i \in DOMAIN cases : cases'[i] = cases[i]
                 /\ trusted => pc' = "read"
                 /\ ~trusted => cases'[Len(cases) + 1].needsReview
<1>1. edited' = edited /\ faults \subseteq faults'
    BY DEF CreateCase, admin, Sound, Fault, history
<1>2. mail \in Mails /\ From[mail] \in Reporters /\ todo \subseteq Hashes /\ trusted \in BOOLEAN /\ subject' \in todo
    BY IntakeAssumption DEF TypeInv, TypeOK, CreateCase
<1>3. CASE cases' = cases /\ Goto("mark")
    BY <1>1, <1>3 DEF Goto
<1>4. CASE ~(cases' = cases /\ Goto("mark"))
  <2> DEFINE c == [mail |-> mail, hash |-> subject', reporter |-> From[mail],
                   needsReview |-> ~trusted, status |-> "new"]
  <2>1. cases' = Append(cases, c) /\ cur' = Len(cases) + 1 /\ (trusted => pc' = "read")
      BY <1>4 DEF CreateCase, Goto
  <2>2. c \in CaseRow /\ (~trusted => c.needsReview)
      BY <1>2 DEF CaseRow, Statuses
  <2> HIDE DEF c
  <2> QED BY <1>1, <2>1, <2>2, AppendRow DEF TypeInv, TypeOK
<1> QED BY <1>1, <1>3, <1>4

\* A row that the step leaves alone stays accounted for.
LEMMA KeepStranded ==
    ASSUME NoStrandedCase, faults \subseteq faults', edited \subseteq edited',
           NEW i \in DOMAIN cases, cases'[i] = cases[i],
           cases[i].status = "new" /\ cur = i /\ pc \in {"read", "save"} =>
               \/ cur' = i /\ pc' \in {"read", "save"}
               \/ \E s \in {"resolve", "crash"} : <<cases[i].mail, s>> \in faults',
           cases'[i].mail \in Mails, ~cases'[i].needsReview, cases'[i].status = "new"
    PROVE  \/ i \in edited'
           \/ cur' = i /\ pc' \in {"read", "save"}
           \/ FaultsOf(cases[i].mail)' \cap {"resolve", "crash"} # {}
<1>1. PICK m : m = cases[i].mail
    OBVIOUS
<1>2. \/ i \in edited
      \/ cur = i /\ pc \in {"read", "save"}
      \/ FaultsOf(m) \cap {"resolve", "crash"} # {}
    BY <1>1 DEF NoStrandedCase
<1>3. (FaultsOf(m) \cap {"resolve", "crash"} # {} \/ \E s \in {"resolve", "crash"} : <<m, s>> \in faults')
         => FaultsOf(m)' \cap {"resolve", "crash"} # {}
    BY FailedGrows
<1>4. FaultsOf(m)' = FaultsOf(cases[i].mail)'
    BY <1>1 DEF FaultsOf
<1> QED BY <1>1, <1>2, <1>3, <1>4

LEMMA StepStranded ==
    ASSUME OnceInv, NoStrandedCase, [Next]_vars, TypeInv'
    PROVE  NoStrandedCase'
<1>0. TypeInv /\ Vouching /\ faults \subseteq faults'
    BY FaultsGrow DEF OnceInv, TrustInv
<1> SUFFICES ASSUME NEW i \in DOMAIN cases',
                    cases'[i].mail \in Mails, ~cases'[i].needsReview, cases'[i].status = "new"
             PROVE  \/ i \in edited'
                    \/ cur' = i /\ pc' \in {"read", "save"}
                    \/ FaultsOf(cases[i].mail)' \cap {"resolve", "crash"} # {}
    BY DEF NoStrandedCase, FaultsOf
<1> DEFINE Accounted == \/ i \in edited'
                        \/ cur' = i /\ pc' \in {"read", "save"}
                        \/ FaultsOf(cases[i].mail)' \cap {"resolve", "crash"} # {}
<1>1. ASSUME i \in DOMAIN cases, cases'[i] = cases[i], edited \subseteq edited',
             (cur' = cur /\ pc' = pc) \/ pc \notin {"read", "save"}
      PROVE  Accounted
    BY <1>0, <1>1, KeepStranded
<1>2. CASE ResolveRead
  <2>1. /\ cases' = cases /\ cur' = cur /\ edited' = edited
        /\ pc' = "save" \/ cases[cur].status = "resolved" \/ <<mail, "resolve">> \in faults'
      BY <1>2 DEF ResolveRead, Goto, tables, admin, Fault
  <2>2. cases[cur].mail = mail
      BY <1>0, <1>2 DEF ResolveRead, Vouching
  <2> QED BY <1>0, <2>1, <2>2, KeepStranded
<1>3. CASE ResolveSave
  <2>1. cur' = cur /\ edited' = edited /\ pc = "save" /\ cur \in DOMAIN cases /\ cases \in Seq(CaseRow) /\ row \in CaseRow
      BY <1>0, <1>3 DEF ResolveSave, local, admin, TypeInv, TypeOK, Control
  <2>2. cases[cur].mail = mail
      BY <1>0, <1>3 DEF ResolveSave, Vouching
  <2>3. CASE cases' = cases /\ <<mail, "resolve">> \in faults'
      BY <1>0, <2>1, <2>2, <2>3, KeepStranded
  <2>4. CASE cases' = [cases EXCEPT ![cur] = [row EXCEPT !.status = "resolved"]]
    <3>1. PICK c : c = [row EXCEPT !.status = "resolved"]
        OBVIOUS
    <3>2. c.status = "resolved"
        BY <2>1, <3>1 DEF CaseRow
    <3>3. DOMAIN cases' = DOMAIN cases /\ cases'[cur] = c /\ \A j \in DOMAIN cases : j # cur => cases'[j] = cases[j]
        BY <2>1, <2>4, <3>1
    <3>4. i # cur /\ i \in DOMAIN cases /\ cases'[i] = cases[i]
        BY <3>2, <3>3
    <3> QED BY <1>0, <2>1, <3>4, KeepStranded
  <2> QED BY <1>3, <2>3, <2>4 DEF ResolveSave, Fault
<1>4. CASE Crash
  <2>1. cases' = cases /\ edited' = edited /\ <<mail, "crash">> \in faults'
      BY <1>4 DEF Crash, tables, admin, Fault
  <2>2. pc \in {"read", "save"} => cases[cur].mail = mail
      BY <1>0 DEF Vouching
  <2> QED BY <1>0, <2>1, <2>2, KeepStranded
<1>5. CASE CreateCase
  <2>1. pc = "create"
      BY <1>5 DEF CreateCase
  <2> QED BY <1>0, <1>1, <1>5, <2>1, CreateCaseReview
<1>6. ASSUME NEW c \in CaseRow, Inserted(c), c.mail = None, UNCHANGED <<pc, local, admin>>
      PROVE  Accounted
    BY <1>1, <1>6, IntakeAssumption DEF Inserted, local, admin
<1>7. ASSUME NEW r \in Reporters, NEW h \in Hashes, SubmitReport(r, h) PROVE Accounted
  <2>1. PICK c \in CaseRow : Inserted(c) /\ c.mail = None
      BY <1>0, <1>7, OpenCaseShape DEF SubmitReport
  <2> QED BY <1>6, <1>7, <2>1 DEF SubmitReport, OpenCase
<1>8. ASSUME NEW r \in reporters, NEW h \in subjects, NEW n \in BOOLEAN, CreateCaseByAdmin(r, h, n)
      PROVE  Accounted
  <2>1. r \in Reporters /\ h \in Hashes
      BY <1>0 DEF TypeInv, TypeOK
  <2>2. PICK c \in CaseRow : Inserted(c) /\ c.mail = None
      BY <1>0, <1>8, <2>1, OpenCaseShape DEF CreateCaseByAdmin
  <2> QED BY <1>6, <1>8, <2>2 DEF CreateCaseByAdmin, OpenCase
<1>9. ASSUME NEW e \in edits, NEW s \in Statuses, NEW n \in BOOLEAN, NEW r \in reporters,
             NEW h \in subjects, AdminSave(e, s, n, r, h)
      PROVE  Accounted
  <2>1. PICK c \in CaseRow : Saved(e.id, c)
      BY <1>0, <1>9, AdminSaveShape
  <2>2. edited' = edited \cup {e.id} /\ cur' = cur /\ pc' = pc
      BY <1>9 DEF AdminSave, local
  <2> QED BY <1>1, <2>1, <2>2 DEF Saved
<1>10. CASE UNCHANGED <<cases, edited>> /\ (pc \notin {"read", "save"} \/ UNCHANGED <<pc, cur>>)
    BY <1>1, <1>10
<1>11. \/ UNCHANGED <<cases, edited>> /\ (pc \notin {"read", "save"} \/ UNCHANGED <<pc, cur>>)
       \/ CreateCase \/ ResolveRead \/ ResolveSave \/ Crash
       \/ \E r \in Reporters, h \in Hashes : SubmitReport(r, h)
       \/ \E r \in reporters, h \in subjects, n \in BOOLEAN : CreateCaseByAdmin(r, h, n)
       \/ \E e \in edits, s \in Statuses, n \in BOOLEAN, r \in reporters, h \in subjects :
             AdminSave(e, s, n, r, h)
    BY DEF Next, Handler, Others, Idle, Deliver, Reject, CheckProcessed, Route, HandleThreadMatch,
           GetOrCreateReporter, LinkSubjects, CheckTrust, BlockLookup, BlockInsert,
           AddCommunication, MarkProcessed, AdminRead, AdminBlock, Unblock, vars, tables, admin, local
<1> QED BY <1>2, <1>3, <1>4, <1>5, <1>7, <1>8, <1>9, <1>10, <1>11

\* The rows of cases and communications stay, and what they say but for administrators' edits.
LEMMA RowsStay ==
    ASSUME OnceInv, [Next]_vars
    PROVE  /\ comms \subseteq comms' /\ edited \subseteq edited' /\ processed \subseteq processed'
           /\ \A i \in DOMAIN cases : /\ i \in DOMAIN cases' /\ cases'[i].mail = cases[i].mail
                                      /\ i \in edited' \/ cases'[i].hash = cases[i].hash
<1>0. TypeInv /\ Vouching
    BY DEF OnceInv, TrustInv
<1>1. comms \subseteq comms' /\ edited \subseteq edited' /\ processed \subseteq processed'
    BY DEF Next, Handler, Others, Idle, Deliver, Reject, CheckProcessed, Route, HandleThreadMatch,
           GetOrCreateReporter, LinkSubjects, CheckTrust, CreateCase, ResolveRead, ResolveSave, BlockLookup,
           BlockInsert, AddCommunication, MarkProcessed, Crash, SubmitReport, CreateCaseByAdmin, OpenCase,
           AdminRead, AdminSave, AdminBlock, Unblock, vars, tables, admin
<1> DEFINE Stays == \A i \in DOMAIN cases : /\ i \in DOMAIN cases' /\ cases'[i].mail = cases[i].mail
                                            /\ i \in edited' \/ cases'[i].hash = cases[i].hash
<1>2. ASSUME UNCHANGED cases PROVE Stays
    BY <1>2
<1>3. ASSUME CreateCase PROVE Stays
    BY <1>0, <1>3, CreateCaseReview
<1>4. ASSUME ResolveSave PROVE Stays
  <2>1. CASE UNCHANGED cases
      BY <1>2, <2>1
  <2>2. ASSUME NEW c \in CaseRow, Saved(cur, c), c.mail = row.mail, c.hash = row.hash PROVE Stays
    <3>1. c.mail = cases[cur].mail /\ (cur \in edited \/ c.hash = cases[cur].hash) /\ edited' = edited
        BY <1>0, <1>4, <2>2 DEF ResolveSave, OnceInv, Unchanged, Vouching, admin
    <3> QED BY <2>2, <3>1 DEF Saved
  <2> QED BY <1>0, <1>4, <2>1, <2>2, ResolveSaveShape
<1>5. ASSUME NEW r \in Reporters, NEW h \in Hashes, SubmitReport(r, h) PROVE Stays
  <2>1. PICK c \in CaseRow : Inserted(c)
      BY <1>0, <1>5, OpenCaseShape DEF SubmitReport
  <2> QED BY <2>1 DEF Inserted
<1>6. ASSUME NEW r \in reporters, NEW h \in subjects, NEW n \in BOOLEAN, CreateCaseByAdmin(r, h, n) PROVE Stays
  <2>1. r \in Reporters /\ h \in Hashes
      BY <1>0 DEF TypeInv, TypeOK
  <2>2. PICK c \in CaseRow : Inserted(c)
      BY <1>0, <1>6, <2>1, OpenCaseShape DEF CreateCaseByAdmin
  <2> QED BY <2>2 DEF Inserted
<1>7. ASSUME NEW e \in edits, NEW s \in Statuses, NEW n \in BOOLEAN, NEW r \in reporters,
             NEW h \in subjects, AdminSave(e, s, n, r, h)
      PROVE  Stays
  <2>1. PICK c \in CaseRow : Saved(e.id, c) /\ c.mail = e.was.mail
      BY <1>0, <1>7, AdminSaveShape
  <2>2. c.mail = cases[e.id].mail /\ edited' = edited \cup {e.id}
      BY <1>0, <1>7, <2>1 DEF Vouching, AdminSave
  <2> QED BY <2>1, <2>2 DEF Saved
<1>8. \/ UNCHANGED cases \/ CreateCase \/ ResolveSave
      \/ \E r \in Reporters, h \in Hashes : SubmitReport(r, h)
      \/ \E r \in reporters, h \in subjects, n \in BOOLEAN : CreateCaseByAdmin(r, h, n)
      \/ \E e \in edits, s \in Statuses, n \in BOOLEAN, r \in reporters, h \in subjects :
            AdminSave(e, s, n, r, h)
    BY DEF Next, Handler, Others, Idle, Deliver, Reject, CheckProcessed, Route, HandleThreadMatch,
           GetOrCreateReporter, LinkSubjects, CheckTrust, ResolveRead, BlockLookup, BlockInsert,
           AddCommunication, MarkProcessed, Crash, AdminRead, AdminBlock, Unblock, vars, tables
<1> QED BY <1>1, <1>2, <1>3, <1>4, <1>5, <1>6, <1>7, <1>8

\* What the handler has come to for report m is still so after every step that does not fail.
LEMMA StepHandledFor ==
    ASSUME OnceInv, [Next]_vars, TypeInv', NEW m \in Mails, Kind[m] = "report",
           HandledFor(m), FaultsOf(m)' = {}
    PROVE  HandledFor(m)'
<1>0. TypeInv /\ Vouching /\ faults \subseteq faults'
    BY FaultsGrow DEF OnceInv, TrustInv
<1>1. \A s : <<m, s>> \notin faults'
  <2> SUFFICES ASSUME NEW s, <<m, s>> \in faults' PROVE FALSE
      OBVIOUS
  <2>1. <<m, s>> \in {g \in faults' : g[1] = m}
      OBVIOUS
  <2>2. s \in {f[2] : f \in {g \in faults' : g[1] = m}}
      BY <2>1
  <2> QED BY <2>2 DEF FaultsOf
<1>2. /\ comms \subseteq comms' /\ edited \subseteq edited' /\ processed \subseteq processed'
      /\ \A i \in DOMAIN cases : /\ i \in DOMAIN cases' /\ cases'[i].mail = cases[i].mail
                                 /\ i \in edited' \/ cases'[i].hash = cases[i].hash
    BY RowsStay
<1>3. \A h : Stored(m, h) => Stored(m, h)'
  <2> SUFFICES ASSUME NEW h, NEW c \in comms, c.mail = m, cases[c.case].mail = m,
                      cases[c.case].hash = h \/ c.case \in edited
               PROVE  \E d \in comms' : d.mail = m /\ cases'[d.case].mail = m /\ (cases'[d.case].hash = h \/ d.case \in edited')
      BY DEF Stored
  <2>1. c.case \in DOMAIN cases
      BY <1>0 DEF TypeInv, TypeOK
  <2> QED BY <1>2, <2>1
<1> DEFINE Loop == {"read", "save", "lookup", "block", "comm"}
           Working(k, h) == cases[k].mail = m /\ (cases[k].hash = h \/ k \in edited)
<1>4. \A k, h : (k \in DOMAIN cases /\ Working(k, h)) =>
                 cases'[k].mail = m /\ (cases'[k].hash = h \/ k \in edited')
    BY <1>2
<1>5. pc \in Loop => cur \in DOMAIN cases
    BY <1>0 DEF TypeInv, Control
<1> HIDE DEF Working
<1>6. mail = m /\ pc \in Loop => Working(cur, subject)
    BY DEF HandledFor, Working
\* The parts of HandledFor(m)', with Stored left as it is.
<1>7. ASSUME processed' = processed,
             mail' = m => /\ pc' # "thread"
                          /\ pc' = "trust" => todo' = Named(m)
                          /\ pc' = "create" => \A h \in Named(m) \ todo' : Stored(m, h)'
                          /\ pc' \in Loop =>
                                /\ \A h \in Named(m) \ (todo' \cup {subject'}) : Stored(m, h)'
                                /\ cases'[cur'].mail = m /\ (cases'[cur'].hash = subject' \/ cur' \in edited')
                          /\ pc' = "mark" => \A h \in Named(m) : Stored(m, h)'
      PROVE  HandledFor(m)'
    BY <1>3, <1>7 DEF HandledFor, Named
<1>8. ASSUME UNCHANGED <<pc, mail, todo, subject, cur, processed>> PROVE HandledFor(m)'
    BY <1>3, <1>4, <1>5, <1>6, <1>7, <1>8 DEF HandledFor
<1>9. ASSUME processed' = processed, pc' \in {"idle", "check", "route", "reporter", "subjects"}
      PROVE  HandledFor(m)'
    BY <1>7, <1>9
<1>10. CASE Route
  <2>1. (mail = m => pc' # "thread") /\ processed' = processed /\ mail' = mail
        /\ (pc' = "thread" \/ pc' = "reporter")
      BY <1>10 DEF Route, Goto, tables, local
  <2> QED BY <1>7, <2>1
<1>11. CASE HandleThreadMatch
  <2>1. mail # m /\ mail' = mail /\ processed' = processed
      BY <1>11 DEF HandleThreadMatch, HandledFor, tables, local
  <2> QED BY <1>7, <2>1
<1>12. CASE GetOrCreateReporter
  <2>1. /\ mail' = mail /\ processed' = processed
        /\ pc' = "subjects" \/ (pc' = "mark" /\ <<mail, "reporter">> \in faults')
      BY <1>12 DEF GetOrCreateReporter, Goto, Fault, local
  <2> QED BY <1>1, <1>7, <2>1
<1>13. CASE LinkSubjects
  <2>1. /\ mail' = mail /\ processed' = processed
        /\ \/ todo' = Named(mail) /\ pc' = "mark" /\ Named(mail) = {}
           \/ todo' = Named(mail) /\ pc' = "trust"
           \/ \E s \in {"url", "subjects"} : <<mail, s>> \in faults'
      BY <1>13 DEF LinkSubjects, Goto, Fault
  <2> QED BY <1>1, <1>7, <2>1
<1>14. CASE CheckTrust
  <2>1. /\ mail' = mail /\ processed' = processed /\ todo' = todo /\ pc = "trust"
        /\ pc' = "create" \/ <<mail, "trust">> \in faults'
      BY <1>14 DEF CheckTrust, Goto, Fault, tables
  <2>2. mail = m => todo = Named(m)
      BY <2>1 DEF HandledFor
  <2> QED BY <1>1, <1>7, <2>1, <2>2
<1>15. CASE CreateCase
  <2>1. /\ mail' = mail /\ processed' = processed /\ pc = "create" /\ subject' \in todo /\ todo' = todo \ {subject'}
      BY <1>0, <1>15, CreateCaseShape DEF CreateCase
  <2>2. CASE mail # m
      BY <1>7, <2>1, <2>2
  <2>3. CASE mail = m
    <3>1. \A h \in Named(m) \ todo : Stored(m, h)'
        BY <1>3, <2>1, <2>3 DEF HandledFor
    <3>2. <<mail, "create">> \notin faults'
        BY <1>1, <2>3
    <3>3. cases' # cases
        BY <1>0, <1>15, <3>2, AppendRow DEF CreateCase, Fault, TypeInv, TypeOK
    <3>4. /\ cur' = Len(cases) + 1 /\ pc' \in {"read", "comm"}
          /\ \E c \in CaseRow : Inserted(c) /\ c.mail = mail /\ c.hash = subject'
        BY <1>0, <1>15, <3>3, CreateCaseShape
    <3>5. cases'[cur'].mail = m /\ cases'[cur'].hash = subject'
        BY <2>3, <3>4 DEF Inserted
    <3> QED BY <1>7, <2>1, <3>1, <3>4, <3>5
  <2> QED BY <2>2, <2>3
\* A step of the loop that stays with its subject.
<1>16. ASSUME pc \in Loop, pc' \in Loop, UNCHANGED <<mail, todo, subject, cur, processed>>
       PROVE  HandledFor(m)'
  <2>1. mail = m => \A h \in Named(m) \ (todo \cup {subject}) : Stored(m, h)'
      BY <1>3, <1>16 DEF HandledFor
  <2> QED BY <1>4, <1>5, <1>6, <1>7, <1>16, <2>1
<1>17. CASE ResolveRead
    BY <1>16, <1>17 DEF ResolveRead, Goto, tables
<1>18. CASE ResolveSave
    BY <1>16, <1>18 DEF ResolveSave, Goto, local
<1>19. CASE BlockLookup
    BY <1>16, <1>19 DEF BlockLookup, Goto, tables, local
<1>20. CASE BlockInsert
    BY <1>16, <1>20 DEF BlockInsert, Goto, local
<1>21. CASE AddCommunication
  <2>1. /\ UNCHANGED <<mail, todo, subject, cur, processed, cases, edited>> /\ pc = "comm"
        /\ \/ <<mail, "comm">> \in faults'
           \/ /\ comms' = comms \cup {[case |-> cur, mail |-> mail]}
              /\ (todo = {} /\ pc' = "mark") \/ pc' = "create"
      BY <1>21 DEF AddCommunication, Goto, Fault, local, admin
  <2>2. CASE mail # m
      BY <1>7, <2>1, <2>2
  <2>3. CASE mail = m
    <3>1. \A h \in Named(m) \ (todo \cup {subject}) : Stored(m, h)'
        BY <1>3, <2>1, <2>3 DEF HandledFor
    <3>2. comms' = comms \cup {[case |-> cur, mail |-> mail]} /\ ((todo = {} /\ pc' = "mark") \/ pc' = "create")
        BY <1>1, <2>1, <2>3
    <3>3. Stored(m, subject)'
      <4>1. cases'[cur].mail = m /\ (cases'[cur].hash = subject \/ cur \in edited')
          BY <1>4, <1>5, <1>6, <2>1, <2>3
      <4>2. PICK d \in comms' : d.case = cur /\ d.mail = m
        <5>1. PICK d : d = [case |-> cur, mail |-> mail]
            OBVIOUS
        <5>2. d \in comms' /\ d.case = cur /\ d.mail = m
            BY <2>3, <3>2, <5>1
        <5> QED BY <5>2
      <4>3. PICK h : h = subject
          OBVIOUS
      <4>4. Stored(m, h)'
          BY <2>1, <4>1, <4>2, <4>3 DEF Stored
      <4> QED BY <2>1, <4>3, <4>4 DEF Stored
    <3>4. \A h \in Named(m) \ todo : h = subject => Stored(m, h)'
        BY <2>1, <3>3 DEF Stored
    <3>5. \A h \in Named(m) \ todo : Stored(m, h)'
        BY <3>1, <3>4
    <3> QED BY <1>7, <2>1, <2>3, <3>2, <3>5
  <2> QED BY <2>2, <2>3
<1>22. CASE MarkProcessed
  <2>1. /\ pc = "mark" /\ pc' = "idle" /\ mail' = mail
        /\ processed' = processed \/ processed' = processed \cup {mail}
      BY <1>22 DEF MarkProcessed, Goto, local
  <2>2. m \in processed' => \A h \in Named(m) : Stored(m, h)
      BY <2>1 DEF HandledFor
  <2> QED BY <1>3, <2>1, <2>2 DEF HandledFor, Named
<1>23. CASE (\E n \in Mails : Deliver(n)) \/ Reject \/ CheckProcessed \/ Crash
    BY <1>9, <1>23 DEF Deliver, Reject, CheckProcessed, Crash, Goto, tables
<1>24. CASE Others \/ Idle \/ UNCHANGED vars
    BY <1>8, <1>24, ZenonT(40) DEF Others, Idle, SubmitReport, CreateCaseByAdmin, OpenCase, AdminRead, AdminSave, AdminBlock,
           Unblock, vars, tables, local
<1> QED BY <1>10, <1>11, <1>12, <1>13, <1>14, <1>15, <1>17, <1>18, <1>19, <1>20, <1>21, <1>22, <1>23, <1>24
           DEF Next, Handler

LEMMA InitHandled == Init => HandledInv
<1> SUFFICES ASSUME Init PROVE HandledInv
    OBVIOUS
<1>1. OnceInv /\ DOMAIN cases = {} /\ pc = "idle" /\ processed = {}
    BY InitOnce DEF Init
<1> QED BY <1>1 DEF HandledInv, Handled, HandledFor, NoStrandedCase

LEMMA StepHandled == HandledInv /\ [Next]_vars => HandledInv'
<1> SUFFICES ASSUME HandledInv, [Next]_vars PROVE HandledInv'
    OBVIOUS
<1>1. OnceInv' /\ TypeInv'
    BY StepOnce DEF HandledInv, OnceInv, TrustInv
<1>2. NoStrandedCase'
    BY <1>1, StepStranded DEF HandledInv
<1>3. Handled'
  <2> SUFFICES ASSUME NEW m \in Mails, Kind[m] = "report", FaultsOf(m)' = {} PROVE HandledFor(m)'
      BY DEF Handled
  <2>1. FaultsOf(m) = {}
      BY FaultsGrow DEF FaultsOf
  <2> QED BY <1>1, <2>1, StepHandledFor DEF HandledInv, Handled
<1> QED BY <1>1, <1>2, <1>3 DEF HandledInv

\* autoResolveAndBlock: a case that nobody is to review is not left new for nobody, unless its
\* resolution failed or the process stopped, or an administrator took it up.
THEOREM StrandedCorrect == Spec => []NoStrandedCase
<1>1. HandledInv => NoStrandedCase
    BY DEF HandledInv
<1> QED BY <1>1, InitHandled, StepHandled, PTL DEF Spec

\* MarkEmailProcessed: a report that is recorded as processed, no step of which failed, has a case
\* for every hash it names, with the text of the report.
THEOREM HandledCorrect == Spec => []ProcessedIsHandled
<1>1. ASSUME HandledInv PROVE ProcessedIsHandled
  <2>1. processed \subseteq Mails
      BY <1>1 DEF HandledInv, OnceInv, TrustInv, TypeInv, TypeOK
  <2> QED BY <1>1, <2>1 DEF HandledInv, Handled, HandledFor, Stored, ProcessedIsHandled
<1> QED BY <1>1, InitHandled, StepHandled, PTL DEF Spec

=============================================================================
