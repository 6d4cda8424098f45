--------------------------- MODULE CaseLifeProofs ---------------------------
(***************************************************************************)
(* Proofs about CaseLife, for any number of requests, reporters, statuses  *)
(* and failures: the type invariant; what a save may overwrite; that a     *)
(* notice tells a change that happened; what the status history says of    *)
(* the case; and which mail comes last.                                    *)
(***************************************************************************)
EXTENDS CaseLife, SequenceTheorems, TLAPS

-----------------------------------------------------------------------------
(* The inductive invariant. *)

\* The row of the case is the one saved last, and there is nothing about a case not stored.
Stored ==
    /\ row = None => trail = <<>> /\ history = <<>> /\ notes = <<>> /\ inbox = <<>>
    /\ row # None => trail # <<>> /\ row = trail[Len(trail)].row
    /\ \A i \in DOMAIN trail : trail[i].row.text # Blank

\* What a request is for tells where it may be, and only the one that opens the case finds none.
AskedAs(r) ==
    /\ r.at = "insert" => row = None /\ r.patch \in Row /\ r.patch.status = New
    /\ r.at \in {"look", "read", "enter", "save", "reread"} => row # None /\ r.kind # "create"
    /\ r.at \in {"look", "reread"} => r.kind = "status"
    /\ r.at = "enter" => r.kind # "edit"
    /\ r.kind \in {"status", "resolve"} => r.patch.status # None /\ r.patch.reporter = None /\ r.patch.text = None

\* A request works on a row that the case once had, and its first look-up saw a status
\* that the case once had.
HasRead(r) ==
    /\ r.at \in {"enter", "save"} => r.since \in DOMAIN trail /\ r.row = trail[r.since].row
    /\ (r.kind = "status" /\ r.at \in {"read", "enter", "save", "reread"}) =>
          \E a \in DOMAIN trail : trail[a].row.status = r.old

Working ==
    /\ \A q \in Requests : AskedAs(req[q]) /\ HasRead(req[q])
    /\ \A p, q \in Requests : (req[p].at = "insert" /\ req[q].at = "insert") => p = q

\* The case had the old status of a note and later the new one.
Passage(n) ==
    \E a, b \in DOMAIN trail : a < b /\ trail[a].row.status = n.old /\ trail[b].row.status = n.new

\* The reporter a note is addressed to was the case's when it had the new status, or later.
PassageTo(n) ==
    \E a, b, c \in DOMAIN trail :
        /\ a < b /\ trail[a].row.status = n.old /\ trail[b].row.status = n.new
        /\ b <= c /\ trail[c].row.reporter = n.to

Told ==
    /\ \A i \in DOMAIN notes :
          /\ notes[i].kind = "status" => Passage(notes[i])
          /\ (notes[i].kind = "status" /\ notes[i].to # None) => PassageTo(notes[i])
          /\ notes[i].at = "mail" => notes[i].to # None
          /\ notes[i].at = "store" => notes[i].kind = "creation"
    /\ \A i \in DOMAIN inbox : notes[inbox[i]].to # None

Inv == TypeOK /\ Stored /\ Working /\ Told /\ LostUpdateNeedsOverlap

\* A request that has written its entry of the history and has not saved the case.
Saving(q) == req[q].at = "save" /\ req[q].kind # "edit"

\* The entries of the history follow each other, and the last one leads to a status.
Chain == \A i \in DOMAIN history : history[i].old = IF i = 1 THEN New ELSE history[i - 1].new
LeadsTo(s) == s = IF history = <<>> THEN New ELSE history[Len(history)].new

\* What has happened so far leaves the history right.
Clean ==
    /\ \A i \in DOMAIN trail : ~trail[i].stale /\ ~ByEdit(i)
    /\ faults \cap {"history", "save", "crash"} = {}

\* Some save will be stale: one is already, or two requests are about to save.
Doomed ==
    \/ \E q \in Requests : Saving(q) /\ req[q].since # Len(trail)
    \/ \E p, q \in Requests : p # q /\ Saving(p) /\ Saving(q)

\* The history leads to the status of the case, or to the one that a request is about to save.
HistoryInv ==
    (row # None /\ Clean) =>
        \/ Doomed
        \/ Chain /\ (\A q \in Requests : ~Saving(q)) /\ LeadsTo(row.status)
        \/ Chain /\ \E q \in Requests : Saving(q) /\ LeadsTo(req[q].patch.status) /\ history # <<>>

\* Changes of the status have come one at a time, and nothing has failed.
OneByOne == faults = {} /\ \A i \in DOMAIN trail : trail[i].alone /\ ~ByEdit(i)

\* No request works on an old row, a goroutine that still runs tells the status the case has,
\* and while the last mail tells another one, such a goroutine runs.
MailInv ==
    OneByOne =>
        /\ \A q \in Requests : req[q].at \in {"enter", "save"} => req[q].since = Len(trail)
        /\ \A i \in DOMAIN notes : (notes[i].at # "done" /\ notes[i].kind = "status") => notes[i].new = row.status
        /\ (/\ inbox # <<>> /\ notes[inbox[Len(inbox)]].kind = "status"
            /\ notes[inbox[Len(inbox)]].new # row.status) =>
              \E i \in DOMAIN notes : notes[i].at # "done" /\ notes[i].kind = "status"

-----------------------------------------------------------------------------
(* The sequences and the requests. *)

LEMMA Appended ==
    ASSUME NEW S, NEW s \in Seq(S), NEW e \in S
    PROVE  /\ Append(s, e) \in Seq(S) /\ Len(Append(s, e)) = Len(s) + 1
           /\ DOMAIN Append(s, e) = DOMAIN s \cup {Len(s) + 1}
           /\ \A i \in DOMAIN s : Append(s, e)[i] = s[i]
           /\ Append(s, e)[Len(s) + 1] = e
           /\ Append(s, e) # <<>>
    OBVIOUS

Request == [at : Locations, kind : Kinds, patch : Patches, old : Statuses \cup {None},
            row : Row \cup {None}, since : Nat]
Save_ == [row : Row, by : Kinds, patch : Patches, stale : BOOLEAN, alone : BOOLEAN]
Others(q) == \A p \in Requests \ {q} : req'[p] = req[p]
Same(q) == /\ req'[q].kind = req[q].kind /\ req'[q].patch = req[q].patch /\ req'[q].old = req[q].old
           /\ req'[q].row = req[q].row /\ req'[q].since = req[q].since

LEMMA MoveShape ==
    ASSUME TypeOK, NEW q \in Requests, NEW l \in Locations, Move(q, l)
    PROVE  req' \in [Requests -> Request] /\ Others(q) /\ Same(q) /\ req'[q].at = l
    BY DEF TypeOK, Move, Request, Others, Same

LEMMA FinishShape ==
    ASSUME TypeOK, NEW q \in Requests, Finish(q)
    PROVE  req' \in [Requests -> Request] /\ Others(q) /\ req'[q].at = "done" /\ req'[q].kind = "edit"
    BY DEF TypeOK, Finish, Idle, Only, Request, Others, Locations, Kinds, Patches

\* What the requests do to themselves while the case is as it was.
LEMMA OneRequest ==
    ASSUME Working, NEW q \in Requests, Others(q), row' = row, trail' = trail,
           AskedAs(req[q])', HasRead(req[q])', req'[q].at = "insert" => req[q].at = "insert"
    PROVE  Working'
    BY DEF Working, Others, AskedAs, HasRead

LEMMA OneFinished ==
    ASSUME TypeOK, Working, NEW q \in Requests, Finish(q), row' = row, trail' = trail
    PROVE  Working'
<1>1. req'[q].at = "done" /\ req'[q].kind = "edit" /\ Others(q)
    BY FinishShape
<1>2. AskedAs(req[q])' /\ HasRead(req[q])'
    BY <1>1 DEF AskedAs, HasRead
<1> QED BY <1>1, <1>2, OneRequest

\* What is in the trail, and what goes into it.
LEMMA TrailTypes ==
    ASSUME TypeOK
    PROVE  /\ trail \in Seq(Save_)
           /\ \A i \in DOMAIN trail : trail[i] \in Save_ /\ trail[i].row \in Row /\ trail[i].patch \in Patches
<1>1. trail \in Seq(Save_)
    BY DEF TypeOK, Save_
<1>2. \A i \in DOMAIN trail : trail[i] \in Save_
    BY <1>1
<1>3. \A s \in Save_ : s.row \in Row /\ s.patch \in Patches
    BY DEF Save_
<1> QED BY <1>1, <1>2, <1>3

LEMMA SaveTypes ==
    ASSUME NEW r \in Row, NEW k \in Kinds, NEW p \in Patches, NEW b \in BOOLEAN, NEW c \in BOOLEAN
    PROVE  [row |-> r, by |-> k, patch |-> p, stale |-> b, alone |-> c] \in Save_
    BY DEF Save_

\* The row of the case is the last one in the trail.
LEMMA LastRow ==
    ASSUME TypeOK, Stored, row # None
    PROVE  /\ Len(trail) \in Nat /\ Len(trail) >= 1 /\ Len(trail) \in DOMAIN trail
           /\ DOMAIN trail = 1..Len(trail)
           /\ trail[Len(trail)].row = row /\ row \in Row /\ row.status \in Statuses
<1>1. trail \in Seq(Save_) /\ trail # <<>> /\ row \in Row /\ trail[Len(trail)].row = row
    BY TrailTypes DEF TypeOK, Stored
<1>2. row.status \in Statuses
    BY <1>1 DEF Row
<1>3. Len(trail) \in Nat /\ Len(trail) >= 1 /\ DOMAIN trail = 1..Len(trail)
    BY <1>1, EmptySeq, LenProperties
<1> QED BY <1>1, <1>2, <1>3

\* A case that has changed hands or status has had both.
LEMMA PassageKept ==
    ASSUME NEW n, \A i \in DOMAIN trail : i \in DOMAIN trail' /\ trail'[i] = trail[i]
    PROVE  (Passage(n) => Passage(n)') /\ (PassageTo(n) => PassageTo(n)')
    BY DEF Passage, PassageTo

\* The notes of a request: nothing, or one that tells a passage of the case.
LEMMA OneNote ==
    ASSUME TypeOK, Told, \A i \in DOMAIN trail : i \in DOMAIN trail' /\ trail'[i] = trail[i],
           NEW kind \in {"creation", "status"}, NEW old \in Statuses \cup {None}, NEW new \in Statuses,
           notes' = Append(notes, Note(kind, old, new)), inbox' = inbox, comms' = comms,
           kind = "status" => Passage(Note(kind, old, new))'
    PROVE  Told' /\ notes' \in Seq(Notice) /\ inbox' \in Seq(DOMAIN notes') /\ comms' \subseteq DOMAIN notes'
<1>1. PICK n : n = Note(kind, old, new)
    OBVIOUS
<1>2. n \in Notice /\ n.to = None /\ n.at = "read" /\ n.kind = kind
    BY <1>1 DEF Note, Notice
<1>3. /\ notes' \in Seq(Notice) /\ DOMAIN notes' = DOMAIN notes \cup {Len(notes) + 1}
      /\ \A i \in DOMAIN notes : notes'[i] = notes[i]
      /\ notes'[Len(notes) + 1] = n
    BY <1>1, <1>2, Appended DEF TypeOK
<1>4. inbox \in Seq(DOMAIN notes')
    BY <1>3, SeqMonotonic DEF TypeOK
<1>5. ASSUME NEW k, k = Len(notes) + 1, kind = "status" PROVE Passage(notes[k])'
    BY <1>1, <1>3, <1>5 DEF Note, Passage
<1>6. ASSUME NEW i \in DOMAIN notes
      PROVE  (Passage(notes[i]) => Passage(notes[i])') /\ (PassageTo(notes[i]) => PassageTo(notes[i])')
    BY <1>3 DEF Passage, PassageTo
<1>7. \A i \in DOMAIN inbox : inbox[i] \in DOMAIN notes
    BY DEF TypeOK
<1>8. ASSUME NEW i \in DOMAIN notes'
      PROVE  (/\ notes[i].kind = "status" => Passage(notes[i])
              /\ (notes[i].kind = "status" /\ notes[i].to # None) => PassageTo(notes[i])
              /\ notes[i].at = "mail" => notes[i].to # None
              /\ notes[i].at = "store" => notes[i].kind = "creation")'
    BY <1>2, <1>3, <1>5, <1>6 DEF Told
<1>9. Told'
    BY <1>3, <1>7, <1>8 DEF Told
<1> QED BY <1>3, <1>4, <1>9 DEF TypeOK

-----------------------------------------------------------------------------
(* The steps of the requests. *)

LEMMA InitInv == Init => Inv
<1> SUFFICES ASSUME Init PROVE Inv
    OBVIOUS
<1>1. Idle \in Request /\ Idle.at = "idle" /\ Idle.kind = "edit"
    BY DEF Idle, Only, Request, Locations, Kinds, Patches
<1>2. TypeOK
    BY <1>1, EmptySeq DEF Init, TypeOK, Request, Row
<1>3. Stored /\ Told /\ LostUpdateNeedsOverlap
    BY DEF Init, Stored, Told, LostUpdateNeedsOverlap
<1>4. Working
    BY <1>1 DEF Init, Working, AskedAs, HasRead
<1> QED BY <1>2, <1>3, <1>4 DEF Inv

\* A step that leaves the case and the notes alone.
LEMMA OnlyRequests ==
    ASSUME Inv, UNCHANGED <<row, comms, inbox, notes, trail>>,
           history' \in Seq([old : Statuses, new : Statuses]), row = None => history' = <<>>,
           req' \in [Requests -> Request], Working'
    PROVE  Inv'
<1>1. TypeOK'
    BY DEF Inv, TypeOK, Request
<1>2. Stored' /\ Told' /\ LostUpdateNeedsOverlap'
    BY DEF Inv, Stored, Told, Passage, PassageTo, LostUpdateNeedsOverlap
<1> QED BY <1>1, <1>2 DEF Inv

LEMMA OnlyFinished ==
    ASSUME Inv, UNCHANGED <<row, history, comms, inbox, notes, trail>>, NEW q \in Requests, Finish(q)
    PROVE  Inv'
<1>1. req' \in [Requests -> Request] /\ Working'
    BY FinishShape, OneFinished DEF Inv
<1>2. history' \in Seq([old : Statuses, new : Statuses]) /\ (row = None => history' = <<>>)
    BY DEF Inv, TypeOK, Stored
<1> QED BY <1>1, <1>2, OnlyRequests

LEMMA StepAsk ==
    ASSUME Inv, NEW q \in Requests, Ask(q)
    PROVE  Inv'
<1>1. PICK a \in Asks[q] :
        /\ IF a.kind = "create" THEN row = None /\ \A p \in Requests : req[p].at # "insert"
           ELSE row # None
        /\ req' = [req EXCEPT ![q] = [Idle EXCEPT !.kind = a.kind, !.patch = a.patch,
                !.at = CASE a.kind = "create" -> "insert" [] a.kind = "status" -> "look" [] OTHER -> "read"]]
    BY DEF Ask
<1>2. /\ a.kind \in Kinds /\ a.patch \in Patches
      /\ a.kind = "create" => a.patch.status = New /\ a.patch.reporter # None /\ a.patch.text # None
      /\ a.kind \in {"status", "resolve"} =>
            a.patch.status # None /\ a.patch.reporter = None /\ a.patch.text = None
    BY CaseAssumption DEF Kinds, Patches
<1>3. a.kind = "create" => a.patch \in Row
    BY <1>2, CaseAssumption DEF Patches, Row
<1>4. PICK l \in {"insert", "look", "read"} :
        /\ l = CASE a.kind = "create" -> "insert" [] a.kind = "status" -> "look" [] OTHER -> "read"
        /\ l = "insert" <=> a.kind = "create"
        /\ l = "look" <=> a.kind = "status"
    OBVIOUS
<1>5. PICK r \in Request : /\ req' = [req EXCEPT ![q] = r]
                           /\ r.at = l /\ r.kind = a.kind /\ r.patch = a.patch
  <2> DEFINE r == [Idle EXCEPT !.kind = a.kind, !.patch = a.patch, !.at = l]
  <2>1. r \in Request /\ r.at = l /\ r.kind = a.kind /\ r.patch = a.patch
      BY <1>2 DEF Idle, Only, Request, Locations, Kinds, Patches
  <2>2. req' = [req EXCEPT ![q] = r]
      BY <1>1, <1>4
  <2> HIDE DEF r
  <2> QED BY <2>1, <2>2
<1>6. req' \in [Requests -> Request] /\ Others(q) /\ req'[q] = r
    BY <1>5 DEF Inv, TypeOK, Request, Others
<1>7. UNCHANGED <<row, history, comms, inbox, notes, trail>>
    BY DEF Ask
<1>8. AskedAs(req[q])' /\ HasRead(req[q])'
    BY <1>1, <1>2, <1>3, <1>4, <1>5, <1>6, <1>7 DEF AskedAs, HasRead
<1>9. Working'
    BY <1>1, <1>4, <1>5, <1>6, <1>7, <1>8 DEF Inv, Working, Others, AskedAs, HasRead
<1>10. history' \in Seq([old : Statuses, new : Statuses]) /\ (row = None => history' = <<>>)
    BY <1>7 DEF Inv, TypeOK, Stored
<1> QED BY <1>6, <1>7, <1>9, <1>10, OnlyRequests

LEMMA StepLook ==
    ASSUME Inv, NEW q \in Requests, Look(q)
    PROVE  Inv'
<1>1. CASE Finish(q)
    BY <1>1, OnlyFinished DEF Look
<1>2. CASE req' = [req EXCEPT ![q].at = "read", ![q].old = row.status] /\ Sound
  <2>1. req[q].at = "look" /\ row # None /\ row \in Row /\ row.status \in Statuses
      BY DEF Look, Inv, TypeOK, Working, AskedAs, Row
  <2>2. /\ req' \in [Requests -> Request] /\ Others(q) /\ req'[q].at = "read" /\ req'[q].old = row.status
        /\ req'[q].kind = req[q].kind /\ req'[q].patch = req[q].patch
      BY <1>2, <2>1, ZenonT(40) DEF Inv, TypeOK, Request, Others, Locations
  <2>3. UNCHANGED <<row, history, comms, inbox, notes, trail>>
      BY DEF Look
  <2>4. Len(trail) \in DOMAIN trail /\ trail[Len(trail)].row = row
      BY <2>1 DEF Inv, TypeOK, Stored
  <2>5. AskedAs(req[q])' /\ HasRead(req[q])'
      BY <2>1, <2>2, <2>3, <2>4 DEF Inv, Working, AskedAs, HasRead
  <2>6. Working'
      BY <2>2, <2>3, <2>5, OneRequest DEF Inv
  <2>7. history' \in Seq([old : Statuses, new : Statuses]) /\ (row = None => history' = <<>>)
      BY <2>3 DEF Inv, TypeOK, Stored
  <2> QED BY <2>2, <2>3, <2>6, <2>7, OnlyRequests
<1> QED BY <1>1, <1>2 DEF Look

LEMMA StepRead ==
    ASSUME Inv, NEW q \in Requests, Read(q)
    PROVE  Inv'
<1>1. req[q].at = "read" /\ row # None /\ row \in Row
    BY DEF Read, Inv, TypeOK, Working, AskedAs
<1>2. UNCHANGED <<row, history, comms, inbox, notes, trail>>
    BY DEF Read
<1>3. history' \in Seq([old : Statuses, new : Statuses]) /\ (row = None => history' = <<>>)
    BY <1>2 DEF Inv, TypeOK, Stored
<1>4. CASE Finish(q)
    BY <1>2, <1>4, OnlyFinished
<1>5. CASE /\ req' = [req EXCEPT ![q].row = row, ![q].since = Len(trail),
                                 ![q].at = IF req[q].kind = "edit" THEN "save" ELSE "enter"]
  <2>1. Len(trail) \in DOMAIN trail /\ trail[Len(trail)].row = row /\ Len(trail) \in Nat
      BY <1>1 DEF Inv, TypeOK, Stored
  <2>2. PICK l \in {"save", "enter"} : /\ l = IF req[q].kind = "edit" THEN "save" ELSE "enter"
                                       /\ l = "enter" => req[q].kind # "edit"
      OBVIOUS
  <2>3. /\ req' \in [Requests -> Request] /\ Others(q)
        /\ req'[q].at = l /\ req'[q].row = row /\ req'[q].since = Len(trail)
        /\ req'[q].kind = req[q].kind /\ req'[q].patch = req[q].patch /\ req'[q].old = req[q].old
      BY <1>1, <1>5, <2>1, <2>2, SMTT(40) DEF Inv, TypeOK, Request, Others, Locations
  <2>4. AskedAs(req[q])' /\ HasRead(req[q])'
      BY <1>1, <1>2, <2>1, <2>2, <2>3 DEF Inv, Working, AskedAs, HasRead
  <2>5. Working'
      BY <1>2, <2>2, <2>3, <2>4, OneRequest DEF Inv
  <2> QED BY <1>2, <1>3, <2>3, <2>5, OnlyRequests
<1>6. CASE Move(q, "reread") /\ req[q].kind = "status"
  <2>1. req' \in [Requests -> Request] /\ Others(q) /\ Same(q) /\ req'[q].at = "reread"
      BY <1>6, MoveShape DEF Inv, Locations
  <2>2. AskedAs(req[q])' /\ HasRead(req[q])'
      BY <1>1, <1>2, <1>6, <2>1 DEF Inv, Working, AskedAs, HasRead, Same
  <2>3. Working'
      BY <1>2, <2>1, <2>2, OneRequest DEF Inv
  <2> QED BY <1>2, <1>3, <2>1, <2>3, OnlyRequests
<1> QED BY <1>4, <1>5, <1>6 DEF Read

LEMMA StepEnter ==
    ASSUME Inv, NEW q \in Requests, Enter(q)
    PROVE  Inv'
<1>1. req[q].at = "enter" /\ row # None /\ req[q].row \in Row /\ req[q].patch.status \in Statuses
  <2>1. req[q].at = "enter" /\ req[q].kind \in {"status", "resolve"} /\ row # None
      BY DEF Enter, Inv, TypeOK, Working, AskedAs, Kinds
  <2>2. req[q].since \in DOMAIN trail /\ req[q].row = trail[req[q].since].row
      BY <2>1 DEF Inv, Working, HasRead
  <2>3. req[q].patch \in Patches /\ req[q].patch.status # None
      BY <2>1 DEF Inv, TypeOK, Working, AskedAs
  <2>4. req[q].patch.status \in Statuses
      BY <2>3 DEF Patches
  <2>5. req[q].row \in Row
      BY <2>2, TrailTypes DEF Inv
  <2> QED BY <2>1, <2>4, <2>5
<1>2. req' \in [Requests -> Request] /\ Others(q) /\ Same(q) /\ req'[q].at = "save"
    BY MoveShape DEF Enter, Inv, Locations
<1>3. UNCHANGED <<row, comms, inbox, notes, trail>>
    BY DEF Enter
<1>4. AskedAs(req[q])' /\ HasRead(req[q])'
    BY <1>1, <1>2, <1>3 DEF Inv, Working, AskedAs, HasRead, Same
<1>5. Working'
    BY <1>2, <1>3, <1>4, OneRequest DEF Inv
<1>6. history' \in Seq([old : Statuses, new : Statuses])
  <2>1. PICK e \in [old : Statuses, new : Statuses] : e = [old |-> req[q].row.status, new |-> req[q].patch.status]
      BY <1>1 DEF Row
  <2>2. history' = Append(history, e) \/ history' = history
      BY <2>1 DEF Enter
  <2>3. history \in Seq([old : Statuses, new : Statuses])
      BY DEF Inv, TypeOK
  <2>4. Append(history, e) \in Seq([old : Statuses, new : Statuses])
      BY <2>3
  <2> QED BY <2>2, <2>3, <2>4
<1> QED BY <1>1, <1>2, <1>3, <1>5, <1>6, OnlyRequests

LEMMA StepReread ==
    ASSUME Inv, NEW q \in Requests, Reread(q)
    PROVE  Inv'
<1>1. req[q].at = "reread" /\ req[q].kind = "status" /\ row # None /\ row \in Row /\ row.status \in Statuses
    BY DEF Reread, Inv, TypeOK, Working, AskedAs, Row
<1>2. UNCHANGED <<row, history, comms, inbox, trail>> /\ Finish(q)
    BY DEF Reread
<1>3. CASE UNCHANGED notes
    BY <1>2, <1>3, OnlyFinished
<1>4. CASE notes' = Append(notes, Note("status", req[q].old, row.status)) /\ req[q].old # row.status
  <2>1. PICK a \in DOMAIN trail : trail[a].row.status = req[q].old
      BY <1>1 DEF Inv, Working, HasRead
  <2>2. Len(trail) \in DOMAIN trail /\ trail[Len(trail)].row = row /\ a <= Len(trail) /\ a \in Nat
      BY <1>1 DEF Inv, TypeOK, Stored
  <2>3. PICK old \in Statuses \cup {None}, new \in Statuses : old = req[q].old /\ new = row.status
      BY <1>1 DEF Inv, TypeOK
  <2>4. Passage(Note("status", old, new))'
      BY <1>2, <1>4, <2>1, <2>2, <2>3 DEF Passage, Note
  <2>5. Told' /\ notes' \in Seq(Notice) /\ inbox' \in Seq(DOMAIN notes') /\ comms' \subseteq DOMAIN notes'
      BY <1>2, <1>4, <2>3, <2>4, OneNote DEF Inv
  <2>6. req' \in [Requests -> Request] /\ Working'
      BY <1>2, FinishShape, OneFinished DEF Inv
  <2>7. TypeOK'
      BY <1>2, <2>5, <2>6 DEF Inv, TypeOK, Request
  <2>8. Stored' /\ LostUpdateNeedsOverlap'
      BY <1>1, <1>2 DEF Inv, Stored, LostUpdateNeedsOverlap
  <2> QED BY <2>5, <2>6, <2>7, <2>8 DEF Inv
<1> QED BY <1>3, <1>4 DEF Reread

LEMMA StepCreate ==
    ASSUME Inv, NEW q \in Requests, Create(q)
    PROVE  Inv'
<1>1. /\ req[q].at = "insert" /\ row = None /\ req[q].patch \in Row /\ req[q].patch.status = New
      /\ req[q].patch \in Patches /\ req[q].kind \in Kinds
    BY DEF Create, Inv, TypeOK, Working, AskedAs
<1>2. trail = <<>> /\ history = <<>> /\ notes = <<>> /\ inbox = <<>> /\ comms = {}
    BY <1>1 DEF Inv, TypeOK, Stored
<1>3. \A p \in Requests \ {q} : req[p].at \in {"idle", "done"}
    BY <1>1 DEF Inv, TypeOK, Working, AskedAs, Locations
<1>4. CASE /\ Valid(req[q].patch) /\ row' = req[q].patch
           /\ trail' = <<[row |-> row', by |-> req[q].kind, patch |-> req[q].patch, stale |-> FALSE, alone |-> TRUE]>>
           /\ notes' = Append(notes, Note("creation", None, New)) /\ Finish(q)
           /\ UNCHANGED <<history, comms, inbox>>
  <2>1. PICK s \in Save_ : /\ s = [row |-> row', by |-> req[q].kind, patch |-> req[q].patch,
                                   stale |-> FALSE, alone |-> TRUE]
                           /\ s.row = row'
      BY <1>1, <1>4, SaveTypes
  <2>2. trail' = <<s>>
      BY <1>4, <2>1
  <2>3. trail' \in Seq(Save_) /\ Len(trail') = 1 /\ trail'[1] = s /\ DOMAIN trail' = {1}
      BY <2>2
  <2>4. New \in Statuses /\ (\A i \in DOMAIN trail : i \in DOMAIN trail' /\ trail'[i] = trail[i])
      BY <1>2, CaseAssumption
  <2>5. Told' /\ notes' \in Seq(Notice) /\ inbox' \in Seq(DOMAIN notes') /\ comms' \subseteq DOMAIN notes'
      BY <1>4, <2>4, OneNote DEF Inv
  <2>6. /\ req' \in [Requests -> Request] /\ Others(q) /\ req'[q].at = "done" /\ req'[q].kind = "edit"
      BY <1>4, FinishShape DEF Inv
  <2>7. Working'
      BY <1>3, <2>6 DEF Inv, Working, AskedAs, HasRead, Others
  <2>8. row' \in Row /\ row' # None /\ row'.text # Blank
      BY <1>1, <1>4, CaseAssumption DEF Valid, Row
  <2>9. TypeOK'
      BY <1>4, <2>3, <2>5, <2>6, <2>8 DEF Inv, TypeOK, Request, Save_
  <2>10. Stored'
      BY <2>1, <2>3, <2>8 DEF Stored
  <2>11. LostUpdateNeedsOverlap'
      BY <2>3 DEF LostUpdateNeedsOverlap
  <2> QED BY <2>5, <2>7, <2>9, <2>10, <2>11 DEF Inv
<1>5. CASE req' = [req EXCEPT ![q] = Idle] /\ UNCHANGED <<row, trail, notes, history, comms, inbox>>
  <2>1. Idle \in Request /\ Idle.at = "idle" /\ Idle.kind = "edit"
      BY DEF Idle, Only, Request, Locations, Kinds, Patches
  <2>2. req' \in [Requests -> Request] /\ Others(q) /\ req'[q].at = "idle" /\ req'[q].kind = "edit"
      BY <1>5, <2>1 DEF Inv, TypeOK, Request, Others
  <2>3. AskedAs(req[q])' /\ HasRead(req[q])'
      BY <2>2 DEF AskedAs, HasRead
  <2>4. Working'
      BY <1>5, <2>2, <2>3, OneRequest DEF Inv
  <2> QED BY <1>2, <1>5, <2>2, <2>4, EmptySeq, OnlyRequests
<1> QED BY <1>4, <1>5 DEF Create

\* What a save puts into the row, the trail and the request.
LEMMA SaveShape ==
    ASSUME Inv, NEW q \in Requests, Save(q), ~Finish(q) \/ ~UNCHANGED trail
    PROVE  /\ row # None /\ req[q].at = "save" /\ req[q].kind \in {"status", "resolve", "edit"}
           /\ row' \in Row /\ row' = Merge(req[q].patch, req[q].row) /\ row'.text # Blank
           /\ req[q].since \in DOMAIN trail /\ req[q].row = trail[req[q].since].row /\ req[q].row \in Row
           /\ trail' \in Seq(Save_) /\ Len(trail') = Len(trail) + 1
           /\ DOMAIN trail' = DOMAIN trail \cup {Len(trail) + 1}
           /\ \A i \in DOMAIN trail : trail'[i] = trail[i]
           /\ trail'[Len(trail) + 1].row = row' /\ trail'[Len(trail) + 1].patch = req[q].patch
           /\ trail'[Len(trail) + 1].by = req[q].kind
           /\ trail'[Len(trail) + 1].stale <=> Len(trail) # req[q].since
           /\ trail'[Len(trail) + 1].alone <=> Alone(q)
           /\ UNCHANGED <<history, comms, inbox, faults>> /\ Announce(q)
           /\ IF req[q].kind = "status" THEN Move(q, "reread") ELSE Finish(q)
<1>1. /\ Valid(Merge(req[q].patch, req[q].row)) /\ Sound
      /\ row' = Merge(req[q].patch, req[q].row)
      /\ trail' = Append(trail, [row |-> row', by |-> req[q].kind, patch |-> req[q].patch,
                                 stale |-> Len(trail) # req[q].since, alone |-> Alone(q)])
      /\ Announce(q)
      /\ IF req[q].kind = "status" THEN Move(q, "reread") ELSE Finish(q)
      /\ UNCHANGED <<history, comms, inbox>> /\ req[q].at = "save"
    BY DEF Save
<1>2. row # None /\ req[q].kind \in {"status", "resolve", "edit"} /\ req[q].patch \in Patches
    BY <1>1 DEF Inv, TypeOK, Working, AskedAs, Kinds
<1>3. req[q].since \in DOMAIN trail /\ req[q].row = trail[req[q].since].row
    BY <1>1 DEF Inv, Working, HasRead
<1>4. req[q].row \in Row
    BY <1>3, TrailTypes DEF Inv
<1>5. row' \in Row /\ row'.text # Blank
  <2>1. row'.text # Blank
      BY <1>1 DEF Valid
  <2>2. row' \in Row
      BY <1>1, <1>2, <1>4 DEF Merge, Patches, Row
  <2> QED BY <2>1, <2>2
<1>6. PICK s \in Save_ : s = [row |-> row', by |-> req[q].kind, patch |-> req[q].patch,
                              stale |-> Len(trail) # req[q].since, alone |-> Alone(q)]
  <2>1. (Len(trail) # req[q].since) \in BOOLEAN /\ Alone(q) \in BOOLEAN
      BY DEF Alone
  <2>2. req[q].kind \in Kinds
      BY <1>2 DEF Kinds
  <2> QED BY <1>2, <1>5, <2>1, <2>2, SaveTypes
<1>61. /\ s.row = row' /\ s.by = req[q].kind /\ s.patch = req[q].patch
       /\ s.stale <=> Len(trail) # req[q].since
       /\ s.alone <=> Alone(q)
    BY <1>6
<1>7. trail \in Seq(Save_) /\ trail' = Append(trail, s)
    BY <1>1, <1>6 DEF Inv, TypeOK, Save_
<1>8. /\ trail' \in Seq(Save_) /\ Len(trail') = Len(trail) + 1
      /\ DOMAIN trail' = DOMAIN trail \cup {Len(trail) + 1}
      /\ \A i \in DOMAIN trail : trail'[i] = trail[i]
      /\ trail'[Len(trail) + 1] = s
    BY <1>7, Appended
<1> QED BY <1>1, <1>2, <1>3, <1>4, <1>5, <1>61, <1>8 DEF Sound

LEMMA StepSave ==
    ASSUME Inv, NEW q \in Requests, Save(q)
    PROVE  Inv'
<1>1. CASE Finish(q) /\ UNCHANGED <<row, history, comms, inbox, notes, trail>>
    BY <1>1, OnlyFinished
<1>2. CASE ~Finish(q) \/ ~UNCHANGED trail
  <2> DEFINE n == Len(trail)
  <2>1. /\ n \in Nat /\ n \in DOMAIN trail /\ n >= 1 /\ DOMAIN trail = 1..n /\ trail[n].row = row /\ row \in Row
      BY <1>2, SaveShape, LastRow DEF Inv
  <2>2. PICK old \in Statuses, new \in Statuses :
          /\ old = req[q].row.status /\ (req[q].kind # "edit" => new = req[q].patch.status)
          /\ req[q].kind # "edit" => row'.status = new
    <3>1. req[q].row.status \in Statuses
        BY <1>2, SaveShape DEF Row
    <3>2. req[q].kind # "edit" => req[q].patch.status # None /\ req[q].patch.status \in Statuses
        BY <1>2, SaveShape DEF Inv, TypeOK, Working, AskedAs, Patches
    <3>3. CASE req[q].kind = "edit"
        BY <3>1, <3>3
    <3>4. CASE req[q].kind # "edit"
      <4>1. row'.status = req[q].patch.status
          BY <1>2, <3>2, <3>4, SaveShape DEF Merge
      <4> QED BY <3>1, <3>2, <3>4, <4>1
    <3> QED BY <3>3, <3>4
  <2>3. \A i \in DOMAIN trail : i \in DOMAIN trail' /\ trail'[i] = trail[i]
      BY <1>2, SaveShape
  <2>4. Told' /\ notes' \in Seq(Notice) /\ inbox' \in Seq(DOMAIN notes') /\ comms' \subseteq DOMAIN notes'
    <3>1. CASE notes' = notes
      <4>1. ASSUME NEW i \in DOMAIN notes
            PROVE  (Passage(notes[i]) => Passage(notes[i])') /\ (PassageTo(notes[i]) => PassageTo(notes[i])')
          BY <2>3, <3>1 DEF Passage, PassageTo
      <4>2. inbox' = inbox /\ comms' = comms
          BY <1>2, SaveShape
      <4> QED BY <3>1, <4>1, <4>2 DEF Inv, TypeOK, Told
    <3>2. CASE notes' = Append(notes, Note("status", old, new)) /\ req[q].kind # "edit"
      <4>1. /\ req[q].since \in DOMAIN trail' /\ n + 1 \in DOMAIN trail' /\ req[q].since < n + 1
            /\ trail'[req[q].since].row.status = old /\ trail'[n + 1].row.status = new
          BY <1>2, <2>1, <2>2, <3>2, SaveShape
      <4>2. Note("status", old, new).old = old /\ Note("status", old, new).new = new
          BY DEF Note
      <4>3. Passage(Note("status", old, new))'
          BY <4>1, <4>2 DEF Passage, Note
      <4>4. inbox' = inbox /\ comms' = comms
          BY <1>2, SaveShape
      <4> QED BY <2>3, <3>2, <4>3, <4>4, OneNote DEF Inv
    <3> QED BY <1>2, <2>2, <3>1, <3>2, SaveShape DEF Announce
  <2>5. req' \in [Requests -> Request] /\ Others(q) /\ req'[q].at \in {"reread", "done"}
        /\ (req'[q].at = "reread" => Same(q) /\ req[q].kind = "status") /\ (req'[q].at = "done" => req'[q].kind = "edit")
    <3>1. CASE req[q].kind = "status"
        BY <1>2, <3>1, SaveShape, MoveShape DEF Inv, Locations
    <3>2. CASE req[q].kind # "status"
        BY <1>2, <3>2, SaveShape, FinishShape DEF Inv
    <3> QED BY <3>1, <3>2
  <2>6. Working'
    <3>1. AskedAs(req[q])'
      <4>1. row' # None
          BY <1>2, SaveShape, CaseAssumption DEF Row
      <4>2. /\ req[q].kind # "create"
            /\ req[q].kind \in {"status", "resolve"} =>
                 req[q].patch.status # None /\ req[q].patch.reporter = None /\ req[q].patch.text = None
          BY <1>2, SaveShape DEF Inv, Working, AskedAs
      <4> QED BY <2>5, <4>1, <4>2 DEF AskedAs, Same
    <3>2. HasRead(req[q])'
        BY <1>2, <2>3, <2>5, SaveShape DEF Inv, Working, HasRead, Same
    <3>3. ASSUME NEW p \in Requests \ {q} PROVE AskedAs(req[p])' /\ HasRead(req[p])' /\ req[p].at # "insert"
      <4>1. req[p].at # "insert" /\ row' # None
          BY <1>2, SaveShape, CaseAssumption DEF Inv, Working, AskedAs, Row
      <4>2. req'[p] = req[p]
          BY <2>5 DEF Others
      <4> QED BY <2>3, <4>1, <4>2 DEF Inv, Working, AskedAs, HasRead
    <3> QED BY <2>5, <3>1, <3>2, <3>3 DEF Working, Others
  <2>7. TypeOK'
    <3>1. /\ row' \in Row /\ row'.text # Blank /\ trail' \in Seq(Save_)
          /\ history' = history
        BY <1>2, SaveShape
    <3> QED BY <2>4, <2>5, <3>1 DEF Inv, TypeOK, Request, Save_
  <2>8. Stored'
    <3>1. row' # None
        BY <1>2, SaveShape, CaseAssumption DEF Row
    <3>2. Len(trail') = n + 1 /\ trail' # <<>> /\ trail'[n + 1].row = row' /\ row'.text # Blank
        BY <1>2, <2>1, SaveShape
    <3>3. ASSUME NEW i \in DOMAIN trail' PROVE trail'[i].row.text # Blank
        BY <1>2, <2>1, <3>2, SaveShape DEF Inv, Stored
    <3> QED BY <3>1, <3>2, <3>3 DEF Stored
  <2>9. LostUpdateNeedsOverlap'
    <3>1. ASSUME n = req[q].since, NEW f \in {"status", "reporter", "text"}, req[q].patch[f] = None
          PROVE  row'[f] = trail[n].row[f]
      <4>1. req[q].row = trail[n].row /\ row' = Merge(req[q].patch, req[q].row)
          BY <1>2, <3>1, SaveShape
      <4> QED BY <3>1, <4>1 DEF Merge
    <3>2. req[q].patch \in Patches
        BY DEF Inv, TypeOK
    <3>3. DOMAIN req[q].patch = {"status", "reporter", "text"}
        BY <3>2 DEF Patches
    <3>4. ASSUME NEW i \in DOMAIN trail', i > 1, ~trail'[i].stale, NEW f \in DOMAIN trail'[i].patch,
                 trail'[i].patch[f] = None
          PROVE  trail'[i].row[f] = trail'[i - 1].row[f]
      <4>1. CASE i \in DOMAIN trail
        <5>1. i - 1 \in DOMAIN trail
            BY <2>1, <3>4, <4>1
        <5>2. trail'[i] = trail[i] /\ trail'[i - 1] = trail[i - 1]
            BY <2>3, <4>1, <5>1
        <5> QED BY <3>4, <4>1, <5>1, <5>2 DEF Inv, LostUpdateNeedsOverlap
      <4>2. CASE i = n + 1
        <5>1. /\ trail'[i].row = row' /\ trail'[i].patch = req[q].patch /\ n = req[q].since
              /\ i - 1 = n /\ trail'[n] = trail[n]
            BY <1>2, <2>1, <2>3, <3>4, <4>2, SaveShape
        <5> QED BY <3>1, <3>3, <3>4, <5>1
      <4> QED BY <1>2, <4>1, <4>2, SaveShape
    <3> QED BY <3>4 DEF LostUpdateNeedsOverlap
  <2> QED BY <2>4, <2>6, <2>7, <2>8, <2>9 DEF Inv
<1> QED BY <1>1, <1>2 DEF Save

-----------------------------------------------------------------------------
(* The steps of the goroutines that notify. *)

\* One goroutine goes on, and perhaps sends its mail and records that.
LEMMA OneTurn ==
    ASSUME Inv, NEW i \in DOMAIN notes, NEW n \in Notice, notes' = [notes EXCEPT ![i] = n],
           n.kind = notes[i].kind, n.old = notes[i].old, n.new = notes[i].new,
           (n.kind = "status" /\ n.to # None) => PassageTo(n),
           n.at = "mail" => n.to # None, n.at = "store" => n.kind = "creation",
           notes[i].to # None => n.to # None,
           inbox' = inbox \/ (inbox' = Append(inbox, i) /\ n.to # None), comms' \subseteq comms \cup {i},
           UNCHANGED <<row, history, req, trail>>
    PROVE  Inv'
<1>1. /\ notes \in Seq(Notice) /\ notes' \in Seq(Notice) /\ Len(notes') = Len(notes) /\ DOMAIN notes' = DOMAIN notes
      /\ notes'[i] = n /\ \A j \in DOMAIN notes \ {i} : notes'[j] = notes[j]
    BY DEF Inv, TypeOK
<1>2. inbox \in Seq(DOMAIN notes) /\ \A j \in DOMAIN inbox : inbox[j] \in DOMAIN notes
    BY DEF Inv, TypeOK
<1>3. inbox' \in Seq(DOMAIN notes') /\ \A j \in DOMAIN inbox' : notes'[inbox'[j]].to # None
  <2>1. \A j \in DOMAIN inbox : notes'[inbox[j]].to # None
      BY <1>1, <1>2 DEF Inv, Told
  <2>2. CASE inbox' = inbox
      BY <1>1, <1>2, <2>1, <2>2
  <2>3. CASE inbox' = Append(inbox, i) /\ n.to # None
      BY <1>1, <1>2, <2>1, <2>3, Appended
  <2> QED BY <2>2, <2>3
<1>4. TypeOK'
    BY <1>1, <1>3 DEF Inv, TypeOK
<1>5. Stored'
  <2>1. row = None => FALSE
      BY <1>1 DEF Inv, TypeOK, Stored
  <2> QED BY <2>1 DEF Inv, Stored
<1>6. ASSUME NEW j \in DOMAIN notes'
      PROVE  (/\ notes[j].kind = "status" => Passage(notes[j])
              /\ (notes[j].kind = "status" /\ notes[j].to # None) => PassageTo(notes[j])
              /\ notes[j].at = "mail" => notes[j].to # None
              /\ notes[j].at = "store" => notes[j].kind = "creation")'
  <2>1. CASE j = i
      BY <1>1, <2>1 DEF Inv, Told, Passage, PassageTo
  <2>2. CASE j # i
      BY <1>1, <2>2 DEF Inv, Told, Passage, PassageTo
  <2> QED BY <2>1, <2>2
<1>7. Told'
    BY <1>3, <1>6 DEF Told
<1>8. Working' /\ LostUpdateNeedsOverlap'
    BY DEF Inv, Working, AskedAs, HasRead, LostUpdateNeedsOverlap
<1> QED BY <1>4, <1>5, <1>7, <1>8 DEF Inv

\* Turn changes the place of a goroutine only.
LEMMA TurnShape ==
    ASSUME TypeOK, NEW i \in DOMAIN notes, NEW l \in {"read", "mail", "store", "done"}, Turn(i, l)
    PROVE  \E n \in Notice : /\ notes' = [notes EXCEPT ![i] = n] /\ n.at = l
                             /\ n.kind = notes[i].kind /\ n.old = notes[i].old
                             /\ n.new = notes[i].new /\ n.to = notes[i].to
<1> DEFINE n == [notes[i] EXCEPT !.at = l]
<1>1. notes[i] \in Notice
    BY DEF TypeOK
<1>2. /\ n \in Notice /\ n.at = l /\ n.kind = notes[i].kind /\ n.old = notes[i].old
      /\ n.new = notes[i].new /\ n.to = notes[i].to
    BY <1>1 DEF Notice
<1>3. notes' = [notes EXCEPT ![i] = n]
    BY DEF Turn
<1> HIDE DEF n
<1> QED BY <1>2, <1>3

LEMMA StepAddress ==
    ASSUME Inv, NEW i \in DOMAIN notes, Address(i)
    PROVE  Inv'
<1>1. UNCHANGED <<row, history, comms, inbox, req, trail>> /\ row # None
    BY DEF Address, Inv, TypeOK, Stored
<1>2. CASE Turn(i, "done") \/ (Turn(i, "store") /\ notes[i].kind = "creation")
  <2>1. PICK n \in Notice : /\ notes' = [notes EXCEPT ![i] = n]
                            /\ n.at = "done" \/ (n.at = "store" /\ n.kind = "creation")
                            /\ n.kind = notes[i].kind /\ n.old = notes[i].old
                            /\ n.new = notes[i].new /\ n.to = notes[i].to
      BY <1>2, TurnShape DEF Inv
  <2>2. (n.kind = "status" /\ n.to # None) => PassageTo(n)
    <3>1. (n.kind = "status" /\ n.to # None) => PassageTo(notes[i])
        BY <2>1 DEF Inv, Told
    <3> QED BY <2>1, <3>1 DEF PassageTo
  <2> QED BY <1>1, <2>1, <2>2, OneTurn
<1>3. CASE notes' = [notes EXCEPT ![i].at = "mail", ![i].to = row.reporter]
  <2> DEFINE n == [notes[i] EXCEPT !.at = "mail", !.to = row.reporter]
  <2>1. notes[i] \in Notice /\ row.reporter \in Reporters /\ row.reporter # None
      BY <1>1, CaseAssumption DEF Inv, TypeOK, Row
  <2>2. /\ n \in Notice /\ n.at = "mail" /\ n.kind = notes[i].kind /\ n.old = notes[i].old
        /\ n.new = notes[i].new /\ n.to = row.reporter
      BY <2>1 DEF Notice
  <2>3. notes' = [notes EXCEPT ![i] = n]
      BY <1>3
  <2> HIDE DEF n
  <2>4. (n.kind = "status" /\ n.to # None) => PassageTo(n)
    <3> SUFFICES ASSUME n.kind = "status" PROVE PassageTo(n)
        OBVIOUS
    <3>1. PICK a, b \in DOMAIN trail : a < b /\ trail[a].row.status = n.old /\ trail[b].row.status = n.new
        BY <2>2 DEF Inv, Told, Passage
    <3>2. Len(trail) \in DOMAIN trail /\ b <= Len(trail) /\ trail[Len(trail)].row = row
        BY <1>1, <3>1, LastRow DEF Inv
    <3> QED BY <2>2, <3>1, <3>2 DEF PassageTo
  <2> QED BY <1>1, <2>1, <2>2, <2>3, <2>4, OneTurn
<1> QED BY <1>2, <1>3 DEF Address

LEMMA StepSend ==
    ASSUME Inv, NEW i \in DOMAIN notes, Mail(i) \/ Store(i)
    PROVE  Inv'
<1>1. /\ UNCHANGED <<row, history, req, trail>> /\ Turn(i, "done") /\ comms' \subseteq comms \cup {i}
      /\ inbox' = inbox \/ (inbox' = Append(inbox, i) /\ notes[i].at = "mail")
    BY DEF Mail, Store, Record
<1>2. PICK n \in Notice : /\ notes' = [notes EXCEPT ![i] = n] /\ n.at = "done"
                          /\ n.kind = notes[i].kind /\ n.old = notes[i].old
                          /\ n.new = notes[i].new /\ n.to = notes[i].to
    BY <1>1, TurnShape DEF Inv
<1>3. (n.kind = "status" /\ n.to # None) => PassageTo(n)
  <2>1. (n.kind = "status" /\ n.to # None) => PassageTo(notes[i])
      BY <1>2 DEF Inv, Told
  <2> QED BY <1>2, <2>1 DEF PassageTo
<1>4. inbox' = inbox \/ (inbox' = Append(inbox, i) /\ n.to # None)
    BY <1>1, <1>2 DEF Inv, Told
<1> QED BY <1>1, <1>2, <1>3, <1>4, OneTurn

LEMMA StepCrash ==
    ASSUME Inv, Crash
    PROVE  Inv'
<1>1. UNCHANGED <<row, history, comms, inbox, trail>>
    BY DEF Crash
<1>2. /\ req' \in [Requests -> Request]
      /\ \A q \in Requests : req'[q].at \in {"idle", "done"} /\ req'[q].kind = "edit"
  <2>1. Idle \in Request /\ [Idle EXCEPT !.at = "done"] \in Request
      BY DEF Idle, Only, Request, Locations, Kinds, Patches
  <2>2. Idle.at = "idle" /\ Idle.kind = "edit"
        /\ [Idle EXCEPT !.at = "done"].at = "done" /\ [Idle EXCEPT !.at = "done"].kind = "edit"
      BY DEF Idle
  <2> QED BY <2>1, <2>2 DEF Crash
<1>3. /\ notes' \in Seq(Notice) /\ DOMAIN notes' = DOMAIN notes
      /\ \A i \in DOMAIN notes : /\ notes'[i].at = "done" /\ notes'[i].kind = notes[i].kind
                                 /\ notes'[i].old = notes[i].old /\ notes'[i].new = notes[i].new
                                 /\ notes'[i].to = notes[i].to
  <2>1. \A n \in Notice : /\ [n EXCEPT !.at = "done"] \in Notice /\ [n EXCEPT !.at = "done"].at = "done"
                          /\ [n EXCEPT !.at = "done"].kind = n.kind /\ [n EXCEPT !.at = "done"].old = n.old
                          /\ [n EXCEPT !.at = "done"].new = n.new /\ [n EXCEPT !.at = "done"].to = n.to
      BY DEF Notice
  <2>2. notes \in Seq(Notice) /\ \A i \in DOMAIN notes : notes[i] \in Notice
      BY DEF Inv, TypeOK
  <2>3. notes' = [i \in DOMAIN notes |-> [notes[i] EXCEPT !.at = "done"]]
      BY DEF Crash
  <2>4. DOMAIN notes = 1..Len(notes) /\ Len(notes) \in Nat
      BY <2>2
  <2>5. /\ notes' \in [1..Len(notes) -> Notice] /\ DOMAIN notes' = DOMAIN notes
        /\ \A i \in DOMAIN notes : notes'[i] = [notes[i] EXCEPT !.at = "done"]
      BY <2>1, <2>2, <2>3, <2>4
  <2>6. notes' \in Seq(Notice)
      BY <2>4, <2>5
  <2>7. ASSUME NEW i \in DOMAIN notes
        PROVE  /\ notes'[i].at = "done" /\ notes'[i].kind = notes[i].kind
               /\ notes'[i].old = notes[i].old /\ notes'[i].new = notes[i].new
               /\ notes'[i].to = notes[i].to
    <3>1. notes[i] \in Notice /\ notes'[i] = [notes[i] EXCEPT !.at = "done"]
        BY <2>2, <2>5
    <3> QED BY <3>1 DEF Notice
  <2> QED BY <2>5, <2>6, <2>7
<1>4. TypeOK'
    BY <1>1, <1>2, <1>3 DEF Inv, TypeOK, Request
<1>5. Stored'
  <2>1. row = None => notes' = <<>>
      BY <1>3 DEF Inv, Stored
  <2> QED BY <1>1, <2>1 DEF Inv, Stored
<1>6. Told'
  <2>1. \A j \in DOMAIN inbox : inbox[j] \in DOMAIN notes
      BY DEF Inv, TypeOK
  <2> QED BY <1>1, <1>3, <2>1 DEF Inv, Told, Passage, PassageTo
<1>7. Working' /\ LostUpdateNeedsOverlap'
    BY <1>1, <1>2 DEF Inv, Working, AskedAs, HasRead, LostUpdateNeedsOverlap
<1> QED BY <1>4, <1>5, <1>6, <1>7 DEF Inv

LEMMA StepInv == Inv /\ [Next]_vars => Inv'
<1> SUFFICES ASSUME Inv, [Next]_vars PROVE Inv'
    OBVIOUS
<1>1. CASE UNCHANGED vars
    BY <1>1 DEF vars, Inv, TypeOK, Stored, Working, AskedAs, HasRead, Told, Passage, PassageTo, LostUpdateNeedsOverlap
<1>2. ASSUME NEW q \in Requests, Ask(q) \/ Serve(q) PROVE Inv'
    BY <1>2, StepAsk, StepCreate, StepLook, StepRead, StepEnter, StepSave, StepReread DEF Serve
<1>3. ASSUME NEW i \in DOMAIN notes, Notify(i) PROVE Inv'
    BY <1>3, StepAddress, StepSend DEF Notify
<1> QED BY <1>1, <1>2, <1>3, StepCrash DEF Next

\* Every step of the handlers and of the goroutines that notify preserves the invariant: what a
\* request holds is a row that the case had, and what a note tells is a passage it went through.
THEOREM InvCorrect == Spec => []Inv
    BY InitInv, StepInv, PTL DEF Spec

\* The case, the tables, the requests and the goroutines keep their types, and what is stored is valid.
THEOREM TypeCorrect == Spec => []TypeOK
    BY InvCorrect, PTL DEF Inv

\* A save changes a field it was not asked to change only if another request saved the case
\* between the read of this one and its save.
THEOREM LostUpdateCorrect == Spec => []LostUpdateNeedsOverlap
    BY InvCorrect, PTL DEF Inv

\* A mail about a change tells a change that the case went through, in that order, and goes to
\* the reporter the case had then or later.
THEOREM NoticeCorrect == Spec => []NoticeTellsPassage
<1>1. Inv => NoticeTellsPassage
  <2> SUFFICES ASSUME Inv, NEW i \in DOMAIN inbox, notes[inbox[i]].kind = "status"
               PROVE  PassageTo(notes[inbox[i]])
      BY DEF NoticeTellsPassage, PassageTo
  <2>1. inbox[i] \in DOMAIN notes
      BY DEF Inv, TypeOK
  <2> QED BY <2>1 DEF Inv, Told
<1> QED BY <1>1, InvCorrect, PTL

-----------------------------------------------------------------------------
(* The status history. *)

\* A failure is remembered.
LEMMA FaultsGrow ==
    ASSUME [Next]_vars
    PROVE  faults \subseteq faults'
<1>1. ASSUME NEW q \in Requests, Ask(q) \/ Serve(q) PROVE faults \subseteq faults'
    BY <1>1 DEF Ask, Serve, Create, Look, Read, Enter, Save, Reread, Sound, Fault
<1>2. ASSUME NEW i \in DOMAIN notes, Notify(i) PROVE faults \subseteq faults'
    BY <1>2 DEF Notify, Address, Mail, Store, Record, Sound, Fault
<1> QED BY <1>1, <1>2 DEF Next, Crash, Fault, vars

\* A step that no saving request takes and that leaves case and history alone.
LEMMA HistoryKept ==
    ASSUME HistoryInv, UNCHANGED <<row, history, trail>>, faults \subseteq faults',
           \A q \in Requests : Saving(q)' <=> Saving(q),
           \A q \in Requests : Saving(q) => req'[q].since = req[q].since /\ req'[q].patch = req[q].patch
    PROVE  HistoryInv'
<1> SUFFICES ASSUME row # None, Clean' PROVE HistoryInv'
    BY DEF HistoryInv
<1>1. Clean
    BY DEF Clean, ByEdit
<1>2. Doomed => Doomed'
    BY DEF Doomed
<1>3. (Chain => Chain') /\ \A s : LeadsTo(s) => LeadsTo(s)'
    BY DEF Chain, LeadsTo
<1>4. CASE Doomed
    BY <1>2, <1>4 DEF HistoryInv
<1>5. CASE Chain /\ (\A q \in Requests : ~Saving(q)) /\ LeadsTo(row.status)
  <2>1. Chain' /\ (\A q \in Requests : ~Saving(q)') /\ LeadsTo(row.status)'
      BY <1>3, <1>5 DEF LeadsTo
  <2> QED BY <2>1 DEF HistoryInv
<1>6. ASSUME Chain, NEW q \in Requests, Saving(q), LeadsTo(req[q].patch.status), history # <<>> PROVE HistoryInv'
  <2>1. Chain' /\ Saving(q)' /\ LeadsTo(req[q].patch.status)' /\ history' # <<>>
      BY <1>3, <1>6 DEF LeadsTo
  <2> QED BY <2>1 DEF HistoryInv
<1> QED BY <1>1, <1>4, <1>5, <1>6 DEF HistoryInv

\* The steps of a request that is neither before nor after them about to save.
LEMMA NotSaving ==
    ASSUME TypeOK, NEW q \in Requests, Ask(q) \/ Look(q) \/ Read(q) \/ Reread(q)
    PROVE  Others(q) /\ ~Saving(q) /\ ~Saving(q)' /\ UNCHANGED <<row, history, trail>>
<1> USE DEF TypeOK, Others, Saving
<1>1. CASE Ask(q)
  <2>1. Idle.at = "idle"
      BY DEF Idle
  <2>2. PICK a \in Asks[q] :
          req' = [req EXCEPT ![q] = [Idle EXCEPT !.kind = a.kind, !.patch = a.patch,
                  !.at = CASE a.kind = "create" -> "insert" [] a.kind = "status" -> "look" [] OTHER -> "read"]]
      BY <1>1 DEF Ask
  <2>3. req'[q].at \in {"insert", "look", "read"}
      BY <2>2 DEF Idle
  <2> QED BY <1>1, <2>2, <2>3 DEF Ask
<1>2. CASE Look(q)
    BY <1>2, FinishShape DEF Look
<1>3. CASE Read(q)
  <2>1. ~Saving(q) /\ UNCHANGED <<row, history, trail>>
      BY <1>3 DEF Read
  <2>2. CASE Finish(q)
      BY <2>1, <2>2, FinishShape
  <2>3. CASE Move(q, "reread")
      BY <2>1, <2>3, MoveShape DEF Locations
  <2>4. CASE req' = [req EXCEPT ![q].row = row, ![q].since = Len(trail),
                                ![q].at = IF req[q].kind = "edit" THEN "save" ELSE "enter"]
      BY <2>1, <2>4
  <2> QED BY <1>3, <2>2, <2>3, <2>4 DEF Read
<1>4. CASE Reread(q)
    BY <1>4, FinishShape DEF Reread
<1> QED BY <1>1, <1>2, <1>3, <1>4

\* The entry of a request leads from the status of the case to the one the request asks for.
LEMMA HistoryEnter ==
    ASSUME Inv, HistoryInv, NEW q \in Requests, Enter(q)
    PROVE  HistoryInv'
<1>1. faults \subseteq faults' /\ (Sound \/ "history" \in faults')
    BY DEF Enter, Sound, Fault
<1>2. CASE "history" \in faults'
    BY <1>2 DEF HistoryInv, Clean
<1>3. CASE history' = Append(history, [old |-> req[q].row.status, new |-> req[q].patch.status])
  <2> SUFFICES ASSUME row # None, Clean', ~Doomed' PROVE Chain' /\ Saving(q)' /\ LeadsTo(req[q].patch.status)' /\ history' # <<>>
      BY DEF HistoryInv, Enter
  <2>1. /\ UNCHANGED <<row, trail>> /\ req[q].at = "enter" /\ req[q].kind # "edit"
        /\ Others(q) /\ Same(q) /\ req'[q].at = "save"
      BY MoveShape DEF Enter, Inv, Working, AskedAs, Locations
  <2>2. Saving(q)' /\ \A p \in Requests \ {q} : Saving(p) => Saving(p)'
      BY <2>1 DEF Saving, Same, Others
  <2>3. req[q].since = Len(trail) /\ \A p \in Requests : ~Saving(p)
    <3>1. \A p \in Requests \ {q} : ~Saving(p)
        BY <2>2 DEF Doomed
    <3>2. ~Saving(q)
        BY <2>1 DEF Saving
    <3> QED BY <2>1, <2>2, <3>1, <3>2 DEF Doomed, Same
  <2>4. req[q].row = row
      BY <2>1, <2>3, LastRow DEF Inv, Working, HasRead
  <2>5. Clean
      BY <1>1, <2>1 DEF Clean, ByEdit
  <2>6. Chain /\ LeadsTo(row.status)
      BY <2>3, <2>5 DEF HistoryInv, Doomed
  <2>7. history \in Seq([old : Statuses, new : Statuses])
      BY DEF Inv, TypeOK
  <2> DEFINE e == [old |-> req[q].row.status, new |-> req[q].patch.status]
  <2>8. e.old = row.status /\ e.new = req[q].patch.status /\ e.new = req'[q].patch.status
      BY <2>1, <2>4 DEF Same
  <2>9. e \in [old : Statuses, new : Statuses]
    <3>1. req[q].patch \in Patches /\ req[q].patch.status # None
        BY <2>1 DEF Inv, TypeOK, Working, AskedAs, Kinds
    <3>2. row.status \in Statuses /\ req[q].patch.status \in Statuses
        BY <3>1, LastRow DEF Inv, Patches
    <3> QED BY <2>4, <3>2
  <2> HIDE DEF e
  <2>10. /\ Len(history') = Len(history) + 1 /\ DOMAIN history' = DOMAIN history \cup {Len(history) + 1}
         /\ \A i \in DOMAIN history : history'[i] = history[i]
         /\ history'[Len(history) + 1] = e /\ history' # <<>>
      BY <1>3, <2>7, <2>9, Appended DEF e
  <2>11. Len(history) \in Nat /\ DOMAIN history = 1..Len(history) /\ (history = <<>> <=> Len(history) = 0)
      BY <2>7
  <2>12. Chain'
    <3> SUFFICES ASSUME NEW i \in DOMAIN history' PROVE history'[i].old = IF i = 1 THEN New ELSE history'[i - 1].new
        BY DEF Chain
    <3>1. CASE i \in DOMAIN history
      <4>1. i # 1 => i - 1 \in DOMAIN history
          BY <2>11, <3>1
      <4> QED BY <2>6, <2>10, <3>1, <4>1 DEF Chain
    <3>2. CASE i = Len(history) + 1
      <4>1. i # 1 => i - 1 = Len(history) /\ i - 1 \in DOMAIN history /\ history # <<>>
          BY <2>11, <3>2
      <4>2. i = 1 => history = <<>>
          BY <2>11, <3>2
      <4> QED BY <2>6, <2>8, <2>10, <3>2, <4>1, <4>2 DEF LeadsTo
    <3> QED BY <2>10, <3>1, <3>2
  <2>13. LeadsTo(req[q].patch.status)'
      BY <2>8, <2>10 DEF LeadsTo
  <2> QED BY <2>2, <2>10, <2>12, <2>13
<1>4. CASE UNCHANGED history /\ "history" \in faults'
    BY <1>2, <1>4
<1> QED BY <1>1, <1>3, <1>4 DEF Enter, Fault

\* A save makes every other request that is about to save late; without another one it takes
\* the case where the history leads.
LEMMA HistorySave ==
    ASSUME Inv, HistoryInv, NEW q \in Requests, Save(q)
    PROVE  HistoryInv'
<1>1. req[q].at = "save" /\ history' = history
    BY DEF Save
<1>2. CASE ~Finish(q) \/ ~UNCHANGED trail
  <2> SUFFICES ASSUME Clean', ~Doomed'
               PROVE  Chain' /\ (\A p \in Requests : ~Saving(p)') /\ LeadsTo(row.status)'
      BY DEF HistoryInv
  <2> DEFINE n == Len(trail)
  <2>1. /\ row # None /\ n \in Nat /\ n \in DOMAIN trail /\ DOMAIN trail = 1..n /\ trail[n].row = row
        /\ Len(trail') = n + 1 /\ faults' = faults
      BY <1>2, SaveShape, LastRow DEF Inv
  <2>2. Others(q) /\ ~Saving(q)'
    <3>1. CASE Finish(q)
        BY <3>1, FinishShape DEF Inv, Saving
    <3>2. CASE Move(q, "reread")
        BY <3>2, MoveShape DEF Inv, Saving, Locations
    <3> QED BY <1>2, <3>1, <3>2, SaveShape
  <2>3. \A p \in Requests \ {q} : ~Saving(p)
    <3> SUFFICES ASSUME NEW p \in Requests \ {q}, Saving(p) PROVE FALSE
        OBVIOUS
    <3>1. Saving(p)' /\ req'[p].since = req[p].since
        BY <2>2 DEF Others, Saving
    <3>2. req[p].since \in 1..n
        BY <2>1 DEF Saving, Inv, Working, HasRead
    <3> QED BY <2>1, <3>1, <3>2 DEF Doomed
  <2>4. req[q].since = n /\ req[q].row = row /\ ~(req[q].kind = "edit" /\ req[q].patch.status # None)
    <3>1. n + 1 \in DOMAIN trail'
        BY <1>2, SaveShape
    <3>2. ~trail'[n + 1].stale /\ ~(trail'[n + 1].by = "edit" /\ trail'[n + 1].patch.status # None)
        BY <3>1 DEF Clean, ByEdit
    <3> QED BY <1>2, <2>1, <3>2, SaveShape
  <2>5. Clean
    <3>1. \A i \in DOMAIN trail : i \in DOMAIN trail' /\ trail'[i] = trail[i]
        BY <1>2, SaveShape
    <3> QED BY <2>1, <3>1 DEF Clean, ByEdit
  <2>6. ~Doomed
      BY <2>3, <2>4 DEF Doomed
  <2>7. Chain /\ LeadsTo(row'.status)
    <3>1. row' = Merge(req[q].patch, req[q].row)
        BY <1>2, SaveShape
    <3>2. CASE req[q].kind = "edit"
      <4>1. ~Saving(q)
          BY <3>2 DEF Saving
      <4>2. row'.status = row.status
          BY <2>4, <3>1, <3>2 DEF Merge
      <4> QED BY <2>1, <2>3, <2>5, <2>6, <4>1, <4>2 DEF HistoryInv
    <3>3. CASE req[q].kind # "edit"
      <4>1. Saving(q)
          BY <1>1, <3>3 DEF Saving
      <4>2. row'.status = req[q].patch.status
        <5>1. req[q].patch.status # None
            BY <1>2, <3>3, SaveShape DEF Inv, Working, AskedAs
        <5> QED BY <3>1, <5>1 DEF Merge
      <4> QED BY <2>1, <2>3, <2>5, <2>6, <4>1, <4>2 DEF HistoryInv
    <3> QED BY <3>2, <3>3
  <2>8. \A p \in Requests : ~Saving(p)'
      BY <2>2, <2>3 DEF Saving, Others
  <2> QED BY <1>1, <2>7, <2>8 DEF Chain, LeadsTo
<1>3. CASE Finish(q) /\ UNCHANGED trail /\ ~Valid(Merge(req[q].patch, req[q].row)) /\ UNCHANGED <<row, faults>>
  <2>1. ~Saving(q)
    <3> SUFFICES ASSUME Saving(q) PROVE FALSE
        OBVIOUS
    <3>1. /\ req[q].kind \in {"status", "resolve"} /\ req[q].since \in DOMAIN trail
          /\ req[q].row = trail[req[q].since].row /\ req[q].row.text # Blank
        BY <1>1 DEF Saving, Inv, TypeOK, Stored, Working, AskedAs, HasRead, Kinds
    <3>2. req[q].patch.text = None
        BY <3>1 DEF Inv, Working, AskedAs
    <3> QED BY <1>3, <3>1, <3>2 DEF Valid, Merge
  <2>2. Others(q) /\ ~Saving(q)'
      BY <1>3, FinishShape DEF Inv, Saving
  <2> QED BY <1>1, <1>3, <2>1, <2>2, HistoryKept DEF Others, Saving
<1>4. CASE "save" \in faults'
    BY <1>4 DEF HistoryInv, Clean
<1>5. UNCHANGED faults \/ "save" \in faults'
    BY DEF Save, Sound, Fault
<1>6. CASE ~(~Finish(q) \/ ~UNCHANGED trail) /\ UNCHANGED faults
  <2>1. CASE ~Valid(Merge(req[q].patch, req[q].row))
    <3>1. UNCHANGED row
        BY <2>1 DEF Save
    <3> QED BY <1>3, <1>6, <2>1, <3>1
  <2>2. CASE Valid(Merge(req[q].patch, req[q].row))
    <3>1. trail' = Append(trail, [row |-> row', by |-> req[q].kind, patch |-> req[q].patch,
                                  stale |-> Len(trail) # req[q].since, alone |-> Alone(q)])
          \/ "save" \in faults'
        BY <2>2 DEF Save, Fault
    <3>2. trail' # trail \/ "save" \in faults'
        BY <3>1 DEF Inv, TypeOK
    <3> QED BY <1>4, <1>6, <3>2
  <2> QED BY <2>1, <2>2
<1> QED BY <1>2, <1>4, <1>5, <1>6

LEMMA HistoryCreate ==
    ASSUME Inv, HistoryInv, NEW q \in Requests, Create(q)
    PROVE  HistoryInv'
<1>1. row = None /\ req[q].at = "insert" /\ req[q].patch.status = New
    BY DEF Create, Inv, Working, AskedAs
<1>2. history = <<>> /\ history' = <<>>
    BY <1>1 DEF Create, Inv, Stored
<1>3. CASE row' = row
    BY <1>1, <1>3 DEF HistoryInv
<1>4. CASE row' = req[q].patch /\ Finish(q)
  <2>1. \A p \in Requests : req[p].at # "save"
      BY <1>1 DEF Inv, Working, AskedAs
  <2>2. \A p \in Requests : ~Saving(p)'
      BY <1>4, <2>1, FinishShape DEF Inv, Others, Saving
  <2>3. Chain' /\ LeadsTo(row.status)'
      BY <1>1, <1>2, <1>4 DEF Chain, LeadsTo
  <2> QED BY <2>2, <2>3 DEF HistoryInv
<1> QED BY <1>3, <1>4 DEF Create

LEMMA StepHistory == Inv /\ HistoryInv /\ [Next]_vars => HistoryInv'
<1> SUFFICES ASSUME Inv, HistoryInv, [Next]_vars PROVE HistoryInv'
    OBVIOUS
<1>1. faults \subseteq faults'
    BY FaultsGrow
<1>2. ASSUME UNCHANGED <<row, history, trail, req>> PROVE HistoryInv'
    BY <1>1, <1>2, HistoryKept DEF Saving
<1>3. ASSUME NEW q \in Requests, Ask(q) \/ Look(q) \/ Read(q) \/ Reread(q) PROVE HistoryInv'
  <2>1. Others(q) /\ ~Saving(q) /\ ~Saving(q)' /\ UNCHANGED <<row, history, trail>>
      BY <1>3, NotSaving DEF Inv
  <2> QED BY <1>1, <2>1, HistoryKept DEF Others, Saving
<1>4. ASSUME NEW q \in Requests, Ask(q) \/ Serve(q) PROVE HistoryInv'
    BY <1>3, <1>4, HistoryCreate, HistoryEnter, HistorySave DEF Serve
<1>5. ASSUME NEW i \in DOMAIN notes, Notify(i) PROVE HistoryInv'
    BY <1>2, <1>5 DEF Notify, Address, Mail, Store
<1>6. CASE Crash
  <2>1. "crash" \in faults'
      BY <1>6 DEF Crash, Fault
  <2> QED BY <2>1 DEF HistoryInv, Clean
<1> QED BY <1>2, <1>4, <1>5, <1>6 DEF Next, vars

\* As long as no edit sets the status, no save is stale and no call of UpdateStatus is cut short,
\* the history is a chain from the first status to the one of the case whenever nothing runs.
THEOREM HistoryCorrect == Spec => []HistoryTellsStatus
<1>1. Init => HistoryInv
    BY DEF Init, HistoryInv
<1>2. Inv /\ HistoryInv => HistoryTellsStatus
  <2> SUFFICES ASSUME Inv, HistoryInv, row # None, Quiet, Clean
               PROVE  Chain /\ LeadsTo(row.status)
      BY DEF HistoryTellsStatus, Clean, Chain, LeadsTo
  <2>1. \A q \in Requests : ~Saving(q)
      BY DEF Quiet, Saving
  <2> QED BY <2>1 DEF HistoryInv, Doomed
<1> QED BY <1>1, <1>2, StepHistory, InvCorrect, PTL DEF Spec

-----------------------------------------------------------------------------
(* The last mail. *)

\* The last mail tells of a change, and of another one than the last.
Behind == /\ inbox # <<>> /\ notes[inbox[Len(inbox)]].kind = "status"
          /\ notes[inbox[Len(inbox)]].new # row.status
Running == \E i \in DOMAIN notes : notes[i].at # "done" /\ notes[i].kind = "status"
Current == \A i \in DOMAIN notes : (notes[i].at # "done" /\ notes[i].kind = "status") => notes[i].new = row.status
Fresh == \A q \in Requests : req[q].at \in {"enter", "save"} => req[q].since = Len(trail)

LEMMA MailParts == MailInv <=> (OneByOne => Fresh /\ Current /\ (Behind => Running))
    BY DEF MailInv, Behind, Running, Current, Fresh

\* The mails are those of goroutines, and the last one is there.
LEMMA LastMail ==
    ASSUME TypeOK, inbox # <<>>
    PROVE  inbox[Len(inbox)] \in DOMAIN notes
<1>1. inbox \in Seq(DOMAIN notes) /\ Len(inbox) \in 1..Len(inbox)
    BY EmptySeq, LenProperties DEF TypeOK
<1> QED BY <1>1, ElementOfSeq

\* A request other than Save goes on.
LEMMA MailRequest ==
    ASSUME Inv, MailInv, NEW q \in Requests, Ask(q) \/ Look(q) \/ Read(q) \/ Enter(q)
    PROVE  MailInv'
<1>1. UNCHANGED <<row, trail, notes, inbox>> /\ faults \subseteq faults'
    BY DEF Ask, Look, Read, Enter, Sound, Fault
<1>2. Others(q) /\ (req'[q].at \in {"enter", "save"} => req'[q].since = Len(trail)
                                             \/ (req'[q].since = req[q].since /\ req[q].at = "enter"))
  <2>1. CASE Enter(q)
    <3>1. req[q].at = "enter" /\ Move(q, "save")
        BY <2>1 DEF Enter
    <3>2. Others(q) /\ Same(q)
        BY <3>1, MoveShape DEF Inv, Locations
    <3> QED BY <3>1, <3>2 DEF Same
  <2>2. CASE Look(q)
      BY <2>2, FinishShape DEF Look, Inv, TypeOK, Others
  <2>3. CASE Read(q)
    <3>1. CASE Finish(q)
        BY <3>1, FinishShape DEF Inv
    <3>2. CASE Move(q, "reread")
        BY <3>2, MoveShape DEF Inv, Locations
    <3>3. CASE req' = [req EXCEPT ![q].row = row, ![q].since = Len(trail),
                                  ![q].at = IF req[q].kind = "edit" THEN "save" ELSE "enter"]
        BY <3>3 DEF Inv, TypeOK, Others
    <3> QED BY <2>3, <3>1, <3>2, <3>3 DEF Read
  <2>4. CASE Ask(q)
    <3>1. PICK a \in Asks[q] :
            req' = [req EXCEPT ![q] = [Idle EXCEPT !.kind = a.kind, !.patch = a.patch,
                    !.at = CASE a.kind = "create" -> "insert" [] a.kind = "status" -> "look" [] OTHER -> "read"]]
        BY <2>4 DEF Ask
    <3>2. Others(q) /\ req'[q].at \in {"insert", "look", "read"}
        BY <3>1 DEF Inv, TypeOK, Idle, Others
    <3> QED BY <3>2
  <2> QED BY <2>1, <2>2, <2>3, <2>4
<1> SUFFICES ASSUME OneByOne' PROVE Fresh' /\ Current' /\ (Behind => Running)'
    BY MailParts DEF MailInv, Behind, Running, Current, Fresh
<1>3. OneByOne
    BY <1>1 DEF OneByOne, ByEdit
<1>4. Fresh /\ Current /\ (Behind => Running)
    BY <1>3, MailParts
<1>5. Fresh'
    BY <1>1, <1>2, <1>4 DEF Fresh, Others
<1> QED BY <1>1, <1>4, <1>5 DEF Current, Behind, Running

\* A request starts a goroutine that tells the status the case has.
LEMMA OneMore ==
    ASSUME TypeOK, TypeOK', NEW n, notes' = Append(notes, n), n \in Notice, inbox' = inbox,
           n.at = "read", n.kind = "status", n.new = row'.status,
           \A i \in DOMAIN notes : (notes[i].at # "done" /\ notes[i].kind = "status") => notes[i].new = row'.status
    PROVE  Current' /\ Running'
<1>1. /\ DOMAIN notes' = DOMAIN notes \cup {Len(notes) + 1}
      /\ \A i \in DOMAIN notes : notes'[i] = notes[i]
      /\ notes'[Len(notes) + 1] = n
    BY Appended DEF TypeOK
<1> QED BY <1>1 DEF Current, Running

LEMMA MailReread ==
    ASSUME Inv, Inv', MailInv, NEW q \in Requests, Reread(q)
    PROVE  MailInv'
<1>1. /\ UNCHANGED <<row, trail, inbox>> /\ faults \subseteq faults'
      /\ Others(q) /\ req'[q].at = "done"
    BY FinishShape DEF Reread, Sound, Fault, Inv
<1> SUFFICES ASSUME OneByOne' PROVE Fresh' /\ Current' /\ (Behind => Running)'
    BY MailParts DEF MailInv, Behind, Running, Current, Fresh
<1>2. OneByOne
    BY <1>1 DEF OneByOne, ByEdit
<1>3. Fresh /\ Current /\ (Behind => Running)
    BY <1>2, MailParts
<1>4. Fresh'
    BY <1>1, <1>3 DEF Fresh, Others
<1>5. CASE UNCHANGED notes
    BY <1>1, <1>3, <1>4, <1>5 DEF Current, Behind, Running
<1>6. CASE notes' = Append(notes, Note("status", req[q].old, row.status))
  <2>1. PICK n : n = Note("status", req[q].old, row.status)
      OBVIOUS
  <2>2. req[q].at = "reread" /\ row # None
      BY DEF Reread, Inv, Working, AskedAs
  <2>3. n \in Notice /\ n.at = "read" /\ n.kind = "status" /\ n.new = row'.status
      BY <1>1, <2>1, <2>2, LastRow DEF Inv, TypeOK, Note, Notice
  <2>4. Current' /\ Running'
      BY <1>1, <1>3, <1>6, <2>1, <2>3, OneMore DEF Inv, Current
  <2> QED BY <1>4, <2>4
<1> QED BY <1>5, <1>6 DEF Reread

LEMMA MailCreate ==
    ASSUME Inv, NEW q \in Requests, Create(q)
    PROVE  MailInv'
<1>1. /\ row = None /\ notes = <<>> /\ inbox = <<>> /\ inbox' = <<>>
      /\ \A p \in Requests : req[p].at \notin {"enter", "save"}
    BY DEF Create, Inv, Stored, Working, AskedAs
<1>2. Fresh'
  <2>1. Idle.at = "idle"
      BY DEF Idle
  <2>2. Others(q) /\ req'[q].at \in {"idle", "done"}
      BY <2>1, FinishShape DEF Create, Inv, TypeOK, Others
  <2> QED BY <1>1, <2>2 DEF Fresh, Others
<1>3. Current'
  <2>1. CASE notes' = notes
      BY <1>1, <2>1 DEF Current
  <2>2. CASE notes' = Append(notes, Note("creation", None, New))
    <3>1. Note("creation", None, New).kind = "creation"
        BY DEF Note
    <3>2. PICK n : n = Note("creation", None, New)
        OBVIOUS
    <3>3. notes' = <<n>>
        BY <1>1, <2>2, <3>2
    <3> QED BY <3>1, <3>2, <3>3 DEF Current
  <2> QED BY <2>1, <2>2 DEF Create
<1>4. ~Behind'
    BY <1>1 DEF Behind
<1> QED BY <1>2, <1>3, <1>4 DEF MailInv, Behind, Running, Current, Fresh

\* A save that finds nothing else under way works on the row of the case, and what it announces
\* is the status it saves.
LEMMA MailSave ==
    ASSUME Inv, Inv', MailInv, NEW q \in Requests, Save(q)
    PROVE  MailInv'
<1>1. req[q].at = "save" /\ inbox' = inbox /\ faults \subseteq faults'
    BY DEF Save, Sound, Fault
<1> SUFFICES ASSUME OneByOne' PROVE Fresh' /\ Current' /\ (Behind => Running)'
    BY MailParts DEF MailInv, Behind, Running, Current, Fresh
<1>2. CASE Finish(q) /\ UNCHANGED <<row, notes, trail>>
  <2>1. Others(q) /\ req'[q].at = "done"
      BY <1>2, FinishShape DEF Inv
  <2>2. OneByOne
      BY <1>1, <1>2 DEF OneByOne, ByEdit
  <2>3. Fresh /\ Current /\ (Behind => Running)
      BY <2>2, MailParts
  <2>4. Fresh'
      BY <1>2, <2>1, <2>3 DEF Fresh, Others
  <2> QED BY <1>1, <1>2, <2>3, <2>4 DEF Current, Behind, Running
<1>3. CASE ~Finish(q) \/ ~UNCHANGED trail
  <2> DEFINE n == Len(trail)
  <2>1. OneByOne /\ Alone(q) /\ ~(req[q].kind = "edit" /\ req[q].patch.status # None)
    <3>1. \A i \in DOMAIN trail : i \in DOMAIN trail' /\ trail'[i] = trail[i]
        BY <1>3, SaveShape
    <3>2. OneByOne
        BY <1>1, <3>1 DEF OneByOne, ByEdit
    <3>3. n + 1 \in DOMAIN trail'
        BY <1>3, SaveShape
    <3>4. trail'[n + 1].alone /\ ~(trail'[n + 1].by = "edit" /\ trail'[n + 1].patch.status # None)
        BY <3>3 DEF OneByOne, ByEdit
    <3> QED BY <1>3, <3>2, <3>4, SaveShape
  <2>2. Fresh /\ Current /\ (Behind => Running)
      BY <2>1, MailParts
  <2>3. ~Running /\ ~Behind
      BY <2>1, <2>2 DEF Alone, Running
  <2>4. row # None /\ trail[n].row = row /\ row \in Row /\ req[q].row = row
    <3>1. row # None /\ req[q].row = trail[req[q].since].row
        BY <1>3, SaveShape
    <3>2. req[q].since = n
        BY <1>1, <2>2 DEF Fresh
    <3> QED BY <3>1, <3>2, LastRow DEF Inv
  <2>5. Others(q) /\ req'[q].at \in {"done", "reread"}
    <3>1. CASE Finish(q)
        BY <3>1, FinishShape DEF Inv
    <3>2. CASE Move(q, "reread")
        BY <3>2, MoveShape DEF Inv, Locations
    <3> QED BY <1>3, <3>1, <3>2, SaveShape
  <2>6. Fresh'
      BY <2>1, <2>5 DEF Fresh, Others, Alone
  <2>7. row' = Merge(req[q].patch, row) /\ Announce(q)
      BY <1>3, <2>4, SaveShape
  <2>8. CASE req[q].kind = "edit"
    <3>1. row'.status = row.status /\ notes' = notes
        BY <2>1, <2>7, <2>8 DEF Merge, Announce
    <3> QED BY <1>1, <2>2, <2>3, <2>6, <3>1 DEF Current, Behind, Running
  <2>9. CASE req[q].kind # "edit"
    <3>1. req[q].patch.status # None /\ req[q].patch \in Patches
        BY <1>3, <2>9, SaveShape DEF Inv, TypeOK, Working, AskedAs
    <3>2. row'.status = req[q].patch.status
        BY <2>7, <3>1 DEF Merge
    <3>3. PICK m : m = Note("status", row.status, req[q].patch.status)
        OBVIOUS
    <3>4. notes' = Append(notes, m)
        BY <2>4, <2>7, <2>9, <3>3 DEF Announce
    <3>5. m \in Notice /\ m.at = "read" /\ m.kind = "status" /\ m.new = row'.status
        BY <2>4, <3>1, <3>2, <3>3 DEF Note, Notice, Row, Patches
    <3>6. \A i \in DOMAIN notes : notes[i].at = "done"
        BY <2>1 DEF Alone
    <3>7. Current' /\ Running'
        BY <1>1, <3>4, <3>5, <3>6, OneMore DEF Inv
    <3> QED BY <2>6, <3>7
  <2> QED BY <2>8, <2>9
<1>4. CASE ~Valid(Merge(req[q].patch, req[q].row)) \/ faults' # {}
    BY <1>2, <1>4 DEF Save, OneByOne
<1> QED BY <1>2, <1>3 DEF Save

\* A goroutine that goes on keeps what it tells, and the last one to end has sent the last mail.
LEMMA MailNotify ==
    ASSUME Inv, Inv', MailInv, NEW i \in DOMAIN notes, Notify(i)
    PROVE  MailInv'
<1>1. UNCHANGED <<row, trail, req>> /\ faults \subseteq faults'
    BY DEF Notify, Address, Mail, Store, Record, Sound, Fault
<1> SUFFICES ASSUME OneByOne' PROVE Fresh' /\ Current' /\ (Behind => Running)'
    BY MailParts DEF MailInv, Behind, Running, Current, Fresh
<1>2. OneByOne /\ faults' = {}
    BY <1>1 DEF OneByOne, ByEdit
<1>3. Fresh /\ Current /\ (Behind => Running)
    BY <1>2, MailParts
<1>4. Fresh'
    BY <1>1, <1>3 DEF Fresh
<1>5. notes \in Seq(Notice) /\ notes[i] \in Notice
    BY DEF Inv, TypeOK
<1>6. \A w : ~Fault(w)
    BY <1>2 DEF Fault
<1>7. ASSUME NEW n \in Notice, notes' = [notes EXCEPT ![i] = n], n.kind = notes[i].kind, n.new = notes[i].new
      PROVE  /\ DOMAIN notes' = DOMAIN notes /\ notes'[i] = n /\ \A j \in DOMAIN notes \ {i} : notes'[j] = notes[j]
             /\ \A j \in DOMAIN notes : notes'[j].kind = notes[j].kind /\ notes'[j].new = notes[j].new
    BY <1>5, <1>7
<1>8. CASE Address(i)
  <2> DEFINE n == [notes[i] EXCEPT !.at = "mail", !.to = row.reporter]
  <2>1. notes' = [notes EXCEPT ![i] = n] /\ inbox' = inbox /\ notes[i].at = "read"
      BY <1>6, <1>8 DEF Address
  <2>2. row # None /\ row.reporter \in Reporters
      BY <1>8 DEF Inv, TypeOK, Stored, Row
  <2>3. n \in Notice /\ n.kind = notes[i].kind /\ n.new = notes[i].new /\ n.at = "mail"
      BY <1>5, <2>2 DEF Notice
  <2> HIDE DEF n
  <2>4. /\ DOMAIN notes' = DOMAIN notes
        /\ \A j \in DOMAIN notes : /\ notes'[j].kind = notes[j].kind /\ notes'[j].new = notes[j].new
                                   /\ notes'[j].at # "done" <=> notes[j].at # "done"
      BY <1>7, <2>1, <2>3
  <2>5. Current' /\ (Running => Running')
      BY <1>1, <1>3, <2>4 DEF Current, Running
  <2>6. Behind' => Behind
      BY <1>1, <2>1, <2>4, LastMail DEF Behind, Inv
  <2> QED BY <1>3, <1>4, <2>5, <2>6
<1>9. CASE Store(i) \/ Mail(i)
  <2>1. PICK n \in Notice : /\ notes' = [notes EXCEPT ![i] = n] /\ n.at = "done"
                            /\ n.kind = notes[i].kind /\ n.new = notes[i].new
      BY <1>9, TurnShape DEF Store, Mail, Inv
  <2>2. /\ DOMAIN notes' = DOMAIN notes /\ notes'[i] = n /\ \A j \in DOMAIN notes \ {i} : notes'[j] = notes[j]
        /\ \A j \in DOMAIN notes : notes'[j].kind = notes[j].kind /\ notes'[j].new = notes[j].new
      BY <1>7, <2>1
  <2>3. Current'
      BY <1>1, <1>3, <2>1, <2>2 DEF Current
  <2>4. CASE Store(i)
    <3>1. inbox' = inbox /\ notes[i].kind = "creation"
        BY <2>4 DEF Store, Inv, Told
    <3>2. Running => Running'
        BY <2>2, <3>1 DEF Running
    <3>3. Behind' => Behind
        BY <1>1, <2>2, <3>1, LastMail DEF Behind, Inv
    <3> QED BY <1>3, <1>4, <2>3, <3>2, <3>3
  <2>5. CASE Mail(i)
    <3>1. inbox' = Append(inbox, i) /\ notes[i].at = "mail"
        BY <1>6, <2>5 DEF Mail
    <3>2. inbox \in Seq(DOMAIN notes)
        BY DEF Inv, TypeOK
    <3>3. Len(inbox') = Len(inbox) + 1 /\ inbox'[Len(inbox')] = i
        BY <3>1, <3>2, Appended
    <3>4. ~Behind'
        BY <1>1, <1>3, <2>2, <3>1, <3>3 DEF Behind, Current
    <3> QED BY <1>4, <2>3, <3>4
  <2> QED BY <1>9, <2>4, <2>5
<1> QED BY <1>8, <1>9 DEF Notify

LEMMA StepMail == Inv /\ Inv' /\ MailInv /\ [Next]_vars => MailInv'
<1> SUFFICES ASSUME Inv, Inv', MailInv, [Next]_vars PROVE MailInv'
    OBVIOUS
<1>1. CASE UNCHANGED vars
    BY <1>1 DEF vars, MailInv, OneByOne, ByEdit
<1>2. ASSUME NEW q \in Requests, Ask(q) \/ Serve(q) PROVE MailInv'
    BY <1>2, MailRequest, MailCreate, MailSave, MailReread DEF Serve
<1>3. ASSUME NEW i \in DOMAIN notes, Notify(i) PROVE MailInv'
    BY <1>3, MailNotify
<1>4. CASE Crash
    BY <1>4 DEF Crash, Fault, MailInv, OneByOne
<1> QED BY <1>1, <1>2, <1>3, <1>4 DEF Next

\* When changes come one at a time, each after the notices of the one before, the last mail the
\* reporter gets tells the status the case has.
THEOREM LastMailCorrect == Spec => []LastMailIsCurrent
<1>1. Init => MailInv
  <2>1. Idle.at = "idle"
      BY DEF Idle
  <2> QED BY <2>1 DEF Init, MailInv
<1>2. Inv /\ MailInv => LastMailIsCurrent
  <2> SUFFICES ASSUME Inv, MailInv, Quiet, OneByOne, inbox # <<>>,
                      notes[inbox[Len(inbox)]].kind = "status"
               PROVE  notes[inbox[Len(inbox)]].new = row.status
      BY DEF LastMailIsCurrent, OneByOne
  <2>1. ~Running
      BY DEF Quiet, Running
  <2> QED BY <2>1, MailParts DEF Behind
<1>3. Inv /\ Inv' /\ MailInv /\ [Next]_vars => MailInv'
    BY StepMail
<1> QED BY <1>1, <1>2, <1>3, InvCorrect, PTL DEF Spec
=============================================================================
