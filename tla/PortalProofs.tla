---------------------------- MODULE PortalProofs ----------------------------
(***************************************************************************)
(* Proofs about Portal, for any number of requests, addresses, hashes,     *)
(* reassignments and failures, with and without a unique index on the      *)
(* addresses: when a form and the intake double a row, that what was       *)
(* answered is stored, that what reporters store was granted to them, and  *)
(* which failures leave half a file behind.                                *)
(***************************************************************************)
EXTENDS Portal, SequenceTheorems, WellFoundedInduction, TLAPS

-----------------------------------------------------------------------------
(* Types. *)

\* Before a request comes in it carries some address and some hash.
Addresses == Emails \cup {Idle.email}
Contents == Hashes \cup {Idle.hash}

Places == {"idle", "done", "reporter", "newReporter", "subject", "case", "token", "find", "insert",
           "exchange", "check", "look", "store", "row", "object", "path", "rollback"}
Request == [at : Places, kind : Kinds, email : Addresses, hash : Contents, case : Nat, reporter : Nat,
            made : Nat, since : Nat, answer : {"none", "ok", "error", "refused", "taken"}]

ReporterRow == [key : Addresses, checked : Nat, by : Kinds]
SubjectRow == [key : Contents, type : {"url", "hash"}, checked : Nat, by : Kinds]
CaseRow == [reporter : Nat, owners : Seq(Nat)]
TokenRow == [case : Nat, reporter : Nat, told : BOOLEAN]
EvidenceRow == [case : Nat, by : Nat, of : Kinds, path : BOOLEAN, live : BOOLEAN]
CommRow == [case : Nat, sender : Nat, since : Nat, of : Kinds]
Notices == [kind : {"creation", "evidence", "comment"}, of : Nat]

TypeInv ==
    /\ reporters \in Seq(ReporterRow) /\ subjects \in Seq(SubjectRow) /\ cases \in Seq(CaseRow)
    /\ tokens \in Seq(TokenRow) /\ evidence \in Seq(EvidenceRow) /\ comms \in Seq(CommRow)
    /\ pending \subseteq Notices /\ req \in [Requests -> Request]

-----------------------------------------------------------------------------
(* What the rows refer to. *)

\* The reporter of a case is the last of its owners.
CaseInv ==
    \A c \in DOMAIN cases :
        /\ cases[c].owners # <<>> /\ cases[c].owners[Len(cases[c].owners)] = cases[c].reporter
        /\ \A k \in DOMAIN cases[c].owners : cases[c].owners[k] \in DOMAIN reporters

TokenInv == \A t \in DOMAIN tokens : tokens[t].case \in DOMAIN cases

\* A notice is about something that is stored, one about a file about one with a path.
NoticeInv ==
    /\ \A p \in pending :
          /\ p.kind = "creation" => p.of \in DOMAIN cases
          /\ p.kind = "evidence" => p.of \in DOMAIN evidence /\ evidence[p.of].path
          /\ p.kind = "comment" => p.of \in DOMAIN comms
    /\ \A m \in mails : m.kind = "evidence" => m.of \in DOMAIN evidence /\ evidence[m.of].path

Holds(c, r) == \E t \in DOMAIN tokens : tokens[t].case = c /\ tokens[t].reporter = r
Owned(c, k, r) == k \in DOMAIN cases[c].owners /\ cases[c].owners[k] = r

CommInv ==
    \A i \in DOMAIN comms :
        /\ comms[i].case \in DOMAIN cases
        /\ comms[i].of # "adminComment" => /\ Owned(comms[i].case, comms[i].since, comms[i].sender)
                                           /\ Holds(comms[i].case, comms[i].sender)

FileInv ==
    \A i \in DOMAIN evidence :
        /\ evidence[i].case \in DOMAIN cases
        /\ evidence[i].of = "upload" => \E k \in DOMAIN cases[evidence[i].case].owners : Owned(evidence[i].case, k, evidence[i].by)
        /\ evidence[i].path => evidence[i].live /\ i \in objects

\* An object has its row, with a path or not.
ObjectInv == \A i \in objects : i \in DOMAIN evidence /\ evidence[i].live

\* The rows of one address and of one hash: what DuplicateNeedsOverlap says of the tables.
DoubleInv ==
    /\ \A i, j \in DOMAIN reporters : (i < j /\ reporters[i].key = reporters[j].key) =>
          ~UniqueEmail /\ (reporters[j].by = "submit" => reporters[j].checked < i)
    /\ \A i, j \in DOMAIN subjects :
          (i < j /\ subjects[i].key = subjects[j].key /\ subjects[i].type = "hash" /\ subjects[j].by = "find") =>
             subjects[j].checked < i

-----------------------------------------------------------------------------
(* What a request r knows at each place. *)

\* Which requests come to a place.
Placed(r) ==
    /\ r.at = "reporter" => r.kind = "submit"
    /\ r.at = "newReporter" => r.kind \in {"submit", "adminReporter"}
    /\ r.at = "subject" => r.kind \in {"submit", "adminSubject"}
    /\ r.at = "case" => r.kind \in {"submit", "adminCase"}
    /\ r.at = "token" => r.kind = "submit"
    /\ r.at \in {"find", "insert"} => r.kind = "find"
    /\ r.at \in {"exchange", "check"} => r.kind \in {"comment", "upload"}
    /\ r.at = "look" => r.kind = "adminComment"
    /\ r.at = "store" => r.kind \in {"comment", "upload", "adminComment"}
    /\ r.at \in {"row", "object", "path", "rollback"} => r.kind \in {"upload", "adminUpload"}
    /\ r.at # "done" => r.answer = "none"
    /\ (r.kind \in {"comment", "adminComment"} /\ r.at # "done") => r.made = 0

\* A form, and a look-up of the intake: what the look-up saw, and what was stored since.
Reported(r) ==
    /\ (r.answer = "taken" /\ r.kind = "submit") =>
          \E i \in DOMAIN reporters : reporters[i].key = r.email /\ r.since < i
    /\ (r.at = "newReporter" /\ r.kind = "submit") =>
          \A i \in 1..r.since : i \in DOMAIN reporters /\ reporters[i].key # r.email
    /\ r.at = "insert" =>
          \A i \in 1..r.since : i \in DOMAIN subjects /\ ~(subjects[i].key = r.hash /\ subjects[i].type = "hash")
    /\ (r.at \in {"subject", "case", "token"} /\ r.kind = "submit") =>
          r.reporter \in DOMAIN reporters /\ reporters[r.reporter].key = r.email
    /\ r.at = "case" => r.reporter \in DOMAIN reporters
    /\ r.at = "token" => r.case \in DOMAIN cases /\ Owned(r.case, 1, r.reporter)

\* A comment or a file: the token that was shown, and the owner that was checked.
Granted(r) ==
    /\ r.at \in {"check", "look", "store", "row", "object", "path", "rollback"} => r.case \in DOMAIN cases
    /\ (r.kind \in {"comment", "upload"} /\ r.at \in {"check", "store", "row", "object", "path", "rollback"}) =>
          Holds(r.case, r.reporter)
    /\ (r.kind \in {"comment", "upload"} /\ r.at \in {"store", "row", "object", "path", "rollback"}) =>
          Owned(r.case, r.since, r.reporter)

\* A request between the row of a file and its path.
Uploading(r) == r.at \in {"object", "path", "rollback"}

\* A file: its row, its object and its path.
Filed(r) ==
    /\ Uploading(r) => /\ r.made \in DOMAIN evidence /\ evidence[r.made].case = r.case
                       /\ evidence[r.made].live /\ ~evidence[r.made].path
    /\ r.at = "path" => r.made \in objects
    /\ r.at \in {"object", "rollback"} => r.made \notin objects
    /\ r.at = "rollback" => "object" \in faults
    /\ (r.at = "store" /\ r.kind = "upload") =>
          r.made \in DOMAIN evidence /\ evidence[r.made].case = r.case /\ evidence[r.made].path

\* What was answered is stored.
Answered(r) ==
    r.answer = "ok" =>
        /\ r.kind = "submit" => /\ r.made \in DOMAIN tokens /\ r.case \in DOMAIN cases
                                /\ tokens[r.made].case = r.case /\ Owned(r.case, 1, tokens[r.made].reporter)
                                /\ tokens[r.made].reporter \in DOMAIN reporters
                                /\ reporters[tokens[r.made].reporter].key = r.email
        /\ r.kind = "find" => Known(r.hash)
        /\ r.kind = "adminReporter" => r.made \in DOMAIN reporters /\ reporters[r.made].key = r.email
        /\ r.kind = "adminSubject" => r.made \in DOMAIN subjects /\ subjects[r.made].key = r.hash
        /\ r.kind = "adminCase" => r.case \in DOMAIN cases /\ Owned(r.case, 1, r.reporter)
        /\ r.kind \in {"comment", "adminComment"} => r.made \in DOMAIN comms /\ comms[r.made].case = r.case
        /\ r.kind \in {"upload", "adminUpload"} =>
              r.made \in DOMAIN evidence /\ evidence[r.made].case = r.case /\ evidence[r.made].path

Knows(r) == Placed(r) /\ Reported(r) /\ Granted(r) /\ Filed(r) /\ Answered(r)

RequestInv ==
    /\ \A q \in Requests : Knows(req[q])
    /\ \A p, q \in Requests : (Uploading(req[p]) /\ Uploading(req[q]) /\ req[p].made = req[q].made) => p = q

\* A file without a path is of an upload under way, or left behind by what excuses it.
LeftInv ==
    \A i \in DOMAIN evidence : (evidence[i].live /\ ~evidence[i].path) =>
        \/ \E q \in Requests : req[q].made = i /\ Uploading(req[q])
        \/ Excused(i)

Inv ==
    /\ TypeInv /\ CaseInv /\ TokenInv /\ NoticeInv /\ CommInv /\ FileInv /\ ObjectInv
    /\ RequestInv /\ LeftInv /\ DoubleInv

-----------------------------------------------------------------------------
(* Sequences, and the oldest row. *)

LEMMA Appended ==
    ASSUME NEW S, NEW s \in Seq(S), NEW e \in S
    PROVE  /\ Append(s, e) \in Seq(S) /\ Len(Append(s, e)) = Len(s) + 1 /\ Len(s) + 1 \in Nat
           /\ DOMAIN Append(s, e) = DOMAIN s \cup {Len(s) + 1} /\ Len(s) + 1 \notin DOMAIN s
           /\ \A i \in DOMAIN s : Append(s, e)[i] = s[i] /\ i < Len(s) + 1 /\ i \in Nat
           /\ Append(s, e)[Len(s) + 1] = e
           /\ Append(s, e) # <<>>
    OBVIOUS

LEMMA Least ==
    ASSUME NEW T, T \subseteq Nat, T # {}
    PROVE  \E x \in T : \A y \in T : x <= y
<1>1. PICK x \in T : \A y \in T : <<y, x>> \notin OpToRel(<, Nat)
    BY WFMin, NatLessThanWellFounded, Zenon
<1>2. \A y \in T : ~(y < x)
    BY <1>1, Zenon DEF OpToRel
<1> QED BY <1>2

\* A look-up finds a row of the address when there is one.
LEMMA FirstFound ==
    ASSUME NEW S, NEW s \in Seq(S), NEW x, Has(s, x)
    PROVE  First(s, x) \in DOMAIN s /\ s[First(s, x)].key = x
<1> DEFINE T == {i \in DOMAIN s : s[i].key = x}
<1>1. DOMAIN s = 1..Len(s) /\ Len(s) \in Nat
    OBVIOUS
<1>2. T # {} /\ T \subseteq Nat
    BY <1>1 DEF Has
<1>3. PICK m \in T : \A i \in T : m <= i
    BY <1>2, Least
<1>4. m \in DOMAIN s /\ s[m].key = x /\ \A j \in 1..(m - 1) : s[j].key # x
    BY <1>1, <1>3
<1>5. \E i \in DOMAIN s : s[i].key = x /\ \A j \in 1..(i - 1) : s[j].key # x
    BY <1>4
<1> QED BY <1>5 DEF First

-----------------------------------------------------------------------------
(* What one step does to the tables and to the requests. *)

\* Rows stay, and so does what they say; only a file without a path may change.
Grow ==
    /\ \A i \in DOMAIN reporters : i \in DOMAIN reporters' /\ reporters'[i] = reporters[i]
    /\ \A i \in DOMAIN subjects : i \in DOMAIN subjects' /\ subjects'[i] = subjects[i]
    /\ \A i \in DOMAIN tokens : i \in DOMAIN tokens' /\ tokens'[i] = tokens[i]
    /\ \A i \in DOMAIN comms : i \in DOMAIN comms' /\ comms'[i] = comms[i]
    /\ \A c \in DOMAIN cases : c \in DOMAIN cases' /\
          \A k \in DOMAIN cases[c].owners : k \in DOMAIN cases'[c].owners /\ cases'[c].owners[k] = cases[c].owners[k]
    /\ \A i \in DOMAIN evidence : /\ i \in DOMAIN evidence' /\ evidence'[i].case = evidence[i].case
                                  /\ evidence'[i].of = evidence[i].of /\ evidence'[i].by = evidence[i].by
                                  /\ evidence[i].path => evidence'[i] = evidence[i]
    /\ objects \subseteq objects' /\ faults \subseteq faults'

Others(q) == \A p \in Requests \ {q} : req'[p] = req[p]

LEMMA GoShape ==
    ASSUME TypeInv, NEW q \in Requests, NEW r \in Request, Go(q, r)
    PROVE  req' \in [Requests -> Request] /\ Others(q) /\ req'[q] = r
    BY DEF TypeInv, Go, Others

\* What a request knows stays true.
LEMMA KnowsKept ==
    ASSUME Grow, NEW r, Knows(r),
           Uploading(r) => /\ evidence'[r.made] = evidence[r.made]
                           /\ r.made \in objects' => r.made \in objects
    PROVE  Knows(r)'
<1>1. Placed(r)'
    BY DEF Knows, Placed
<1>2. \A c, k, x : (c \in DOMAIN cases /\ Owned(c, k, x)) => Owned(c, k, x)'
    BY DEF Grow, Owned
<1>3. \A c, x : Holds(c, x) => Holds(c, x)'
    BY DEF Grow, Holds
<1>4. Reported(r)'
    BY <1>2 DEF Knows, Reported, Grow
<1>5. Granted(r)'
    BY <1>2, <1>3 DEF Knows, Granted, Grow
<1>6. Filed(r)'
    BY DEF Knows, Filed, Uploading, Grow
<1>7. Known(r.hash) => Known(r.hash)'
    BY DEF Known, Grow
<1>8. Answered(r)'
    BY <1>2, <1>7 DEF Knows, Answered, Grow
<1> QED BY <1>1, <1>4, <1>5, <1>6, <1>8 DEF Knows

\* A request goes on: the others know what they knew.
LEMMA StepRequest ==
    ASSUME Inv, Grow, NEW q \in Requests, Others(q), NEW r, req'[q] = r, Knows(r)',
           \A i \in DOMAIN evidence : (Uploading(req[q]) => i # req[q].made) => evidence'[i] = evidence[i],
           \A i \in objects' \ objects : Uploading(req[q]) /\ i = req[q].made,
           Uploading(r) => \/ Uploading(req[q]) /\ r.made = req[q].made
                           \/ r.made \notin DOMAIN evidence
    PROVE  RequestInv'
<1>1. ASSUME NEW p \in Requests \ {q}, Uploading(req[p])
      PROVE  /\ req[p].made \in DOMAIN evidence
             /\ Uploading(req[q]) => req[p].made # req[q].made
    BY <1>1 DEF Inv, RequestInv, Knows, Filed
<1>2. ASSUME NEW p \in Requests \ {q} PROVE Knows(req[p])'
  <2>1. PICK s : s = req[p]
      OBVIOUS
  <2>2. /\ Knows(s)
        /\ Uploading(s) => evidence'[s.made] = evidence[s.made] /\ (s.made \in objects' => s.made \in objects)
      BY <1>1, <2>1 DEF Inv, RequestInv
  <2>3. Knows(s)'
      BY <2>2, KnowsKept
  <2>4. req'[p] = s
      BY <2>1 DEF Others
  <2> QED BY <2>3, <2>4 DEF Knows, Placed, Reported, Granted, Filed, Answered, Known, Holds, Owned, Uploading
<1>3. Knows(req[q])'
    BY DEF Knows, Placed, Reported, Granted, Filed, Answered, Known, Holds, Owned, Uploading
<1>4. ASSUME NEW p \in Requests \ {q}, Uploading(req[p]), Uploading(r) PROVE req[p].made # r.made
    BY <1>1, <1>4
<1>5. \A p1, p2 \in Requests :
        (Uploading(req[p1])' /\ Uploading(req[p2])' /\ req'[p1].made = req'[p2].made) => p1 = p2
    BY <1>4 DEF Others, Inv, RequestInv, Uploading
<1> QED BY <1>2, <1>3, <1>5 DEF RequestInv

\* A request goes on: a file that is left without a path is accounted for.
LEMMA StepLeft ==
    ASSUME Inv, Grow, NEW q \in Requests, Others(q), NEW r, req'[q] = r,
           \A i \in DOMAIN evidence' : \/ i \in DOMAIN evidence /\ evidence'[i] = evidence[i]
                                       \/ Uploading(r) /\ i = r.made
                                       \/ ~evidence'[i].live \/ evidence'[i].path,
           \A i \in objects' \ objects : Uploading(r) /\ i = r.made,
           \A i \in DOMAIN evidence : (Uploading(req[q]) /\ i = req[q].made) =>
                                     \/ Uploading(r) /\ r.made = i
                                     \/ ~evidence'[i].live \/ evidence'[i].path
                                     \/ Excused(i)'
    PROVE  LeftInv'
<1> SUFFICES ASSUME NEW i \in DOMAIN evidence', evidence'[i].live, ~evidence'[i].path, ~Excused(i)'
             PROVE  \E p \in Requests : req'[p].made = i /\ Uploading(req[p])'
    BY DEF LeftInv
<1>1. CASE Uploading(r) /\ i = r.made
    BY <1>1 DEF Uploading
<1>2. CASE i \in DOMAIN evidence /\ evidence'[i] = evidence[i] /\ ~(Uploading(r) /\ i = r.made)
  <2>1. i \in objects' => i \in objects
      BY <1>2
  <2>2. ~Excused(i)
      BY <2>1 DEF Excused, Grow
  <2>3. PICK p \in Requests : req[p].made = i /\ Uploading(req[p])
      BY <1>2, <2>2 DEF Inv, LeftInv
  <2>4. p # q
      BY <1>2, <2>3
  <2> QED BY <2>3, <2>4 DEF Uploading, Others
<1> QED BY <1>1, <1>2

LEMMA IdleKnows == Idle \in Request /\ Knows(Idle) /\ Idle.at = "idle" /\ Idle.answer = "none" /\ Idle.made = 0
<1>1. /\ Idle \in Request /\ Idle.at = "idle" /\ Idle.answer = "none" /\ Idle.kind = "find" /\ Idle.made = 0
      /\ Idle.email \in Addresses /\ Idle.hash \in Contents
    BY DEF Idle, Request, Places, Kinds, Addresses, Contents
<1>2. Knows(Idle)
    BY <1>1 DEF Knows, Placed, Reported, Granted, Filed, Answered, Uploading
<1> QED BY <1>1, <1>2

\* A request that was answered with an error knows nothing.
LEMMA FailShape ==
    ASSUME TypeInv, NEW q \in Requests, NEW a \in {"error", "refused"}, Fail(q, a)
    PROVE  \E r \in Request : Go(q, r) /\ r.at = "done" /\ r.answer \notin {"ok", "taken"} /\ Knows(r) /\ Knows(r)' /\ ~Uploading(r)
<1> DEFINE r == [Idle EXCEPT !.at = "done", !.answer = a]
<1>1. r \in Request /\ r.at = "done" /\ r.answer = a /\ Go(q, r)
    BY IdleKnows DEF Request, Places, Fail, Go
<1> HIDE DEF r
<1>2. Knows(r) /\ Knows(r)' /\ ~Uploading(r)
    BY <1>1 DEF Knows, Placed, Reported, Granted, Filed, Answered, Uploading
<1> QED BY <1>1, <1>2

\* A step that leaves the tables, the objects, the mails and the goroutines alone.
LEMMA OnlyRequest ==
    ASSUME Inv, schema' = schema, UNCHANGED <<tables, outside, pending>>, faults \subseteq faults',
           NEW q \in Requests, NEW r \in Request, Go(q, r), Knows(r),
           Uploading(r) => Uploading(req[q]) /\ r.made = req[q].made,
           \A i \in DOMAIN evidence : (Uploading(req[q]) /\ i = req[q].made) =>
                                     (Uploading(r) /\ r.made = i) \/ Excused(i)'
    PROVE  Inv'
<1>1. req' \in [Requests -> Request] /\ Others(q) /\ req'[q] = r
    BY GoShape DEF Inv
<1>2. Grow
    BY DEF Grow, tables, outside
<1>3. Knows(r)'
    BY <1>2, KnowsKept DEF tables, outside
<1>4. RequestInv' /\ LeftInv'
    BY <1>1, <1>2, <1>3, StepRequest, StepLeft DEF tables, outside
<1>5. TypeInv'
    BY <1>1 DEF Inv, TypeInv, tables
<1>6. CaseInv' /\ TokenInv' /\ NoticeInv' /\ CommInv' /\ FileInv' /\ ObjectInv'
    BY DEF Inv, CaseInv, TokenInv, NoticeInv, CommInv, FileInv, ObjectInv, Holds, Owned, tables, outside
<1>7. DoubleInv'
    BY DEF Inv, DoubleInv, UniqueEmail, tables
<1> QED BY <1>4, <1>5, <1>6, <1>7 DEF Inv

\* An error, or a refusal.
LEMMA OnlyFail ==
    ASSUME Inv, schema' = schema, UNCHANGED <<tables, outside, pending>>, faults \subseteq faults',
           NEW q \in Requests, NEW a \in {"error", "refused"}, Fail(q, a),
           \A i \in DOMAIN evidence : (Uploading(req[q]) /\ i = req[q].made) => Excused(i)'
    PROVE  Inv'
    BY FailShape, OnlyRequest DEF Inv

LEMMA Faulty == \A what : Fault(what) \/ Sound => faults \subseteq faults'
    BY DEF Fault, Sound

\* A request that goes to another place with some of its fields set anew.
LEMMA MoveTypes ==
    ASSUME TypeInv, NEW q \in Requests, NEW l \in Places, NEW c \in Nat, NEW o \in Nat, NEW m \in Nat, NEW n \in Nat,
           NEW a \in {"none", "ok"}
    PROVE  LET r == [req[q] EXCEPT !.at = l, !.case = c, !.reporter = o, !.made = m, !.since = n, !.answer = a]
           IN  /\ r \in Request /\ r.at = l /\ r.case = c /\ r.reporter = o /\ r.made = m /\ r.since = n
               /\ r.answer = a /\ r.kind = req[q].kind /\ r.email = req[q].email /\ r.hash = req[q].hash
    BY DEF TypeInv, Request

-----------------------------------------------------------------------------
(* The steps that only read. *)

LEMMA StepAsk ==
    ASSUME Inv, schema' = schema, NEW q \in Requests, Ask(q)
    PROVE  Inv'
<1>1. req[q].at = "idle" /\ UNCHANGED <<tables, outside, pending, faults>>
    BY DEF Ask
<1>2. PICK a \in Asks[q] : LET r == [Idle EXCEPT !.kind = a.kind, !.email = a.email, !.hash = a.hash] IN
        \/ a.kind = "submit" /\ Go(q, [r EXCEPT !.at = "reporter"])
        \/ a.kind = "find" /\ Go(q, [r EXCEPT !.at = "find"])
        \/ a.kind \in {"comment", "upload"} /\ tokens # <<>> /\ Go(q, [r EXCEPT !.at = "exchange"])
        \/ a.kind = "adminReporter" /\ Go(q, [r EXCEPT !.at = "newReporter"])
        \/ a.kind = "adminSubject" /\ Go(q, [r EXCEPT !.at = "subject"])
        \/ a.kind = "adminCase" /\ \E o \in DOMAIN reporters : Go(q, [r EXCEPT !.at = "case", !.reporter = o])
        \/ /\ a.kind \in {"adminComment", "adminUpload"}
           /\ \E c \in DOMAIN cases :
                Go(q, [r EXCEPT !.at = IF a.kind = "adminComment" THEN "look" ELSE "row", !.case = c])
    BY DEF Ask
<1>3. a.kind \in Kinds /\ a.email \in Addresses /\ a.hash \in Contents
    BY PortalAssumption DEF Addresses, Contents
<1> DEFINE s == [Idle EXCEPT !.kind = a.kind, !.email = a.email, !.hash = a.hash]
<1>4. /\ s \in Request /\ s.kind = a.kind /\ s.at = "idle" /\ s.answer = "none" /\ s.made = 0 /\ s.since = 0
    BY <1>3 DEF Idle, Request, Places
<1> HIDE DEF s
<1> DEFINE Came(r) ==
      \/ r.at = "reporter" /\ r.kind = "submit"
      \/ r.at = "find" /\ r.kind = "find"
      \/ r.at = "exchange" /\ r.kind \in {"comment", "upload"}
      \/ r.at = "newReporter" /\ r.kind = "adminReporter"
      \/ r.at = "subject" /\ r.kind = "adminSubject"
      \/ r.at = "case" /\ r.kind = "adminCase" /\ r.reporter \in DOMAIN reporters
      \/ r.at = "look" /\ r.kind = "adminComment" /\ r.case \in DOMAIN cases
      \/ r.at = "row" /\ r.kind = "adminUpload" /\ r.case \in DOMAIN cases
<1>5. ASSUME NEW r \in Request, Go(q, r), Came(r), r.answer = "none", r.made = 0, r.since = 0
      PROVE  Inv'
  <2>1. Knows(r) /\ ~Uploading(r)
      BY <1>5 DEF Knows, Placed, Reported, Granted, Filed, Answered, Uploading
  <2>2. ~Uploading(req[q])
      BY <1>1 DEF Uploading
  <2> QED BY <1>1, <1>5, <2>1, <2>2, OnlyRequest
<1> DEFINE Made(r, l) == r \in Request /\ r.at = l /\ r.kind = a.kind /\ r.answer = "none" /\ r.made = 0 /\ r.since = 0
<1>6. \A l \in Places : \E r : r = [s EXCEPT !.at = l] /\ Made(r, l)
  <2> SUFFICES ASSUME NEW l \in Places PROVE Made([s EXCEPT !.at = l], l)
      OBVIOUS
  <2> QED BY <1>4 DEF Request
<1>7. \A l \in Places, o \in Nat : \E r : r = [s EXCEPT !.at = l, !.reporter = o] /\ Made(r, l) /\ r.reporter = o
  <2> TAKE l \in Places, o \in Nat
  <2> WITNESS [s EXCEPT !.at = l, !.reporter = o]
  <2> QED BY <1>4 DEF Request
<1>18. \A l \in Places, o \in Nat : \E r : r = [s EXCEPT !.at = l, !.case = o] /\ Made(r, l) /\ r.case = o
  <2> TAKE l \in Places, o \in Nat
  <2> WITNESS [s EXCEPT !.at = l, !.case = o]
  <2> QED BY <1>4 DEF Request
<1>8. DOMAIN reporters \subseteq Nat /\ DOMAIN cases \subseteq Nat /\ {"case", "look", "row"} \subseteq Places
    BY DEF Inv, TypeInv, Places
<1> HIDE DEF Made
<1>9. CASE a.kind = "submit" /\ Go(q, [s EXCEPT !.at = "reporter"])
  <2>1. PICK r : r = [s EXCEPT !.at = "reporter"] /\ Made(r, "reporter")
      BY <1>6 DEF Places
  <2> QED BY <1>5, <1>9, <2>1 DEF Made
<1>10. CASE a.kind = "find" /\ Go(q, [s EXCEPT !.at = "find"])
  <2>1. PICK r : r = [s EXCEPT !.at = "find"] /\ Made(r, "find")
      BY <1>6 DEF Places
  <2> QED BY <1>5, <1>10, <2>1 DEF Made
<1>11. CASE a.kind \in {"comment", "upload"} /\ Go(q, [s EXCEPT !.at = "exchange"])
  <2>1. PICK r : r = [s EXCEPT !.at = "exchange"] /\ Made(r, "exchange")
      BY <1>6 DEF Places
  <2> QED BY <1>5, <1>11, <2>1 DEF Made
<1>12. CASE a.kind = "adminReporter" /\ Go(q, [s EXCEPT !.at = "newReporter"])
  <2>1. PICK r : r = [s EXCEPT !.at = "newReporter"] /\ Made(r, "newReporter")
      BY <1>6 DEF Places
  <2> QED BY <1>5, <1>12, <2>1 DEF Made
<1>13. CASE a.kind = "adminSubject" /\ Go(q, [s EXCEPT !.at = "subject"])
  <2>1. PICK r : r = [s EXCEPT !.at = "subject"] /\ Made(r, "subject")
      BY <1>6 DEF Places
  <2> QED BY <1>5, <1>13, <2>1 DEF Made
<1>14. CASE a.kind = "adminCase" /\ \E o \in DOMAIN reporters : Go(q, [s EXCEPT !.at = "case", !.reporter = o])
  <2>1. PICK o \in DOMAIN reporters : Go(q, [s EXCEPT !.at = "case", !.reporter = o])
      BY <1>14
  <2>2. PICK r : r = [s EXCEPT !.at = "case", !.reporter = o] /\ Made(r, "case") /\ r.reporter = o
      BY <1>7, <1>8
  <2> QED BY <1>5, <1>14, <2>1, <2>2 DEF Made
<1>15. CASE a.kind = "adminComment" /\ \E c \in DOMAIN cases : Go(q, [s EXCEPT !.at = "look", !.case = c])
  <2>1. PICK c \in DOMAIN cases : Go(q, [s EXCEPT !.at = "look", !.case = c])
      BY <1>15
  <2>2. PICK r : r = [s EXCEPT !.at = "look", !.case = c] /\ Made(r, "look") /\ r.case = c
      BY <1>8, <1>18
  <2> QED BY <1>5, <1>15, <2>1, <2>2 DEF Made
<1>16. CASE a.kind = "adminUpload" /\ \E c \in DOMAIN cases : Go(q, [s EXCEPT !.at = "row", !.case = c])
  <2>1. PICK c \in DOMAIN cases : Go(q, [s EXCEPT !.at = "row", !.case = c])
      BY <1>16
  <2>2. PICK r : r = [s EXCEPT !.at = "row", !.case = c] /\ Made(r, "row") /\ r.case = c
      BY <1>8, <1>18
  <2> QED BY <1>5, <1>16, <2>1, <2>2 DEF Made
<1>17. \/ a.kind = "submit" /\ Go(q, [s EXCEPT !.at = "reporter"])
       \/ a.kind = "find" /\ Go(q, [s EXCEPT !.at = "find"])
       \/ a.kind \in {"comment", "upload"} /\ Go(q, [s EXCEPT !.at = "exchange"])
       \/ a.kind = "adminReporter" /\ Go(q, [s EXCEPT !.at = "newReporter"])
       \/ a.kind = "adminSubject" /\ Go(q, [s EXCEPT !.at = "subject"])
       \/ a.kind = "adminCase" /\ \E o \in DOMAIN reporters : Go(q, [s EXCEPT !.at = "case", !.reporter = o])
       \/ a.kind = "adminComment" /\ \E c \in DOMAIN cases : Go(q, [s EXCEPT !.at = "look", !.case = c])
       \/ a.kind = "adminUpload" /\ \E c \in DOMAIN cases : Go(q, [s EXCEPT !.at = "row", !.case = c])
    BY <1>2 DEF s
<1> QED BY <1>9, <1>10, <1>11, <1>12, <1>13, <1>14, <1>15, <1>16, <1>17

\* What is known of a request at a place.
LEMMA AtPlace ==
    ASSUME Inv, NEW q \in Requests
    PROVE  \E s \in Request : s = req[q] /\ Knows(s) /\ (Uploading(req[q]) => Uploading(s))
    BY DEF Inv, TypeInv, RequestInv

LEMMA StepFindReporter ==
    ASSUME Inv, schema' = schema, NEW q \in Requests, FindReporter(q)
    PROVE  Inv'
<1>1. PICK s \in Request : s = req[q] /\ Knows(s)
    BY AtPlace
<1>2. s.at = "reporter" /\ s.kind = "submit" /\ s.answer = "none" /\ ~Uploading(req[q])
    BY <1>1 DEF FindReporter, Knows, Placed, Uploading
<1>3. UNCHANGED <<tables, outside, pending>> /\ faults \subseteq faults'
    BY Faulty DEF FindReporter
<1>4. CASE Has(reporters, s.email) /\ Go(q, [s EXCEPT !.at = "subject", !.reporter = First(reporters, s.email)])
  <2>1. PICK i : i = First(reporters, s.email)
      OBVIOUS
  <2>2. i \in DOMAIN reporters /\ reporters[i].key = s.email /\ i \in Nat
      BY <1>4, <2>1, FirstFound DEF Inv, TypeInv
  <2> DEFINE r == [s EXCEPT !.at = "subject", !.reporter = i]
  <2>3. r \in Request /\ r.at = "subject" /\ r.reporter = i /\ r.kind = "submit" /\ r.answer = "none" /\ r.email = s.email
      BY <1>2, <2>2 DEF Request, Places
  <2>4. Go(q, r)
      BY <1>4, <2>1
  <2> HIDE DEF r
  <2>5. Knows(r) /\ ~Uploading(r)
      BY <2>2, <2>3 DEF Knows, Placed, Reported, Granted, Filed, Answered, Uploading
  <2> QED BY <1>2, <1>3, <2>3, <2>4, <2>5, OnlyRequest
<1>5. CASE ~Has(reporters, s.email) /\ Go(q, [s EXCEPT !.at = "newReporter", !.since = Len(reporters)])
  <2>1. Len(reporters) \in Nat /\ \A i \in 1..Len(reporters) : i \in DOMAIN reporters /\ reporters[i].key # s.email
      BY <1>5 DEF Has, Inv, TypeInv
  <2> DEFINE r == [s EXCEPT !.at = "newReporter", !.since = Len(reporters)]
  <2>2. /\ r \in Request /\ r.at = "newReporter" /\ r.since = Len(reporters) /\ r.kind = "submit"
        /\ r.answer = "none" /\ r.email = s.email
      BY <1>2, <2>1 DEF Request, Places
  <2>3. Go(q, r)
      BY <1>5
  <2> HIDE DEF r
  <2>4. Knows(r) /\ ~Uploading(r)
      BY <2>1, <2>2 DEF Knows, Placed, Reported, Granted, Filed, Answered, Uploading
  <2> QED BY <1>2, <1>3, <2>2, <2>3, <2>4, OnlyRequest
<1>6. CASE Fail(q, "error")
    BY <1>2, <1>3, <1>6, OnlyFail
<1> QED BY <1>1, <1>4, <1>5, <1>6 DEF FindReporter

LEMMA StepFindSubject ==
    ASSUME Inv, schema' = schema, NEW q \in Requests, FindSubject(q)
    PROVE  Inv'
<1>1. PICK s \in Request : s = req[q] /\ Knows(s)
    BY AtPlace
<1>2. s.at = "find" /\ s.kind = "find" /\ s.answer = "none" /\ ~Uploading(req[q])
    BY <1>1 DEF FindSubject, Knows, Placed, Uploading
<1>3. UNCHANGED <<tables, outside, pending>> /\ faults \subseteq faults'
    BY Faulty DEF FindSubject
<1>4. CASE Known(s.hash) /\ Answer(q, s)
  <2> DEFINE r == [s EXCEPT !.at = "done", !.answer = "ok"]
  <2>1. r \in Request /\ r.at = "done" /\ r.kind = "find" /\ r.hash = s.hash
      BY <1>2 DEF Request, Places
  <2>2. Go(q, r)
      BY <1>4 DEF Answer, Go
  <2> HIDE DEF r
  <2>3. Knows(r) /\ ~Uploading(r)
      BY <1>4, <2>1 DEF Knows, Placed, Reported, Granted, Filed, Answered, Uploading
  <2> QED BY <1>2, <1>3, <2>1, <2>2, <2>3, OnlyRequest
<1>5. CASE ~Known(s.hash) /\ Go(q, [s EXCEPT !.at = "insert", !.since = Len(subjects)])
  <2>1. /\ Len(subjects) \in Nat
        /\ \A i \in 1..Len(subjects) : i \in DOMAIN subjects /\ ~(subjects[i].key = s.hash /\ subjects[i].type = "hash")
      BY <1>5 DEF Known, Inv, TypeInv
  <2> DEFINE r == [s EXCEPT !.at = "insert", !.since = Len(subjects)]
  <2>2. /\ r \in Request /\ r.at = "insert" /\ r.since = Len(subjects) /\ r.kind = "find"
        /\ r.answer = "none" /\ r.hash = s.hash
      BY <1>2, <2>1 DEF Request, Places
  <2>3. Go(q, r)
      BY <1>5
  <2> HIDE DEF r
  <2>4. Knows(r) /\ ~Uploading(r)
      BY <2>1, <2>2 DEF Knows, Placed, Reported, Granted, Filed, Answered, Uploading
  <2> QED BY <1>2, <1>3, <2>2, <2>3, <2>4, OnlyRequest
<1>6. CASE Fail(q, "error")
    BY <1>2, <1>3, <1>6, OnlyFail
<1> QED BY <1>1, <1>4, <1>5, <1>6 DEF FindSubject

LEMMA StepExchange ==
    ASSUME Inv, schema' = schema, NEW q \in Requests, Exchange(q)
    PROVE  Inv'
<1>1. PICK s \in Request : s = req[q] /\ Knows(s)
    BY AtPlace
<1>2. s.at = "exchange" /\ s.kind \in {"comment", "upload"} /\ s.answer = "none" /\ ~Uploading(req[q])
      /\ (s.kind = "comment" => s.made = 0)
    BY <1>1 DEF Exchange, Knows, Placed, Uploading
<1>3. UNCHANGED <<tables, outside, pending>> /\ faults \subseteq faults'
    BY Faulty DEF Exchange
<1>4. PICK t \in DOMAIN tokens, ref \in DOMAIN cases :
        IF ref # tokens[t].case THEN Fail(q, "refused")
        ELSE Go(q, [s EXCEPT !.at = "check", !.case = ref, !.reporter = tokens[t].reporter])
    BY <1>1 DEF Exchange, Claims
<1>5. CASE ref = tokens[t].case
  <2>1. PICK o : o = tokens[t].reporter
      OBVIOUS
  <2>2. ref \in Nat /\ o \in Nat /\ Holds(ref, o)
    <3>1. tokens \in Seq(TokenRow) /\ cases \in Seq(CaseRow)
        BY DEF Inv, TypeInv
    <3>2. tokens[t] \in TokenRow /\ ref \in Nat
        BY <3>1
    <3>3. o \in Nat
        BY <2>1, <3>2 DEF TokenRow
    <3> QED BY <1>5, <2>1, <3>2, <3>3 DEF Holds
  <2> DEFINE r == [s EXCEPT !.at = "check", !.case = ref, !.reporter = o]
  <2>3. /\ r \in Request /\ r.at = "check" /\ r.case = ref /\ r.reporter = o /\ r.kind = s.kind
        /\ r.answer = "none" /\ r.made = s.made
      BY <1>2, <2>2 DEF Request, Places
  <2>4. Go(q, r)
      BY <1>4, <1>5, <2>1
  <2> HIDE DEF r
  <2>5. Knows(r) /\ ~Uploading(r)
      BY <1>2, <2>2, <2>3 DEF Knows, Placed, Reported, Granted, Filed, Answered, Uploading
  <2> QED BY <1>2, <1>3, <2>3, <2>4, <2>5, OnlyRequest
<1>6. CASE ref # tokens[t].case
    BY <1>2, <1>3, <1>4, <1>6, OnlyFail
<1> QED BY <1>5, <1>6

LEMMA StepCheck ==
    ASSUME Inv, schema' = schema, NEW q \in Requests, Check(q)
    PROVE  Inv'
<1>1. PICK s \in Request : s = req[q] /\ Knows(s)
    BY AtPlace
<1>2. /\ s.at = "check" /\ s.kind \in {"comment", "upload"} /\ s.answer = "none" /\ ~Uploading(req[q])
      /\ s.kind = "comment" => s.made = 0
      /\ s.case \in DOMAIN cases /\ Holds(s.case, s.reporter)
    BY <1>1 DEF Check, Knows, Placed, Granted, Uploading
<1>3. UNCHANGED <<tables, outside, pending>> /\ faults \subseteq faults'
    BY Faulty DEF Check
<1>4. CASE /\ cases[s.case].reporter = s.reporter /\ Sound
           /\ Go(q, [s EXCEPT !.since = Len(cases[s.case].owners), !.at = IF s.kind = "comment" THEN "store" ELSE "row"])
  <2>1. PICK n, l : n = Len(cases[s.case].owners) /\ l = IF s.kind = "comment" THEN "store" ELSE "row"
      OBVIOUS
  <2>2. cases[s.case].owners \in Seq(Nat) /\ cases[s.case].owners # <<>>
    <3>1. cases \in Seq(CaseRow) /\ s.case \in DOMAIN cases
        BY <1>2 DEF Inv, TypeInv
    <3>2. cases[s.case] \in CaseRow
        BY <3>1
    <3>3. cases[s.case].owners # <<>>
        BY <3>1 DEF Inv, CaseInv
    <3> QED BY <3>2, <3>3 DEF CaseRow
  <2>3. n \in Nat /\ n \in DOMAIN cases[s.case].owners
      BY <2>1, <2>2
  <2>4. Owned(s.case, n, s.reporter) /\ l \in Places
      BY <1>2, <1>4, <2>1, <2>3 DEF Owned, Inv, CaseInv, Places
  <2> DEFINE r == [s EXCEPT !.since = n, !.at = l]
  <2>5. /\ r \in Request /\ r.at = l /\ r.since = n /\ r.kind = s.kind /\ r.case = s.case
        /\ r.reporter = s.reporter /\ r.answer = "none" /\ r.made = s.made
      BY <1>2, <2>3, <2>4 DEF Request
  <2>6. Go(q, r)
      BY <1>4, <2>1
  <2> HIDE DEF r
  <2>7. Knows(r) /\ ~Uploading(r)
      BY <1>2, <2>1, <2>4, <2>5 DEF Knows, Placed, Reported, Granted, Filed, Answered, Uploading
  <2> QED BY <1>2, <1>3, <2>5, <2>6, <2>7, OnlyRequest
<1>5. CASE Fail(q, "error") \/ Fail(q, "refused")
    BY <1>2, <1>3, <1>5, OnlyFail
<1> QED BY <1>1, <1>4, <1>5 DEF Check

LEMMA StepLook ==
    ASSUME Inv, schema' = schema, NEW q \in Requests, Look(q)
    PROVE  Inv'
<1>1. PICK s \in Request : s = req[q] /\ Knows(s)
    BY AtPlace
<1>2. /\ s.at = "look" /\ s.kind = "adminComment" /\ s.answer = "none" /\ ~Uploading(req[q])
      /\ s.made = 0 /\ s.case \in DOMAIN cases
    BY <1>1 DEF Look, Knows, Placed, Granted, Uploading
<1>3. UNCHANGED <<tables, outside, pending>> /\ faults \subseteq faults'
    BY Faulty DEF Look
<1>4. CASE Move(q, "store")
  <2> DEFINE r == [s EXCEPT !.at = "store"]
  <2>1. /\ r \in Request /\ r.at = "store" /\ r.kind = s.kind /\ r.case = s.case /\ r.answer = "none" /\ r.made = 0
      BY <1>2 DEF Request, Places
  <2>2. Go(q, r)
      BY <1>1, <1>4 DEF Go, Move, Inv, TypeInv
  <2> HIDE DEF r
  <2>3. Knows(r) /\ ~Uploading(r)
      BY <1>2, <2>1 DEF Knows, Placed, Reported, Granted, Filed, Answered, Uploading
  <2> QED BY <1>2, <1>3, <2>1, <2>2, <2>3, OnlyRequest
<1>5. CASE Fail(q, "error")
    BY <1>2, <1>3, <1>5, OnlyFail
<1> QED BY <1>4, <1>5 DEF Look

-----------------------------------------------------------------------------
(* The steps that store. *)

\* What a table that the step leaves alone says stays true.
LEMMA RowsKept ==
    ASSUME Inv, schema' = schema, Grow
    PROVE  /\ cases' = cases => CaseInv'
           /\ tokens' = tokens => TokenInv'
           /\ (pending' \subseteq pending /\ mails' = mails) => NoticeInv'
           /\ comms' = comms => CommInv'
           /\ evidence' = evidence => FileInv'
           /\ (evidence' = evidence /\ objects' = objects) => ObjectInv'
           /\ (reporters' = reporters /\ subjects' = subjects) => DoubleInv'
<1>1. cases' = cases => CaseInv'
    BY DEF Inv, CaseInv, Grow
<1>2. tokens' = tokens => TokenInv'
    BY DEF Inv, TokenInv, Grow
<1>3. (pending' \subseteq pending /\ mails' = mails) => NoticeInv'
    BY DEF Inv, NoticeInv, Grow
<1>4. \A c, k, x : (c \in DOMAIN cases /\ Owned(c, k, x)) => Owned(c, k, x)'
    BY DEF Grow, Owned
<1>5. \A c, x : Holds(c, x) => Holds(c, x)'
    BY DEF Grow, Holds
<1>6. comms' = comms => CommInv'
  <2> SUFFICES ASSUME comms' = comms, NEW i \in DOMAIN comms
               PROVE  /\ comms[i].case \in DOMAIN cases'
                      /\ comms[i].of # "adminComment" => /\ Owned(comms[i].case, comms[i].since, comms[i].sender)'
                                                         /\ Holds(comms[i].case, comms[i].sender)'
      BY DEF CommInv
  <2>1. PICK m : m = comms[i]
      OBVIOUS
  <2>2. /\ m.case \in DOMAIN cases
        /\ m.of # "adminComment" => Owned(m.case, m.since, m.sender) /\ Holds(m.case, m.sender)
      BY <2>1 DEF Inv, CommInv
  <2>3. m.case \in DOMAIN cases' /\ (m.of # "adminComment" => Owned(m.case, m.since, m.sender)' /\ Holds(m.case, m.sender)')
      BY <1>4, <1>5, <2>2 DEF Grow
  <2> QED BY <2>1, <2>3 DEF Owned, Holds
<1>7. evidence' = evidence => FileInv'
  <2> SUFFICES ASSUME evidence' = evidence, NEW i \in DOMAIN evidence
               PROVE  /\ evidence[i].case \in DOMAIN cases'
                      /\ evidence[i].of = "upload" =>
                            \E k \in DOMAIN cases'[evidence[i].case].owners : Owned(evidence[i].case, k, evidence[i].by)'
                      /\ evidence[i].path => evidence[i].live /\ i \in objects'
      BY DEF FileInv
  <2> QED BY DEF Inv, FileInv, Owned, Grow
<1>8. (reporters' = reporters /\ subjects' = subjects) => DoubleInv'
    BY DEF Inv, DoubleInv, UniqueEmail
<1>9. (evidence' = evidence /\ objects' = objects) => ObjectInv'
    BY DEF Inv, ObjectInv
<1> QED BY <1>1, <1>2, <1>3, <1>6, <1>7, <1>8, <1>9

\* A request that is not an upload's goes on and leaves the files alone.
LEMMA StepRow ==
    ASSUME Inv, Grow, NEW q \in Requests, NEW r \in Request, Go(q, r), Knows(r)',
           ~Uploading(req[q]), ~Uploading(r), evidence' = evidence, objects' = objects
    PROVE  req' \in [Requests -> Request] /\ RequestInv' /\ LeftInv'
    BY GoShape, StepRequest, StepLeft DEF Inv

LEMMA StepCreateReporter ==
    ASSUME Inv, schema' = schema, NEW q \in Requests, CreateReporter(q)
    PROVE  Inv'
<1>1. PICK s \in Request : s = req[q] /\ Knows(s)
    BY AtPlace
<1>2. /\ s.at = "newReporter" /\ s.kind \in {"submit", "adminReporter"} /\ s.answer = "none" /\ ~Uploading(req[q])
      /\ s.since \in Nat
    BY <1>1 DEF CreateReporter, Knows, Placed, Uploading, Request
<1>3. UNCHANGED <<subjects, cases, tokens, evidence, comms, outside, pending>> /\ faults \subseteq faults'
    BY Faulty DEF CreateReporter
<1>4. ASSUME ~Taken(s.email),
             reporters' = Append(reporters, [key |-> s.email, checked |-> s.since, by |-> s.kind]),
             IF s.kind = "submit" THEN Go(q, [s EXCEPT !.at = "subject", !.reporter = Len(reporters')])
             ELSE Answer(q, [s EXCEPT !.made = Len(reporters')])
      PROVE  Inv'
  <2>1. PICK n, e : n = Len(reporters) + 1 /\ e = [key |-> s.email, checked |-> s.since, by |-> s.kind]
      OBVIOUS
  <2>2. e \in ReporterRow /\ e.key = s.email /\ e.by = s.kind /\ e.checked = s.since
      BY <1>2, <2>1 DEF ReporterRow, Request
  <2>3. reporters \in Seq(ReporterRow) /\ reporters' = Append(reporters, e)
      BY <1>4, <2>1 DEF Inv, TypeInv
  <2>4. /\ reporters' \in Seq(ReporterRow) /\ Len(reporters') = n /\ n \in Nat
        /\ DOMAIN reporters' = DOMAIN reporters \cup {n} /\ n \notin DOMAIN reporters
        /\ \A i \in DOMAIN reporters : reporters'[i] = reporters[i] /\ i < n /\ i \in Nat
        /\ reporters'[n] = e
      BY <2>1, <2>2, <2>3, Appended
  <2>5. Grow
      BY <1>3, <2>4 DEF Grow, outside
  <2>6. PICK r \in Request : /\ Go(q, r) /\ r.kind = s.kind /\ r.email = s.email
                             /\ s.kind = "submit" => r.at = "subject" /\ r.reporter = n /\ r.answer = "none"
                             /\ s.kind # "submit" => r.at = "done" /\ r.made = n /\ r.answer = "ok"
    <3>1. CASE s.kind = "submit"
      <4> DEFINE r == [s EXCEPT !.at = "subject", !.reporter = n]
      <4>1. /\ r \in Request /\ r.kind = s.kind /\ r.email = s.email /\ r.at = "subject" /\ r.reporter = n
            /\ r.answer = "none"
          BY <1>2, <2>4 DEF Request, Places
      <4>2. Go(q, r)
          BY <1>4, <2>4, <3>1
      <4> HIDE DEF r
      <4> QED BY <3>1, <4>1, <4>2
    <3>2. CASE s.kind # "submit"
      <4> DEFINE r == [[s EXCEPT !.made = n] EXCEPT !.at = "done", !.answer = "ok"]
      <4>1. r \in Request /\ r.kind = s.kind /\ r.email = s.email /\ r.at = "done" /\ r.made = n /\ r.answer = "ok"
          BY <1>2, <2>4 DEF Request, Places
      <4>2. Go(q, r)
          BY <1>4, <2>4, <3>2 DEF Answer, Go
      <4> HIDE DEF r
      <4> QED BY <3>2, <4>1, <4>2
    <3> QED BY <3>1, <3>2
  <2>7. Knows(r)' /\ ~Uploading(r)
      BY <1>2, <2>2, <2>4, <2>6 DEF Knows, Placed, Reported, Granted, Filed, Answered, Uploading
  <2>8. TypeInv' /\ RequestInv' /\ LeftInv'
    <3>1. req' \in [Requests -> Request] /\ RequestInv' /\ LeftInv'
        BY <1>2, <1>3, <2>5, <2>6, <2>7, StepRow DEF outside
    <3> QED BY <1>3, <2>4, <3>1 DEF Inv, TypeInv
  <2>9. CaseInv' /\ TokenInv' /\ NoticeInv' /\ CommInv' /\ FileInv' /\ ObjectInv'
      BY <1>3, <2>5, RowsKept DEF outside
  <2>10. DoubleInv'
    <3>1. ASSUME NEW i \in DOMAIN reporters', NEW j \in DOMAIN reporters', i < j,
                 reporters'[i].key = reporters'[j].key
          PROVE  ~UniqueEmail /\ (reporters'[j].by = "submit" => reporters'[j].checked < i)
      <4>1. CASE j \in DOMAIN reporters
        <5>1. i \in DOMAIN reporters
            BY <2>4, <3>1, <4>1
        <5> QED BY <2>4, <3>1, <4>1, <5>1 DEF Inv, DoubleInv
      <4>2. CASE j = n
        <5>1. i \in DOMAIN reporters /\ i \in Nat /\ reporters[i].key = s.email
            BY <2>2, <2>4, <3>1, <4>2
        <5>2. ~UniqueEmail
            BY <1>4, <5>1 DEF Taken, Has
        <5>3. ASSUME s.kind = "submit" PROVE s.since < i
          <6>1. \A k \in 1..s.since : reporters[k].key # s.email
              BY <1>1, <1>2, <5>3 DEF Knows, Reported
          <6>2. i >= 1
              BY <2>3, <5>1
          <6> QED BY <1>2, <5>1, <6>1, <6>2
        <5> QED BY <2>2, <2>4, <4>2, <5>2, <5>3
      <4> QED BY <2>4, <4>1, <4>2
    <3> QED BY <1>3, <3>1 DEF Inv, DoubleInv, UniqueEmail
  <2> QED BY <2>8, <2>9, <2>10 DEF Inv
<1>5. CASE UNCHANGED reporters /\ Fail(q, "error")
    BY <1>2, <1>3, <1>5, OnlyFail DEF tables
<1>6. ASSUME Taken(s.email), UNCHANGED reporters, Go(q, [s EXCEPT !.at = "done", !.answer = "taken"])
      PROVE  Inv'
  <2>1. PICK r \in Request : /\ Go(q, r) /\ r.kind = s.kind /\ r.email = s.email /\ r.since = s.since
                             /\ r.at = "done" /\ r.answer = "taken"
    <3> DEFINE r == [s EXCEPT !.at = "done", !.answer = "taken"]
    <3>1. r \in Request /\ r.kind = s.kind /\ r.email = s.email /\ r.since = s.since /\ r.at = "done" /\ r.answer = "taken"
        BY DEF Request, Places
    <3>2. Go(q, r)
        BY <1>6
    <3> HIDE DEF r
    <3> QED BY <3>1, <3>2
  <2>2. PICK i \in DOMAIN reporters : reporters[i].key = s.email
      BY <1>6 DEF Taken, Has
  <2>3. i \in Nat /\ i >= 1
      BY DEF Inv, TypeInv
  <2>4. s.kind = "submit" => s.since < i
    <3>1. s.kind = "submit" => \A k \in 1..s.since : reporters[k].key # s.email
        BY <1>1, <1>2 DEF Knows, Reported
    <3> QED BY <1>2, <2>2, <2>3, <3>1
  <2>5. Knows(r) /\ ~Uploading(r)
      BY <2>1, <2>2, <2>4 DEF Knows, Placed, Reported, Granted, Filed, Answered, Uploading
  <2> QED BY <1>2, <1>3, <1>6, <2>1, <2>5, OnlyRequest DEF tables
<1> QED BY <1>1, <1>4, <1>5, <1>6 DEF CreateReporter

LEMMA StepCreateSubject ==
    ASSUME Inv, schema' = schema, NEW q \in Requests, CreateSubject(q)
    PROVE  Inv'
<1>1. PICK s \in Request : s = req[q] /\ Knows(s)
    BY AtPlace
<1>2. /\ s.at = "subject" /\ s.kind \in {"submit", "adminSubject"} /\ s.answer = "none" /\ ~Uploading(req[q])
      /\ s.kind = "submit" => s.reporter \in DOMAIN reporters /\ reporters[s.reporter].key = s.email
    BY <1>1 DEF CreateSubject, Knows, Placed, Reported, Uploading
<1>3. UNCHANGED <<reporters, cases, tokens, evidence, comms, outside, pending>> /\ faults \subseteq faults'
    BY Faulty DEF CreateSubject
<1>4. ASSUME NEW type \in {"url", "hash"},
             subjects' = Append(subjects, [key |-> s.hash, type |-> type, checked |-> 0, by |-> s.kind]),
             IF s.kind = "submit" THEN Move(q, "case") ELSE Answer(q, [s EXCEPT !.made = Len(subjects')])
      PROVE  Inv'
  <2>1. PICK n, e : n = Len(subjects) + 1 /\ e = [key |-> s.hash, type |-> type, checked |-> 0, by |-> s.kind]
      OBVIOUS
  <2>2. e \in SubjectRow /\ e.key = s.hash /\ e.by = s.kind
      BY <1>2, <2>1 DEF SubjectRow, Request
  <2>3. subjects \in Seq(SubjectRow) /\ subjects' = Append(subjects, e)
      BY <1>4, <2>1 DEF Inv, TypeInv
  <2>4. /\ subjects' \in Seq(SubjectRow) /\ Len(subjects') = n /\ n \in Nat
        /\ DOMAIN subjects' = DOMAIN subjects \cup {n} /\ n \notin DOMAIN subjects
        /\ \A i \in DOMAIN subjects : subjects'[i] = subjects[i] /\ i < n /\ i \in Nat
        /\ subjects'[n] = e
      BY <2>1, <2>2, <2>3, Appended
  <2>5. Grow
      BY <1>3, <2>4 DEF Grow, outside
  <2>6. PICK r \in Request : /\ Go(q, r) /\ r.kind = s.kind /\ r.email = s.email /\ r.hash = s.hash
                             /\ s.kind = "submit" => r.at = "case" /\ r.reporter = s.reporter /\ r.answer = "none"
                             /\ s.kind # "submit" => r.at = "done" /\ r.made = n
    <3>1. CASE s.kind = "submit"
      <4> DEFINE r == [s EXCEPT !.at = "case"]
      <4>1. /\ r \in Request /\ r.kind = s.kind /\ r.email = s.email /\ r.hash = s.hash /\ r.at = "case"
            /\ r.reporter = s.reporter /\ r.answer = "none"
          BY <1>2 DEF Request, Places
      <4>2. Go(q, r)
          BY <1>1, <1>4, <3>1 DEF Move, Go, Inv, TypeInv
      <4> HIDE DEF r
      <4> QED BY <3>1, <4>1, <4>2
    <3>2. CASE s.kind # "submit"
      <4> DEFINE r == [[s EXCEPT !.made = n] EXCEPT !.at = "done", !.answer = "ok"]
      <4>1. r \in Request /\ r.kind = s.kind /\ r.email = s.email /\ r.hash = s.hash /\ r.at = "done" /\ r.made = n
          BY <1>2, <2>4 DEF Request, Places
      <4>2. Go(q, r)
          BY <1>4, <2>4, <3>2 DEF Answer, Go
      <4> HIDE DEF r
      <4> QED BY <3>2, <4>1, <4>2
    <3> QED BY <3>1, <3>2
  <2>7. Knows(r)' /\ ~Uploading(r)
      BY <1>2, <1>3, <2>2, <2>4, <2>6 DEF Knows, Placed, Reported, Granted, Filed, Answered, Uploading
  <2>8. TypeInv' /\ RequestInv' /\ LeftInv'
    <3>1. req' \in [Requests -> Request] /\ RequestInv' /\ LeftInv'
        BY <1>2, <1>3, <2>5, <2>6, <2>7, StepRow DEF outside
    <3> QED BY <1>3, <2>4, <3>1 DEF Inv, TypeInv
  <2>9. CaseInv' /\ TokenInv' /\ NoticeInv' /\ CommInv' /\ FileInv' /\ ObjectInv'
      BY <1>3, <2>5, RowsKept DEF outside
  <2>10. DoubleInv'
    <3>1. ASSUME NEW i \in DOMAIN subjects', NEW j \in DOMAIN subjects', i < j,
                 subjects'[i].key = subjects'[j].key, subjects'[i].type = "hash", subjects'[j].by = "find"
          PROVE  subjects'[j].checked < i
      <4>1. j \in DOMAIN subjects
          BY <1>2, <2>2, <2>4, <3>1
      <4>2. i \in DOMAIN subjects
          BY <2>4, <3>1, <4>1
      <4> QED BY <2>4, <3>1, <4>1, <4>2 DEF Inv, DoubleInv
    <3> QED BY <1>3, <3>1 DEF Inv, DoubleInv, UniqueEmail
  <2> QED BY <2>8, <2>9, <2>10 DEF Inv
<1>5. CASE UNCHANGED subjects /\ Fail(q, "error")
    BY <1>2, <1>3, <1>5, OnlyFail DEF tables
<1> QED BY <1>1, <1>4, <1>5 DEF CreateSubject

LEMMA StepInsertSubject ==
    ASSUME Inv, schema' = schema, NEW q \in Requests, InsertSubject(q)
    PROVE  Inv'
<1>1. PICK s \in Request : s = req[q] /\ Knows(s)
    BY AtPlace
<1>2. s.at = "insert" /\ s.kind = "find" /\ s.answer = "none" /\ ~Uploading(req[q]) /\ s.since \in Nat
    BY <1>1 DEF InsertSubject, Knows, Placed, Uploading, Request
<1>3. UNCHANGED <<reporters, cases, tokens, evidence, comms, outside, pending>> /\ faults \subseteq faults'
    BY Faulty DEF InsertSubject
<1>4. ASSUME subjects' = Append(subjects, [key |-> s.hash, type |-> "hash", checked |-> s.since, by |-> "find"]),
             Answer(q, s)
      PROVE  Inv'
  <2>1. PICK n, e : n = Len(subjects) + 1 /\ e = [key |-> s.hash, type |-> "hash", checked |-> s.since, by |-> "find"]
      OBVIOUS
  <2>2. e \in SubjectRow /\ e.key = s.hash /\ e.by = "find" /\ e.type = "hash" /\ e.checked = s.since
      BY <1>2, <2>1 DEF SubjectRow, Request, Kinds
  <2>3. subjects \in Seq(SubjectRow) /\ subjects' = Append(subjects, e)
      BY <1>4, <2>1 DEF Inv, TypeInv
  <2>4. /\ subjects' \in Seq(SubjectRow) /\ Len(subjects') = n /\ n \in Nat
        /\ DOMAIN subjects' = DOMAIN subjects \cup {n} /\ n \notin DOMAIN subjects
        /\ \A i \in DOMAIN subjects : subjects'[i] = subjects[i] /\ i < n /\ i \in Nat
        /\ subjects'[n] = e
      BY <2>1, <2>2, <2>3, Appended
  <2>5. Grow
      BY <1>3, <2>4 DEF Grow, outside
  <2>6. PICK r \in Request : Go(q, r) /\ r.kind = "find" /\ r.hash = s.hash /\ r.at = "done"
    <3> DEFINE r == [s EXCEPT !.at = "done", !.answer = "ok"]
    <3>1. r \in Request /\ r.kind = "find" /\ r.hash = s.hash /\ r.at = "done"
        BY <1>2 DEF Request, Places
    <3>2. Go(q, r)
        BY <1>4 DEF Answer, Go
    <3> HIDE DEF r
    <3> QED BY <3>1, <3>2
  <2>7. Knows(r)' /\ ~Uploading(r)
      BY <1>2, <2>2, <2>4, <2>6 DEF Knows, Placed, Reported, Granted, Filed, Answered, Uploading, Known
  <2>8. TypeInv' /\ RequestInv' /\ LeftInv'
    <3>1. req' \in [Requests -> Request] /\ RequestInv' /\ LeftInv'
        BY <1>2, <1>3, <2>5, <2>6, <2>7, StepRow DEF outside
    <3> QED BY <1>3, <2>4, <3>1 DEF Inv, TypeInv
  <2>9. CaseInv' /\ TokenInv' /\ NoticeInv' /\ CommInv' /\ FileInv' /\ ObjectInv'
      BY <1>3, <2>5, RowsKept DEF outside
  <2>10. DoubleInv'
    <3>1. ASSUME NEW i \in DOMAIN subjects', NEW j \in DOMAIN subjects', i < j,
                 subjects'[i].key = subjects'[j].key, subjects'[i].type = "hash", subjects'[j].by = "find"
          PROVE  subjects'[j].checked < i
      <4>1. CASE j \in DOMAIN subjects
        <5>1. i \in DOMAIN subjects
            BY <2>4, <3>1, <4>1
        <5> QED BY <2>4, <3>1, <4>1, <5>1 DEF Inv, DoubleInv
      <4>2. CASE j = n
        <5>1. i \in DOMAIN subjects /\ i \in Nat /\ subjects[i].key = s.hash /\ subjects[i].type = "hash"
            BY <2>2, <2>4, <3>1, <4>2
        <5>2. \A k \in 1..s.since : ~(subjects[k].key = s.hash /\ subjects[k].type = "hash")
            BY <1>1, <1>2 DEF Knows, Reported
        <5>3. i >= 1
            BY <2>3, <5>1
        <5> QED BY <1>2, <2>2, <2>4, <4>2, <5>1, <5>2, <5>3
      <4> QED BY <2>4, <4>1, <4>2
    <3> QED BY <1>3, <3>1 DEF Inv, DoubleInv, UniqueEmail
  <2> QED BY <2>8, <2>9, <2>10 DEF Inv
<1>5. CASE UNCHANGED subjects /\ Fail(q, "error")
    BY <1>2, <1>3, <1>5, OnlyFail DEF tables
<1> QED BY <1>1, <1>4, <1>5 DEF InsertSubject

LEMMA StepCreateCase ==
    ASSUME Inv, schema' = schema, NEW q \in Requests, CreateCase(q)
    PROVE  Inv'
<1>1. PICK s \in Request : s = req[q] /\ Knows(s)
    BY AtPlace
<1>2. /\ s.at = "case" /\ s.kind \in {"submit", "adminCase"} /\ s.answer = "none" /\ ~Uploading(req[q])
      /\ s.reporter \in DOMAIN reporters /\ s.reporter \in Nat
      /\ s.kind = "submit" => reporters[s.reporter].key = s.email
    BY <1>1 DEF CreateCase, Knows, Placed, Reported, Uploading, Request
<1>3. UNCHANGED <<reporters, subjects, tokens, evidence, comms, outside>> /\ faults \subseteq faults'
    BY Faulty DEF CreateCase
<1>4. ASSUME cases' = Append(cases, [reporter |-> s.reporter, owners |-> <<s.reporter>>]),
             pending' = pending \cup {[kind |-> "creation", of |-> Len(cases')]},
             IF s.kind = "submit" THEN Go(q, [s EXCEPT !.at = "token", !.case = Len(cases')])
             ELSE Answer(q, [s EXCEPT !.case = Len(cases')])
      PROVE  Inv'
  <2>1. PICK n, e : n = Len(cases) + 1 /\ e = [reporter |-> s.reporter, owners |-> <<s.reporter>>]
      OBVIOUS
  <2>2. /\ e \in CaseRow /\ e.reporter = s.reporter /\ e.owners = <<s.reporter>>
        /\ Len(e.owners) = 1 /\ DOMAIN e.owners = {1} /\ e.owners[1] = s.reporter /\ e.owners # <<>>
      BY <1>2, <2>1 DEF CaseRow
  <2>3. cases \in Seq(CaseRow) /\ cases' = Append(cases, e)
      BY <1>4, <2>1 DEF Inv, TypeInv
  <2>4. /\ cases' \in Seq(CaseRow) /\ Len(cases') = n /\ n \in Nat
        /\ DOMAIN cases' = DOMAIN cases \cup {n} /\ n \notin DOMAIN cases
        /\ \A i \in DOMAIN cases : cases'[i] = cases[i] /\ i < n /\ i \in Nat
        /\ cases'[n] = e
      BY <2>1, <2>2, <2>3, Appended
  <2>5. Grow
      BY <1>3, <2>4 DEF Grow, outside
  <2>6. PICK r \in Request : /\ Go(q, r) /\ r.kind = s.kind /\ r.email = s.email /\ r.case = n /\ r.reporter = s.reporter
                             /\ s.kind = "submit" => r.at = "token" /\ r.answer = "none"
                             /\ s.kind # "submit" => r.at = "done"
    <3>1. CASE s.kind = "submit"
      <4> DEFINE r == [s EXCEPT !.at = "token", !.case = n]
      <4>1. /\ r \in Request /\ r.kind = s.kind /\ r.email = s.email /\ r.at = "token" /\ r.case = n
            /\ r.reporter = s.reporter /\ r.answer = "none"
          BY <1>2, <2>4 DEF Request, Places
      <4>2. Go(q, r)
          BY <1>4, <2>4, <3>1
      <4> HIDE DEF r
      <4> QED BY <3>1, <4>1, <4>2
    <3>2. CASE s.kind # "submit"
      <4> DEFINE r == [[s EXCEPT !.case = n] EXCEPT !.at = "done", !.answer = "ok"]
      <4>1. r \in Request /\ r.kind = s.kind /\ r.email = s.email /\ r.at = "done" /\ r.case = n /\ r.reporter = s.reporter
          BY <1>2, <2>4 DEF Request, Places
      <4>2. Go(q, r)
          BY <1>4, <2>4, <3>2 DEF Answer, Go
      <4> HIDE DEF r
      <4> QED BY <3>2, <4>1, <4>2
    <3> QED BY <3>1, <3>2
  <2>7. Knows(r)' /\ ~Uploading(r)
      BY <1>2, <1>3, <2>2, <2>4, <2>6 DEF Knows, Placed, Reported, Granted, Filed, Answered, Uploading, Owned
  <2>8. TypeInv' /\ RequestInv' /\ LeftInv'
    <3>1. req' \in [Requests -> Request] /\ RequestInv' /\ LeftInv'
        BY <1>2, <1>3, <2>5, <2>6, <2>7, StepRow DEF outside
    <3>2. [kind |-> "creation", of |-> Len(cases')] \in Notices
        BY <2>4 DEF Notices
    <3>3. pending' \subseteq Notices
        BY <1>4, <3>2 DEF Inv, TypeInv
    <3> QED BY <1>3, <2>4, <3>1, <3>3 DEF Inv, TypeInv
  <2>9. CaseInv'
      BY <1>2, <1>3, <2>2, <2>4 DEF Inv, CaseInv
  <2>10. TokenInv' /\ CommInv' /\ FileInv' /\ ObjectInv' /\ DoubleInv'
      BY <1>3, <2>5, RowsKept DEF outside
  <2>11. NoticeInv'
      BY <1>3, <1>4, <2>4 DEF Inv, NoticeInv, outside
  <2> QED BY <2>8, <2>9, <2>10, <2>11 DEF Inv
<1>5. CASE UNCHANGED <<cases, pending>> /\ Fail(q, "error")
    BY <1>2, <1>3, <1>5, OnlyFail DEF tables
<1> QED BY <1>1, <1>4, <1>5 DEF CreateCase

LEMMA StepIssueToken ==
    ASSUME Inv, schema' = schema, NEW q \in Requests, IssueToken(q)
    PROVE  Inv'
<1>1. PICK s \in Request : s = req[q] /\ Knows(s)
    BY AtPlace
<1>2. /\ s.at = "token" /\ s.kind = "submit" /\ s.answer = "none" /\ ~Uploading(req[q])
      /\ s.reporter \in DOMAIN reporters /\ s.reporter \in Nat /\ reporters[s.reporter].key = s.email
      /\ s.case \in DOMAIN cases /\ s.case \in Nat /\ Owned(s.case, 1, s.reporter)
    BY <1>1 DEF IssueToken, Knows, Placed, Reported, Uploading, Request
<1>3. UNCHANGED <<reporters, subjects, cases, evidence, comms, outside, pending>> /\ faults \subseteq faults'
    BY Faulty DEF IssueToken
<1>4. ASSUME tokens' = Append(tokens, [case |-> s.case, reporter |-> s.reporter, told |-> TRUE]),
             Answer(q, [s EXCEPT !.made = Len(tokens')])
      PROVE  Inv'
  <2>1. PICK n, e : n = Len(tokens) + 1 /\ e = [case |-> s.case, reporter |-> s.reporter, told |-> TRUE]
      OBVIOUS
  <2>2. e \in TokenRow /\ e.case = s.case /\ e.reporter = s.reporter
      BY <1>2, <2>1 DEF TokenRow
  <2>3. tokens \in Seq(TokenRow) /\ tokens' = Append(tokens, e)
      BY <1>4, <2>1 DEF Inv, TypeInv
  <2>4. /\ tokens' \in Seq(TokenRow) /\ Len(tokens') = n /\ n \in Nat
        /\ DOMAIN tokens' = DOMAIN tokens \cup {n} /\ n \notin DOMAIN tokens
        /\ \A i \in DOMAIN tokens : tokens'[i] = tokens[i] /\ i < n /\ i \in Nat
        /\ tokens'[n] = e
      BY <2>1, <2>2, <2>3, Appended
  <2>5. Grow
      BY <1>3, <2>4 DEF Grow, outside
  <2>6. PICK r \in Request : /\ Go(q, r) /\ r.kind = "submit" /\ r.email = s.email /\ r.at = "done" /\ r.made = n
                             /\ r.case = s.case /\ r.answer = "ok"
    <3> DEFINE r == [[s EXCEPT !.made = n] EXCEPT !.at = "done", !.answer = "ok"]
    <3>1. /\ r \in Request /\ r.kind = "submit" /\ r.email = s.email /\ r.at = "done" /\ r.made = n
          /\ r.case = s.case /\ r.answer = "ok"
        BY <1>2, <2>4 DEF Request, Places
    <3>2. Go(q, r)
        BY <1>4, <2>4 DEF Answer, Go
    <3> HIDE DEF r
    <3> QED BY <3>1, <3>2
  <2>7. Knows(r)' /\ ~Uploading(r)
      BY <1>2, <1>3, <2>2, <2>4, <2>6 DEF Knows, Placed, Reported, Granted, Filed, Answered, Uploading, Owned
  <2>8. TypeInv' /\ RequestInv' /\ LeftInv'
    <3>1. req' \in [Requests -> Request] /\ RequestInv' /\ LeftInv'
        BY <1>2, <1>3, <2>5, <2>6, <2>7, StepRow DEF outside
    <3> QED BY <1>3, <2>4, <3>1 DEF Inv, TypeInv
  <2>9. TokenInv'
      BY <1>2, <1>3, <2>2, <2>4 DEF Inv, TokenInv
  <2>10. CaseInv' /\ NoticeInv' /\ CommInv' /\ FileInv' /\ ObjectInv' /\ DoubleInv'
      BY <1>3, <2>5, RowsKept DEF outside
  <2> QED BY <2>8, <2>9, <2>10 DEF Inv
<1>5. CASE UNCHANGED tokens /\ Fail(q, "error")
    BY <1>2, <1>3, <1>5, OnlyFail DEF tables
<1> QED BY <1>1, <1>4, <1>5 DEF IssueToken

LEMMA StepStoreComm ==
    ASSUME Inv, schema' = schema, NEW q \in Requests, StoreComm(q)
    PROVE  Inv'
<1>1. PICK s \in Request : s = req[q] /\ Knows(s)
    BY AtPlace
<1>2. /\ s.at = "store" /\ s.kind \in {"comment", "upload", "adminComment"} /\ s.answer = "none" /\ ~Uploading(req[q])
      /\ s.case \in DOMAIN cases /\ s.case \in Nat /\ s.reporter \in Nat /\ s.since \in Nat /\ s.made \in Nat
      /\ s.kind # "adminComment" => Holds(s.case, s.reporter) /\ Owned(s.case, s.since, s.reporter)
      /\ s.kind # "upload" => s.made = 0
      /\ s.kind = "upload" => s.made \in DOMAIN evidence /\ evidence[s.made].case = s.case /\ evidence[s.made].path
    BY <1>1 DEF StoreComm, Knows, Placed, Granted, Filed, Uploading, Request
<1>3. UNCHANGED <<reporters, subjects, cases, tokens, evidence, outside>> /\ faults \subseteq faults'
    BY Faulty DEF StoreComm
<1>4. ASSUME comms' = Append(comms, [case |-> s.case, sender |-> Sender(s), since |-> s.since, of |-> s.kind]),
             Answer(q, [s EXCEPT !.made = IF s.made = 0 THEN Len(comms') ELSE s.made]),
             pending' = pending \/ pending' = pending \cup {[kind |-> "comment", of |-> Len(comms')]}
      PROVE  Inv'
  <2>1. PICK n, e : n = Len(comms) + 1 /\ e = [case |-> s.case, sender |-> Sender(s), since |-> s.since, of |-> s.kind]
      OBVIOUS
  <2>2. /\ e \in CommRow /\ e.case = s.case /\ e.since = s.since /\ e.of = s.kind
        /\ s.kind # "adminComment" => e.sender = s.reporter
    <3>1. Sender(s) \in Nat /\ (s.kind # "adminComment" => Sender(s) = s.reporter) /\ s.kind \in Kinds
        BY <1>2 DEF Sender, Kinds
    <3> HIDE DEF Sender
    <3> QED BY <1>2, <2>1, <3>1 DEF CommRow
  <2>3. comms \in Seq(CommRow) /\ comms' = Append(comms, e)
      BY <1>4, <2>1 DEF Inv, TypeInv
  <2>4. /\ comms' \in Seq(CommRow) /\ Len(comms') = n /\ n \in Nat
        /\ DOMAIN comms' = DOMAIN comms \cup {n} /\ n \notin DOMAIN comms
        /\ \A i \in DOMAIN comms : comms'[i] = comms[i] /\ i < n /\ i \in Nat
        /\ comms'[n] = e
      BY <2>1, <2>2, <2>3, Appended
  <2>5. Grow
      BY <1>3, <2>4 DEF Grow, outside
  <2>6. PICK m \in Nat : m = IF s.made = 0 THEN n ELSE s.made
      BY <1>2, <2>4
  <2>7. PICK r \in Request : Go(q, r) /\ r.kind = s.kind /\ r.at = "done" /\ r.made = m /\ r.case = s.case
    <3> DEFINE r == [[s EXCEPT !.made = m] EXCEPT !.at = "done", !.answer = "ok"]
    <3>1. r \in Request /\ r.kind = s.kind /\ r.at = "done" /\ r.made = m /\ r.case = s.case
        BY <1>2, <2>6 DEF Request, Places
    <3>2. Go(q, r)
        BY <1>4, <2>4, <2>6 DEF Answer, Go
    <3> HIDE DEF r
    <3> QED BY <3>1, <3>2
  <2>8. Knows(r)' /\ ~Uploading(r)
    <3>1. s.kind = "upload" => m = s.made
      <4>1. evidence \in Seq(EvidenceRow)
          BY DEF Inv, TypeInv
      <4>2. s.kind = "upload" => s.made # 0
          BY <1>2, <4>1
      <4> QED BY <2>6, <4>2
    <3>2. s.kind # "upload" => m \in DOMAIN comms' /\ comms'[m].case = s.case
        BY <1>2, <2>2, <2>4, <2>6
    <3> QED BY <1>2, <1>3, <2>7, <3>1, <3>2 DEF Knows, Placed, Reported, Granted, Filed, Answered, Uploading
  <2>9. TypeInv' /\ RequestInv' /\ LeftInv'
    <3>1. req' \in [Requests -> Request] /\ RequestInv' /\ LeftInv'
        BY <1>2, <1>3, <2>5, <2>7, <2>8, StepRow DEF outside
    <3>2. [kind |-> "comment", of |-> Len(comms')] \in Notices
        BY <2>4 DEF Notices
    <3>3. pending' \subseteq Notices
        BY <1>4, <3>2 DEF Inv, TypeInv
    <3> QED BY <1>3, <2>4, <3>1, <3>3 DEF Inv, TypeInv
  <2>10. CommInv'
      BY <1>2, <1>3, <2>2, <2>4 DEF Inv, CommInv, Owned, Holds
  <2>11. CaseInv' /\ TokenInv' /\ FileInv' /\ ObjectInv' /\ DoubleInv'
      BY <1>3, <2>5, RowsKept DEF outside
  <2>12. NoticeInv'
      BY <1>3, <1>4, <2>4 DEF Inv, NoticeInv, outside
  <2> QED BY <2>9, <2>10, <2>11, <2>12 DEF Inv
<1>5. CASE UNCHANGED <<comms, pending>> /\ Fail(q, "error")
    BY <1>2, <1>3, <1>5, OnlyFail DEF tables
<1> QED BY <1>1, <1>4, <1>5 DEF StoreComm

(* Files. *)

LEMMA StepCreateRow ==
    ASSUME Inv, schema' = schema, NEW q \in Requests, CreateRow(q)
    PROVE  Inv'
<1>1. PICK s \in Request : s = req[q] /\ Knows(s)
    BY AtPlace
<1>2. /\ s.at = "row" /\ s.kind \in {"upload", "adminUpload"} /\ s.answer = "none" /\ ~Uploading(req[q])
      /\ s.case \in DOMAIN cases /\ s.case \in Nat /\ s.reporter \in Nat
      /\ s.kind = "upload" => Holds(s.case, s.reporter) /\ Owned(s.case, s.since, s.reporter)
    BY <1>1 DEF CreateRow, Knows, Placed, Granted, Uploading, Request
<1>3. UNCHANGED <<reporters, subjects, cases, tokens, comms, outside, pending>> /\ faults \subseteq faults'
    BY Faulty DEF CreateRow
<1>4. ASSUME evidence' = Append(evidence, [case |-> s.case, by |-> Sender(s), of |-> s.kind, path |-> FALSE, live |-> TRUE]),
             Go(q, [s EXCEPT !.at = "object", !.made = Len(evidence')])
      PROVE  Inv'
  <2>1. PICK n, e : n = Len(evidence) + 1 /\ e = [case |-> s.case, by |-> Sender(s), of |-> s.kind, path |-> FALSE, live |-> TRUE]
      OBVIOUS
  <2>2. /\ e \in EvidenceRow /\ e.case = s.case /\ e.of = s.kind /\ ~e.path /\ e.live
        /\ s.kind = "upload" => e.by = s.reporter
    <3>1. Sender(s) \in Nat /\ (s.kind = "upload" => Sender(s) = s.reporter) /\ s.kind \in Kinds
        BY <1>2 DEF Sender, Kinds
    <3> HIDE DEF Sender
    <3> QED BY <1>2, <2>1, <3>1 DEF EvidenceRow
  <2>3. evidence \in Seq(EvidenceRow) /\ evidence' = Append(evidence, e)
      BY <1>4, <2>1 DEF Inv, TypeInv
  <2>4. /\ evidence' \in Seq(EvidenceRow) /\ Len(evidence') = n /\ n \in Nat
        /\ DOMAIN evidence' = DOMAIN evidence \cup {n} /\ n \notin DOMAIN evidence
        /\ \A i \in DOMAIN evidence : evidence'[i] = evidence[i] /\ i < n /\ i \in Nat
        /\ evidence'[n] = e
      BY <2>1, <2>2, <2>3, Appended
  <2>5. Grow
      BY <1>3, <2>4 DEF Grow, outside
  <2>6. PICK r \in Request : /\ Go(q, r) /\ r.kind = s.kind /\ r.at = "object" /\ r.made = n /\ r.case = s.case
                             /\ r.reporter = s.reporter /\ r.since = s.since /\ r.answer = "none"
    <3> DEFINE r == [s EXCEPT !.at = "object", !.made = n]
    <3>1. /\ r \in Request /\ r.kind = s.kind /\ r.at = "object" /\ r.made = n /\ r.case = s.case
          /\ r.reporter = s.reporter /\ r.since = s.since /\ r.answer = "none"
        BY <1>2, <2>4 DEF Request, Places
    <3>2. Go(q, r)
        BY <1>4, <2>4
    <3> HIDE DEF r
    <3> QED BY <3>1, <3>2
  <2>7. Knows(r)' /\ Uploading(r)
    <3>1. Filed(r)'
      <4>1. n \notin objects'
          BY <1>3, <2>4 DEF Inv, ObjectInv, outside
      <4> QED BY <2>2, <2>4, <2>6, <4>1 DEF Filed, Uploading
    <3>2. Granted(r)'
        BY <1>2, <1>3, <2>6 DEF Granted, Holds, Owned
    <3> QED BY <1>2, <2>6, <3>1, <3>2 DEF Knows, Placed, Reported, Answered, Uploading
  <2>8. TypeInv' /\ RequestInv' /\ LeftInv'
    <3>1. req' \in [Requests -> Request] /\ Others(q) /\ req'[q] = r
        BY <2>6, GoShape DEF Inv
    <3>2. RequestInv'
        BY <1>3, <2>4, <2>5, <2>6, <2>7, <3>1, StepRequest DEF outside
    <3>3. LeftInv'
        BY <1>2, <1>3, <2>4, <2>5, <2>6, <2>7, <3>1, StepLeft DEF outside
    <3> QED BY <1>3, <2>4, <3>1, <3>2, <3>3 DEF Inv, TypeInv
  <2>9. FileInv'
    <3> SUFFICES ASSUME NEW i \in DOMAIN evidence'
                 PROVE  /\ evidence'[i].case \in DOMAIN cases
                        /\ evidence'[i].of = "upload" =>
                              \E k \in DOMAIN cases[evidence'[i].case].owners :
                                  cases[evidence'[i].case].owners[k] = evidence'[i].by
                        /\ evidence'[i].path => evidence'[i].live /\ i \in objects
        BY <1>3 DEF FileInv, Owned, outside
    <3>1. CASE i = n
        BY <1>2, <2>2, <2>4, <3>1 DEF Owned
    <3>2. CASE i \in DOMAIN evidence
        BY <2>4, <3>2 DEF Inv, FileInv, Owned
    <3> QED BY <2>4, <3>1, <3>2
  <2>10. CaseInv' /\ TokenInv' /\ NoticeInv' /\ CommInv' /\ DoubleInv'
      BY <1>3, <2>5, RowsKept DEF outside
  <2>11. ObjectInv'
      BY <1>3, <2>4 DEF Inv, ObjectInv, outside
  <2> QED BY <2>8, <2>9, <2>10, <2>11 DEF Inv
<1>5. CASE UNCHANGED evidence /\ Fail(q, "error")
    BY <1>2, <1>3, <1>5, OnlyFail DEF tables
<1> QED BY <1>1, <1>4, <1>5 DEF CreateRow

LEMMA StepUpload ==
    ASSUME Inv, schema' = schema, NEW q \in Requests, Upload(q)
    PROVE  Inv'
<1>1. PICK s \in Request : s = req[q] /\ Knows(s)
    BY AtPlace
<1>2. /\ s.at = "object" /\ s.kind \in {"upload", "adminUpload"} /\ s.answer = "none" /\ Uploading(s)
      /\ s.case \in DOMAIN cases
      /\ s.kind = "upload" => Holds(s.case, s.reporter) /\ Owned(s.case, s.since, s.reporter)
      /\ s.made \in DOMAIN evidence /\ evidence[s.made].case = s.case /\ evidence[s.made].live /\ ~evidence[s.made].path
      /\ s.made \notin objects
    BY <1>1 DEF Upload, Knows, Placed, Granted, Filed, Uploading
<1>3. UNCHANGED <<tables, mails, pending>> /\ faults \subseteq faults' /\ objects \subseteq objects'
    BY Faulty DEF Upload
<1>4. PICK l \in {"path", "rollback"} :
         /\ Move(q, l)
         /\ l = "path" => objects' = objects \cup {s.made}
         /\ l = "rollback" => objects' = objects /\ "object" \in faults'
    BY <1>1 DEF Upload, Fault
<1> DEFINE r == [s EXCEPT !.at = l]
<1>5. /\ r \in Request /\ r.kind = s.kind /\ r.at = l /\ r.made = s.made /\ r.case = s.case
      /\ r.reporter = s.reporter /\ r.since = s.since /\ r.answer = "none"
    BY <1>2 DEF Request, Places
<1>6. Go(q, r)
    BY <1>1, <1>4 DEF Go, Move, Inv, TypeInv
<1> HIDE DEF r
<1>7. Grow
    BY <1>3 DEF Grow, tables
<1>8. Knows(r)' /\ Uploading(r)
  <2>1. Filed(r)'
      BY <1>2, <1>3, <1>4, <1>5 DEF Filed, Uploading, tables
  <2>2. Granted(r)'
      BY <1>2, <1>3, <1>5 DEF Granted, Holds, Owned, tables
  <2> QED BY <1>2, <1>5, <2>1, <2>2 DEF Knows, Placed, Reported, Answered, Uploading
<1>9. TypeInv' /\ RequestInv' /\ LeftInv'
  <2>1. req' \in [Requests -> Request] /\ Others(q) /\ req'[q] = r
      BY <1>5, <1>6, GoShape DEF Inv
  <2>2. RequestInv' /\ LeftInv'
      BY <1>1, <1>2, <1>3, <1>4, <1>5, <1>7, <1>8, <2>1, StepRequest, StepLeft DEF tables
  <2> QED BY <1>3, <2>1, <2>2 DEF Inv, TypeInv, tables
<1>10. CaseInv' /\ TokenInv' /\ NoticeInv' /\ CommInv' /\ FileInv' /\ DoubleInv'
    BY <1>3, <1>7, RowsKept DEF tables
<1>11. ObjectInv'
    BY <1>2, <1>3, <1>4 DEF Inv, ObjectInv, tables
<1> QED BY <1>9, <1>10, <1>11 DEF Inv

\* A file's row is changed, one that is not saved with its path yet.
LEMMA FileChanged ==
    ASSUME Inv, NEW m \in DOMAIN evidence, ~evidence[m].path, NEW e, e \in EvidenceRow,
           evidence' = [evidence EXCEPT ![m] = e],
           e.case = evidence[m].case, e.of = evidence[m].of, e.by = evidence[m].by, e.path => e.live /\ m \in objects,
           m \in objects => e.live,
           UNCHANGED <<reporters, subjects, cases, tokens, comms, outside>>, faults \subseteq faults'
    PROVE  /\ evidence' \in Seq(EvidenceRow) /\ DOMAIN evidence' = DOMAIN evidence /\ evidence'[m] = e
           /\ \A i \in DOMAIN evidence : i # m => evidence'[i] = evidence[i]
           /\ Grow /\ FileInv' /\ ObjectInv'
<1>1. /\ evidence' \in Seq(EvidenceRow) /\ DOMAIN evidence' = DOMAIN evidence /\ evidence'[m] = e
      /\ \A i \in DOMAIN evidence : i # m => evidence'[i] = evidence[i]
    BY DEF Inv, TypeInv
<1>2. Grow
    BY <1>1 DEF Grow, outside
<1>3. FileInv'
  <2> SUFFICES ASSUME NEW i \in DOMAIN evidence
               PROVE  /\ evidence'[i].case \in DOMAIN cases
                      /\ evidence'[i].of = "upload" =>
                            \E k \in DOMAIN cases[evidence'[i].case].owners :
                                cases[evidence'[i].case].owners[k] = evidence'[i].by
                      /\ evidence'[i].path => evidence'[i].live /\ i \in objects
      BY <1>1 DEF FileInv, Owned, outside
  <2>1. CASE i = m
      BY <1>1, <2>1 DEF Inv, FileInv, Owned
  <2>2. CASE i # m
      BY <1>1, <2>2 DEF Inv, FileInv, Owned
  <2> QED BY <2>1, <2>2
<1>4. ObjectInv'
    BY <1>1 DEF Inv, ObjectInv, outside
<1> QED BY <1>1, <1>2, <1>3, <1>4

LEMMA StepRollback ==
    ASSUME Inv, schema' = schema, NEW q \in Requests, Rollback(q)
    PROVE  Inv'
<1>1. PICK s \in Request : s = req[q] /\ Knows(s)
    BY AtPlace
<1>2. /\ s.at = "rollback" /\ Uploading(s) /\ s.made \in DOMAIN evidence /\ ~evidence[s.made].path
      /\ s.made \notin objects /\ "object" \in faults
    BY <1>1 DEF Rollback, Knows, Filed, Uploading
<1>3. UNCHANGED <<reporters, subjects, cases, tokens, comms, outside, pending>> /\ faults \subseteq faults' /\ Fail(q, "error")
    BY Faulty DEF Rollback
<1>4. CASE evidence' = [evidence EXCEPT ![s.made].live = FALSE]
  <2>1. PICK m, e : m = s.made /\ e = [evidence[m] EXCEPT !.live = FALSE]
      OBVIOUS
  <2>2. m \in DOMAIN evidence /\ evidence[m] \in EvidenceRow
      BY <1>2, <2>1 DEF Inv, TypeInv
  <2>3. /\ e \in EvidenceRow /\ e.case = evidence[m].case /\ e.of = evidence[m].of /\ e.by = evidence[m].by
        /\ ~e.live /\ e.path = evidence[m].path
      BY <2>1, <2>2 DEF EvidenceRow
  <2>4. evidence' = [evidence EXCEPT ![m] = e]
      BY <1>4, <2>1
  <2>5. /\ evidence' \in Seq(EvidenceRow) /\ DOMAIN evidence' = DOMAIN evidence /\ evidence'[m] = e
        /\ \A i \in DOMAIN evidence : i # m => evidence'[i] = evidence[i]
        /\ Grow /\ FileInv' /\ ObjectInv'
      BY <1>2, <1>3, <2>1, <2>2, <2>3, <2>4, FileChanged
  <2>6. PICK r \in Request : Go(q, r) /\ Knows(r)' /\ ~Uploading(r)
      BY <1>3, FailShape DEF Inv
  <2>7. TypeInv' /\ RequestInv' /\ LeftInv'
    <3>1. req' \in [Requests -> Request] /\ Others(q) /\ req'[q] = r
        BY <2>6, GoShape DEF Inv
    <3>2. RequestInv'
        BY <1>1, <1>2, <1>3, <2>1, <2>5, <2>6, <3>1, StepRequest DEF outside
    <3>3. \A i \in DOMAIN evidence' : \/ i \in DOMAIN evidence /\ evidence'[i] = evidence[i]
                                      \/ ~evidence'[i].live \/ evidence'[i].path
        BY <2>3, <2>5
    <3>4. ~evidence'[req[q].made].live
        BY <1>1, <2>1, <2>3, <2>5
    <3>5. LeftInv'
        BY <1>3, <2>5, <2>6, <3>1, <3>3, <3>4, StepLeft DEF outside
    <3> QED BY <1>3, <2>5, <3>1, <3>2, <3>5 DEF Inv, TypeInv
  <2>8. CaseInv' /\ TokenInv' /\ NoticeInv' /\ CommInv' /\ DoubleInv'
      BY <1>3, <2>5, RowsKept DEF outside
  <2> QED BY <2>5, <2>7, <2>8 DEF Inv
<1>5. CASE UNCHANGED evidence /\ Fault("rollback")
  <2>1. \A i \in DOMAIN evidence : (Uploading(req[q]) /\ i = req[q].made) => Excused(i)'
      BY <1>1, <1>2, <1>3, <1>5 DEF Excused, Fault, outside
  <2> QED BY <1>3, <1>5, <2>1, OnlyFail DEF tables
<1> QED BY <1>1, <1>4, <1>5 DEF Rollback

LEMMA StepSavePath ==
    ASSUME Inv, schema' = schema, NEW q \in Requests, SavePath(q)
    PROVE  Inv'
<1>1. PICK s \in Request : s = req[q] /\ Knows(s)
    BY AtPlace
<1>2. /\ s.at = "path" /\ s.kind \in {"upload", "adminUpload"} /\ s.answer = "none" /\ Uploading(s)
      /\ s.case \in DOMAIN cases /\ s.made \in objects /\ s.made \in Nat
      /\ s.kind = "upload" => Holds(s.case, s.reporter) /\ Owned(s.case, s.since, s.reporter)
      /\ s.made \in DOMAIN evidence /\ evidence[s.made].case = s.case /\ evidence[s.made].live /\ ~evidence[s.made].path
    BY <1>1 DEF SavePath, Knows, Placed, Granted, Filed, Uploading, Request
<1>3. UNCHANGED <<reporters, subjects, cases, tokens, comms, outside>> /\ faults \subseteq faults'
    BY Faulty DEF SavePath
<1>4. ASSUME evidence' = [evidence EXCEPT ![s.made].path = TRUE],
             pending' = pending \cup {[kind |-> "evidence", of |-> s.made]},
             IF s.kind = "upload" THEN Move(q, "store") ELSE Answer(q, s)
      PROVE  Inv'
  <2>1. PICK m, e : m = s.made /\ e = [evidence[m] EXCEPT !.path = TRUE]
      OBVIOUS
  <2>2. m \in DOMAIN evidence /\ evidence[m] \in EvidenceRow
      BY <1>2, <2>1 DEF Inv, TypeInv
  <2>3. /\ e \in EvidenceRow /\ e.case = evidence[m].case /\ e.of = evidence[m].of /\ e.by = evidence[m].by
        /\ e.live = evidence[m].live /\ e.path
      BY <2>1, <2>2 DEF EvidenceRow
  <2>4. evidence' = [evidence EXCEPT ![m] = e]
      BY <1>4, <2>1
  <2>5. /\ evidence' \in Seq(EvidenceRow) /\ DOMAIN evidence' = DOMAIN evidence /\ evidence'[m] = e
        /\ \A i \in DOMAIN evidence : i # m => evidence'[i] = evidence[i]
        /\ Grow /\ FileInv' /\ ObjectInv'
      BY <1>2, <1>3, <2>1, <2>2, <2>3, <2>4, FileChanged
  <2>6. PICK r \in Request : /\ Go(q, r) /\ r.kind = s.kind /\ r.made = m /\ r.case = s.case
                             /\ r.reporter = s.reporter /\ r.since = s.since
                             /\ s.kind = "upload" => r.at = "store" /\ r.answer = "none"
                             /\ s.kind # "upload" => r.at = "done" /\ r.answer = "ok"
    <3>1. CASE s.kind = "upload"
      <4> DEFINE r == [s EXCEPT !.at = "store"]
      <4>1. /\ r \in Request /\ r.kind = s.kind /\ r.at = "store" /\ r.made = m /\ r.case = s.case
            /\ r.reporter = s.reporter /\ r.since = s.since /\ r.answer = "none"
          BY <1>2, <2>1 DEF Request, Places
      <4>2. Go(q, r)
          BY <1>1, <1>4, <3>1 DEF Go, Move, Inv, TypeInv
      <4> HIDE DEF r
      <4> QED BY <3>1, <4>1, <4>2
    <3>2. CASE s.kind # "upload"
      <4> DEFINE r == [s EXCEPT !.at = "done", !.answer = "ok"]
      <4>1. /\ r \in Request /\ r.kind = s.kind /\ r.at = "done" /\ r.made = m /\ r.case = s.case
            /\ r.reporter = s.reporter /\ r.since = s.since /\ r.answer = "ok"
          BY <1>2, <2>1 DEF Request, Places
      <4>2. Go(q, r)
          BY <1>4, <3>2 DEF Answer, Go
      <4> HIDE DEF r
      <4> QED BY <3>2, <4>1, <4>2
    <3> QED BY <3>1, <3>2
  <2>7. Knows(r)' /\ ~Uploading(r)
    <3>1. ~Uploading(r) /\ m \in DOMAIN evidence' /\ evidence'[m].case = s.case /\ evidence'[m].path
        BY <1>2, <2>1, <2>2, <2>3, <2>5, <2>6 DEF Uploading
    <3>3. Filed(r)'
        BY <2>6, <3>1 DEF Filed, Uploading
    <3>4. Answered(r)'
        BY <1>2, <2>6, <3>1 DEF Answered
    <3>2. Granted(r)'
        BY <1>2, <1>3, <2>6 DEF Granted, Holds, Owned
    <3> QED BY <1>2, <2>6, <3>1, <3>2, <3>3, <3>4 DEF Knows, Placed, Reported
  <2>8. TypeInv' /\ RequestInv' /\ LeftInv'
    <3>1. req' \in [Requests -> Request] /\ Others(q) /\ req'[q] = r
        BY <2>6, GoShape DEF Inv
    <3>2. RequestInv'
        BY <1>1, <1>2, <1>3, <2>1, <2>5, <2>6, <2>7, <3>1, StepRequest DEF outside
    <3>3. LeftInv'
      <4>1. \A i \in DOMAIN evidence' : \/ i \in DOMAIN evidence /\ evidence'[i] = evidence[i]
                                        \/ ~evidence'[i].live \/ evidence'[i].path
          BY <2>3, <2>5
      <4>2. evidence'[req[q].made].path
          BY <1>1, <2>1, <2>3, <2>5
      <4> QED BY <1>3, <2>5, <2>6, <2>7, <3>1, <4>1, <4>2, StepLeft DEF outside
    <3>4. [kind |-> "evidence", of |-> s.made] \in Notices
        BY <1>2 DEF Notices
    <3>5. pending' \subseteq Notices
        BY <1>4, <3>4 DEF Inv, TypeInv
    <3> QED BY <1>3, <2>5, <3>1, <3>2, <3>3, <3>5 DEF Inv, TypeInv
  <2>9. NoticeInv'
    <3>1. ASSUME NEW x, x.kind = "evidence", x.of \in DOMAIN evidence, evidence[x.of].path
          PROVE  x.of \in DOMAIN evidence' /\ evidence'[x.of].path
        BY <2>5, <3>1 DEF Grow
    <3>2. ASSUME NEW x \in pending'
          PROVE  /\ x.kind = "creation" => x.of \in DOMAIN cases'
                 /\ x.kind = "evidence" => x.of \in DOMAIN evidence' /\ evidence'[x.of].path
                 /\ x.kind = "comment" => x.of \in DOMAIN comms'
      <4>1. CASE x \in pending
          BY <1>3, <3>1, <4>1 DEF Inv, NoticeInv
      <4>2. CASE x = [kind |-> "evidence", of |-> s.made]
          BY <2>1, <2>2, <2>3, <2>5, <4>2
      <4> QED BY <1>4, <4>1, <4>2
    <3>3. ASSUME NEW x \in mails', x.kind = "evidence"
          PROVE  x.of \in DOMAIN evidence' /\ evidence'[x.of].path
        BY <1>3, <3>1, <3>3 DEF Inv, NoticeInv, outside
    <3> QED BY <3>2, <3>3 DEF NoticeInv
  <2>10. CaseInv' /\ TokenInv' /\ CommInv' /\ DoubleInv'
      BY <1>3, <2>5, RowsKept
  <2> QED BY <2>5, <2>8, <2>9, <2>10 DEF Inv
<1>5. CASE UNCHANGED <<evidence, pending>> /\ Fault("path") /\ Fail(q, "error")
  <2>1. \A i \in DOMAIN evidence : (Uploading(req[q]) /\ i = req[q].made) => Excused(i)'
      BY <1>1, <1>2, <1>3, <1>5 DEF Excused, Fault, outside
  <2> QED BY <1>3, <1>5, <2>1, OnlyFail DEF tables
<1> QED BY <1>1, <1>4, <1>5 DEF SavePath

(* Goroutines, administrators and the end of the process. *)

\* A step that no request takes and that leaves the files alone.
LEMMA NoRequest ==
    ASSUME Inv, Grow, req' = req, evidence' = evidence, objects' = objects
    PROVE  RequestInv' /\ LeftInv'
<1>1. ASSUME NEW q \in Requests PROVE Knows(req[q])'
  <2>1. PICK s : s = req[q]
      OBVIOUS
  <2>2. Knows(s)'
      BY <2>1, KnowsKept DEF Inv, RequestInv
  <2>3. req'[q] = s
      BY <2>1
  <2> QED BY <2>2, <2>3 DEF Knows, Placed, Reported, Granted, Filed, Answered, Known, Holds, Owned, Uploading
<1>2. \A p, q \in Requests : (Uploading(req[p])' /\ Uploading(req[q])' /\ req'[p].made = req'[q].made) => p = q
    BY DEF Inv, RequestInv, Uploading
<1>3. LeftInv'
    BY DEF Inv, LeftInv, Excused, Uploading, Grow
<1> QED BY <1>1, <1>2, <1>3 DEF RequestInv

LEMMA StepNotify ==
    ASSUME Inv, schema' = schema, NEW p \in pending, Notify(p)
    PROVE  Inv'
<1>1. UNCHANGED <<reporters, subjects, cases, evidence, comms, objects, req>> /\ faults \subseteq faults' /\ pending' \subseteq pending
    BY Faulty DEF Notify
<1>2. PICK to : to = cases[CaseOf(p)].reporter
    OBVIOUS
<1>3. p \in Notices
    BY DEF Inv, TypeInv
<1>4. to \in Nat
  <2>1. CaseOf(p) \in DOMAIN cases
      BY <1>3 DEF Inv, NoticeInv, FileInv, CommInv, CaseOf, Notices
  <2>2. PICK c \in DOMAIN cases : c = CaseOf(p)
      BY <2>1
  <2>3. cases[c] \in CaseRow
      BY DEF Inv, TypeInv
  <2> QED BY <1>2, <2>2, <2>3 DEF CaseRow
<1>5. tokens' = tokens \/ \E b \in BOOLEAN : p.kind = "creation" /\ tokens' = Append(tokens, [case |-> p.of, reporter |-> to, told |-> b])
    BY <1>2 DEF Notify
<1>6. mails' = mails \/ mails' = mails \cup {[kind |-> p.kind, of |-> p.of, to |-> to]}
    BY <1>2 DEF Notify
<1>7. tokens' \in Seq(TokenRow) /\ TokenInv' /\ Grow
  <2>1. CASE tokens' = tokens
    <3>1. Grow
        BY <1>1, <2>1 DEF Grow
    <3> QED BY <2>1, <3>1, RowsKept DEF Inv, TypeInv
  <2>2. ASSUME NEW b \in BOOLEAN, p.kind = "creation",
               tokens' = Append(tokens, [case |-> p.of, reporter |-> to, told |-> b])
        PROVE  tokens' \in Seq(TokenRow) /\ TokenInv' /\ Grow
    <3>1. PICK n, e : n = Len(tokens) + 1 /\ e = [case |-> p.of, reporter |-> to, told |-> b]
        OBVIOUS
    <3>2. e \in TokenRow /\ e.case = p.of
        BY <1>3, <1>4, <3>1 DEF TokenRow, Notices
    <3>3. tokens \in Seq(TokenRow) /\ tokens' = Append(tokens, e)
        BY <2>2, <3>1 DEF Inv, TypeInv
    <3>4. /\ tokens' \in Seq(TokenRow) /\ DOMAIN tokens' = DOMAIN tokens \cup {n} /\ n \notin DOMAIN tokens
          /\ \A i \in DOMAIN tokens : tokens'[i] = tokens[i]
          /\ tokens'[n] = e
        BY <3>1, <3>2, <3>3, Appended
    <3>5. Grow
        BY <1>1, <3>4 DEF Grow
    <3>6. p.of \in DOMAIN cases
        BY <2>2 DEF Inv, NoticeInv
    <3>7. TokenInv'
        BY <1>1, <3>2, <3>4, <3>6 DEF Inv, TokenInv
    <3> QED BY <3>4, <3>5, <3>7
  <2> QED BY <1>5, <2>1, <2>2
<1>8. RequestInv' /\ LeftInv' /\ CaseInv' /\ CommInv' /\ FileInv' /\ ObjectInv' /\ DoubleInv'
    BY <1>1, <1>7, NoRequest, RowsKept
<1>9. NoticeInv'
  <2>1. p.kind = "evidence" => p.of \in DOMAIN evidence /\ evidence[p.of].path
      BY DEF Inv, NoticeInv
  <2> QED BY <1>1, <1>6, <2>1 DEF Inv, NoticeInv
<1>10. TypeInv'
    BY <1>1, <1>7 DEF Inv, TypeInv
<1> QED BY <1>7, <1>8, <1>9, <1>10 DEF Inv

LEMMA StepReassign ==
    ASSUME Inv, schema' = schema, NEW c \in DOMAIN cases, NEW o \in DOMAIN reporters, Reassign(c, o)
    PROVE  Inv'
<1>1. UNCHANGED <<reporters, subjects, tokens, evidence, comms, outside, pending, req, faults>>
    BY DEF Reassign
<1>2. PICK e : e = [cases[c] EXCEPT !.reporter = o, !.owners = Append(cases[c].owners, o)]
    OBVIOUS
<1>3. cases \in Seq(CaseRow) /\ cases[c] \in CaseRow /\ o \in Nat
    BY DEF Inv, TypeInv
<1>4. cases[c].owners \in Seq(Nat)
    BY <1>3 DEF CaseRow
<1>5. PICK n : n = Len(cases[c].owners) + 1
    OBVIOUS
<1>6. /\ e.owners \in Seq(Nat) /\ Len(e.owners) = n /\ n \in Nat
      /\ DOMAIN e.owners = DOMAIN cases[c].owners \cup {n}
      /\ \A i \in DOMAIN cases[c].owners : e.owners[i] = cases[c].owners[i]
      /\ e.owners[n] = o /\ e.owners # <<>> /\ e.reporter = o /\ e \in CaseRow
  <2>1. e.owners = Append(cases[c].owners, o) /\ e.reporter = o
      BY <1>2, <1>3 DEF CaseRow
  <2>2. /\ e.owners \in Seq(Nat) /\ Len(e.owners) = n /\ n \in Nat
        /\ DOMAIN e.owners = DOMAIN cases[c].owners \cup {n}
        /\ \A i \in DOMAIN cases[c].owners : e.owners[i] = cases[c].owners[i]
        /\ e.owners[n] = o /\ e.owners # <<>>
    <3>1. PICK old : old = cases[c].owners
        OBVIOUS
    <3>3. old \in Seq(Nat) /\ o \in Nat
        BY <1>3, <1>4, <3>1
    <3>4. n = Len(old) + 1
        BY <1>5, <3>1
    <3>2. /\ Append(old, o) \in Seq(Nat) /\ Len(Append(old, o)) = n /\ n \in Nat
          /\ DOMAIN Append(old, o) = DOMAIN old \cup {n}
          /\ \A i \in DOMAIN old : Append(old, o)[i] = old[i]
          /\ Append(old, o)[n] = o /\ Append(old, o) # <<>>
        BY <3>3, <3>4, Appended
    <3> QED BY <2>1, <3>1, <3>2
  <2>3. e \in CaseRow
      BY <1>2, <1>3, <2>1, <2>2 DEF CaseRow
  <2> QED BY <2>1, <2>2, <2>3
<1>7. cases' = [cases EXCEPT ![c] = e]
    BY <1>2 DEF Reassign
<1>8. /\ cases' \in Seq(CaseRow) /\ DOMAIN cases' = DOMAIN cases /\ cases'[c] = e
      /\ \A d \in DOMAIN cases : d # c => cases'[d] = cases[d]
    BY <1>3, <1>6, <1>7
<1>9. Grow
  <2>1. ASSUME NEW d \in DOMAIN cases
        PROVE  d \in DOMAIN cases' /\ \A k \in DOMAIN cases[d].owners :
                   k \in DOMAIN cases'[d].owners /\ cases'[d].owners[k] = cases[d].owners[k]
      BY <1>6, <1>8
  <2> QED BY <1>1, <2>1 DEF Grow, outside
<1>10. CaseInv'
  <2> SUFFICES ASSUME NEW d \in DOMAIN cases
               PROVE  /\ cases'[d].owners # <<>> /\ cases'[d].owners[Len(cases'[d].owners)] = cases'[d].reporter
                      /\ \A k \in DOMAIN cases'[d].owners : cases'[d].owners[k] \in DOMAIN reporters
      BY <1>1, <1>8 DEF CaseInv
  <2>1. CASE d = c
      BY <1>6, <1>8, <2>1 DEF Inv, CaseInv
  <2>2. CASE d # c
      BY <1>8, <2>2 DEF Inv, CaseInv
  <2> QED BY <2>1, <2>2
<1>11. RequestInv' /\ LeftInv' /\ TokenInv' /\ NoticeInv' /\ CommInv' /\ FileInv' /\ ObjectInv' /\ DoubleInv'
    BY <1>1, <1>9, NoRequest, RowsKept DEF outside
<1>12. TypeInv'
    BY <1>1, <1>8 DEF Inv, TypeInv
<1> QED BY <1>10, <1>11, <1>12 DEF Inv

LEMMA StepCrash ==
    ASSUME Inv, schema' = schema, Crash
    PROVE  Inv'
<1>1. /\ UNCHANGED <<tables, outside>> /\ pending' = {} /\ faults \subseteq faults' /\ "crash" \in faults'
      /\ req' = [q \in Requests |-> IF req[q].at \in {"idle", "done"} THEN req[q]
                                    ELSE [Idle EXCEPT !.at = "done", !.answer = "error"]]
    BY DEF Crash, Fault
<1>2. Grow
    BY <1>1 DEF Grow, tables, outside
<1>3. ASSUME NEW q \in Requests
      PROVE  \E r \in Request : req'[q] = r /\ Knows(r)' /\ ~Uploading(r)
  <2>1. CASE req[q].at \in {"idle", "done"}
    <3>1. PICK s \in Request : s = req[q] /\ Knows(s)
        BY AtPlace
    <3>2. ~Uploading(s)
        BY <2>1, <3>1 DEF Uploading
    <3>3. Knows(s)'
        BY <1>2, <3>1, <3>2, KnowsKept
    <3>4. req'[q] = s
        BY <1>1, <2>1, <3>1
    <3> QED BY <3>2, <3>3, <3>4
  <2>2. CASE req[q].at \notin {"idle", "done"}
    <3> DEFINE r == [Idle EXCEPT !.at = "done", !.answer = "error"]
    <3>1. r \in Request /\ r.at = "done" /\ r.answer = "error"
        BY IdleKnows DEF Request, Places
    <3>2. req'[q] = r
        BY <1>1, <2>2
    <3> HIDE DEF r
    <3>3. Knows(r)' /\ ~Uploading(r)
        BY <3>1 DEF Knows, Placed, Reported, Granted, Filed, Answered, Uploading
    <3> QED BY <3>1, <3>2, <3>3
  <2> QED BY <2>1, <2>2
<1>4. RequestInv'
  <2>1. ASSUME NEW q \in Requests PROVE Knows(req[q])'
    <3>1. PICK r \in Request : req'[q] = r /\ Knows(r)'
        BY <1>3
    <3> QED BY <3>1 DEF Knows, Placed, Reported, Granted, Filed, Answered, Known, Holds, Owned, Uploading
  <2>2. ASSUME NEW q \in Requests PROVE ~Uploading(req[q])'
      BY <1>3 DEF Uploading
  <2> QED BY <2>1, <2>2 DEF RequestInv
<1>5. LeftInv'
    BY <1>1 DEF LeftInv, Excused
<1>6. TypeInv'
  <2>1. req' \in [Requests -> Request]
      BY <1>1, <1>3
  <2> QED BY <1>1, <2>1 DEF Inv, TypeInv, tables
<1>7. CaseInv' /\ TokenInv' /\ NoticeInv' /\ CommInv' /\ FileInv' /\ ObjectInv' /\ DoubleInv'
    BY <1>1, <1>2, RowsKept DEF tables, outside
<1> QED BY <1>4, <1>5, <1>6, <1>7 DEF Inv

-----------------------------------------------------------------------------

LEMMA InitInv == Init => Inv
<1> SUFFICES ASSUME Init PROVE Inv
    OBVIOUS
<1>1. /\ reporters = <<>> /\ subjects = <<>> /\ cases = <<>> /\ tokens = <<>> /\ evidence = <<>> /\ comms = <<>>
      /\ pending = {} /\ mails = {} /\ objects = {} /\ req = [q \in Requests |-> Idle]
    BY DEF Init
<1>2. TypeInv
    BY <1>1, IdleKnows DEF TypeInv
<1>3. CaseInv /\ TokenInv /\ NoticeInv /\ CommInv /\ FileInv /\ ObjectInv /\ LeftInv /\ DoubleInv
    BY <1>1 DEF CaseInv, TokenInv, NoticeInv, CommInv, FileInv, ObjectInv, LeftInv, DoubleInv
<1>4. RequestInv
    BY <1>1, IdleKnows DEF RequestInv, Uploading
<1> QED BY <1>2, <1>3, <1>4 DEF Inv

LEMMA StepInv ==
    ASSUME Inv, [Next]_vars
    PROVE  Inv'
<1>1. CASE UNCHANGED vars
  <2>1. Grow /\ req' = req /\ evidence' = evidence /\ objects' = objects
      BY <1>1 DEF vars, tables, outside, Grow
  <2>2. TypeInv'
      BY <1>1 DEF vars, tables, Inv, TypeInv
  <2> QED BY <1>1, <2>1, <2>2, NoRequest, RowsKept DEF vars, tables, outside, Inv
<1>2. ASSUME schema' = schema, NEW q \in Requests, Serve(q) PROVE Inv'
    BY <1>2, StepAsk, StepFindReporter, StepCreateReporter, StepCreateSubject, StepCreateCase, StepIssueToken,
       StepFindSubject, StepInsertSubject, StepExchange, StepCheck, StepLook, StepStoreComm, StepCreateRow,
       StepUpload, StepRollback, StepSavePath DEF Serve
<1>3. ASSUME schema' = schema, NEW p \in pending, Notify(p) PROVE Inv'
    BY <1>3, StepNotify
<1>4. ASSUME schema' = schema, NEW c \in DOMAIN cases, NEW o \in DOMAIN reporters, Reassign(c, o) PROVE Inv'
    BY <1>4, StepReassign
<1>5. ASSUME schema' = schema, Crash PROVE Inv'
    BY <1>5, StepCrash
<1> QED BY <1>1, <1>2, <1>3, <1>4, <1>5 DEF Next

\* The tables refer to rows that exist, a request knows what its place in the handler
\* says it knows, no two requests upload the same file, and a file without a path is of
\* an upload under way or left behind by a failure: in every state of the portal.
THEOREM InvCorrect == Spec => []Inv
<1>1. Inv /\ [Next]_vars => Inv'
    BY StepInv
<1> QED BY InitInv, <1>1, PTL DEF Spec

\* submitReport and FindOrCreate.  With the schema of MySQL a form stores a second row of its
\* address only when the row before came after its look-up, and with either schema the intake
\* stores a second subject of type hash only then; with the schema of SQLite an address never
\* has two rows, and a form is refused only when the row came after its look-up.  What an
\* administrator stores, and the subjects of forms, may double at any time: nothing is said
\* of them.
THEOREM DuplicateCorrect == Spec => []DuplicateNeedsOverlap
<1>1. Inv => DuplicateNeedsOverlap
  <2>1. Inv => DoubleInv
      BY DEF Inv
  <2>2. Inv => \A q \in Requests : (req[q].answer = "taken" /\ req[q].kind = "submit") =>
                   \E i \in DOMAIN reporters : reporters[i].key = req[q].email /\ req[q].since < i
      BY DEF Inv, RequestInv, Knows, Reported
  <2> QED BY <2>1, <2>2, Zenon DEF DoubleInv, DuplicateNeedsOverlap
<1> QED BY <1>1, InvCorrect, PTL

\* The handlers of the public site and of administrators: what they answered is in the
\* tables, and stays there, whatever others do and whenever the process stops.
THEOREM AnsweredCorrect == Spec => []AnsweredIsStored
<1>1. ASSUME Inv PROVE AnsweredIsStored
  <2> SUFFICES ASSUME NEW q \in Requests, NEW r, r = req[q], r.answer = "ok"
               PROVE  CASE r.kind = "submit" ->
                              /\ tokens[r.made].case = r.case /\ tokens[r.made].reporter = cases[r.case].owners[1]
                              /\ reporters[cases[r.case].owners[1]].key = r.email
                        [] r.kind = "find" -> Known(r.hash)
                        [] r.kind = "adminReporter" -> reporters[r.made].key = r.email
                        [] r.kind = "adminSubject" -> subjects[r.made].key = r.hash
                        [] r.kind = "adminCase" -> cases[r.case].owners[1] = r.reporter
                        [] r.kind \in {"comment", "adminComment"} -> comms[r.made].case = r.case
                        [] r.kind \in {"upload", "adminUpload"} ->
                              /\ evidence[r.made].live /\ evidence[r.made].path /\ r.made \in objects
                              /\ evidence[r.made].case = r.case
      BY DEF AnsweredIsStored
  <2>1. Answered(r) /\ r.kind \in Kinds
    <3>1. r \in Request /\ Knows(r)
        BY <1>1 DEF Inv, TypeInv, RequestInv
    <3> QED BY <3>1 DEF Knows, Request
  <2>2. r.kind \in {"upload", "adminUpload"} => evidence[r.made].live /\ r.made \in objects
      BY <1>1, <2>1 DEF Answered, Inv, FileInv
  <2> QED BY <2>1, <2>2, ZenonT(40) DEF Answered, Owned, Kinds
<1> QED BY <1>1, InvCorrect, PTL

\* addComment and uploadFile behind their JWT: what a reporter stored with a case, a token had
\* been issued for to that reporter, and the case was that reporter's when it was checked.
THEOREM AccessCorrect == Spec => []AccessIsGranted
<1>1. Inv => AccessIsGranted
    BY DEF Inv, CommInv, FileInv, AccessIsGranted, Owned, Holds
<1> QED BY <1>1, InvCorrect, PTL

\* CreateFromData: a row with a path has its object, an object has its row, and a reporter is
\* told of no file without a path.  A row without a path is of an upload under way, or it was
\* left behind: with its object by a save of the path that failed or by a crash -- one of the
\* two suffices -- and without an object by a failed upload whose rollback failed as well, or
\* by a crash.
THEOREM EvidenceCorrect == Spec => []EvidenceIsWhole
<1>1. Inv => EvidenceIsWhole
    BY DEF Inv, FileInv, ObjectInv, NoticeInv, LeftInv, EvidenceIsWhole, UnderWay, Uploading
<1> QED BY <1>1, InvCorrect, PTL

=============================================================================
