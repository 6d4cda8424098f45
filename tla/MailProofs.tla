----------------------------- MODULE MailProofs -----------------------------
(***************************************************************************)
(* Proofs about what is made of a mail.  Threading, for any number of      *)
(* cases, communications and identifiers: a mail that answers a            *)
(* communication goes where that one is, and no mail is put with the cases *)
(* of others unless it names them.  Extraction, for any text: URLs,        *)
(* hashes, the dates of a report and the main text are read whole.         *)
(***************************************************************************)
EXTENDS Threading, Extraction, FiniteSetTheorems, SequenceTheorems, WellFoundedInduction, TLAPS

-----------------------------------------------------------------------------
(* The invariant. *)

FileRow == [reporter : Senders \ {0}, had : SUBSET Senders, closed : BOOLEAN]
NoteRow == [case : Nat, sender : Nat, type : All, thread : Threads, subject : Subjects, recent : BOOLEAN]
MatchRow == [case : Nat, note : Nat, score : Nat,
            via : {"none", "in-reply-to", "references", "message-id-case-ref", "subject-case-ref",
                   "subject-similarity", "recent-sender"}]

TypeInv ==
    /\ files \in Seq(FileRow) /\ notes \in Seq(NoteRow) /\ best \in MatchRow
    /\ step # "idle" => letter \in Letters
    /\ todo \in IF step \in {"in-reply-to", "references"} THEN Seq(Threads) ELSE Seq(Nat)
    /\ before \in Nat /\ failed \in BOOLEAN

\* Whoever has a case had it, and wrote what it says he wrote while he had it.
RowsInv ==
    /\ \A c \in DOMAIN files : files[c].reporter \in files[c].had
    /\ \A n \in DOMAIN notes :
          /\ notes[n].case \in DOMAIN files
          /\ notes[n].sender # 0 => notes[n].sender \in files[notes[n].case].had

\* What is listed is there, and a list for a sender has cases that were the sender's.
ListInv ==
    /\ step \in {"id-ref", "ref", "alike", "recent"} => \A i \in DOMAIN todo : todo[i] \in DOMAIN files
    /\ step \in {"alike", "recent"} => \A i \in DOMAIN todo : letter.from \in files[todo[i]].had

\* Before the subjects are compared a match ends the search.
BestInv ==
    /\ best = NoMatch \/ (best.note \in DOMAIN notes /\ best.case \in DOMAIN files)
    /\ step \notin {"alike", "recent", "done"} => best = NoMatch
    /\ step = "alike" => best = NoMatch \/ best.via = "subject-similarity"
    /\ step = "recent" => best = NoMatch \/ best.via = "recent-sender"

Answers(n) == notes[n].thread \in ToSet(letter.inReplyTo)

\* As long as no look-up failed, the identifiers of In-Reply-To that are done with, which after
\* them are all, were of no communication that was there when the mail came in.
AnswerInv ==
    /\ before <= Len(notes) /\ (step = "idle" => before = 0)
    /\ step = "in-reply-to" => ToSet(todo) \subseteq ToSet(letter.inReplyTo)
    /\ ~failed /\ step = "in-reply-to" => \A n \in 1..before : Answers(n) => notes[n].thread \in ToSet(todo)
    /\ ~failed /\ step \notin {"idle", "in-reply-to", "done"} => \A n \in 1..before : ~Answers(n)

Inv == TypeInv /\ RowsInv /\ ListInv /\ BestInv /\ OwnCaseOnly /\ AnswerInv /\ AnswersGoHome
-----------------------------------------------------------------------------
(* Lists of rows. *)

LEMMA Least ==
    ASSUME NEW T, T \subseteq Nat, T # {}
    PROVE  \E x \in T : \A y \in T : x <= y
<1>1. PICK x \in T : \A y \in T : <<y, x>> \notin OpToRel(<, Nat)
    BY WFMin, NatLessThanWellFounded, Zenon
<1>2. \A y \in T : ~(y < x)
    BY <1>1, Zenon DEF OpToRel
<1> QED BY <1>2

\* Every finite set of numbers can be listed in their order.
LEMMA InOrder ==
    ASSUME NEW all, all \subseteq Nat
    PROVE  \A ids \in SUBSET all : IsFiniteSet(ids) =>
              \E s \in [1..Cardinality(ids) -> ids] :
                  \A i \in DOMAIN s, j \in DOMAIN s : i < j => s[i] < s[j]
<1> DEFINE Listed(ids) == \E s \in [1..Cardinality(ids) -> ids] :
                              \A i \in DOMAIN s, j \in DOMAIN s : i < j => s[i] < s[j]
           Bad == {k \in Nat : \E ids \in SUBSET all : IsFiniteSet(ids) /\ Cardinality(ids) = k /\ ~Listed(ids)}
<1>1. SUFFICES ASSUME Bad # {} PROVE FALSE
  <2>1. ASSUME NEW ids \in SUBSET all, IsFiniteSet(ids), ~Listed(ids)
        PROVE  Cardinality(ids) \in Bad
    <3>1. Cardinality(ids) \in Nat
        BY <2>1, FS_CardinalityType
    <3> QED BY <2>1, <3>1
  <2> QED BY <2>1
<1>2. PICK k \in Bad : \A l \in Bad : k <= l
    BY <1>1, Least
<1>3. PICK ids \in SUBSET all : IsFiniteSet(ids) /\ Cardinality(ids) = k /\ ~Listed(ids)
    BY <1>2
<1>4. CASE ids = {}
  <2>1. k = 0
      BY <1>3, <1>4, FS_EmptySet
  <2> DEFINE s == [i \in 1..k |-> i]
  <2>2. s \in [1..k -> ids] /\ DOMAIN s = {}
      BY <1>4, <2>1
  <2>3. Listed(ids)
      BY <1>3, <2>2
  <2> QED BY <1>3, <2>3
<1>5. CASE ids # {}
  <2>1. PICK m \in ids : \A n \in ids : m <= n
      BY <1>5, Least
  <2> DEFINE rest == ids \ {m}
  <2>2. IsFiniteSet(rest) /\ Cardinality(rest) = k - 1 /\ k \in Nat
      BY <1>2, <1>3, <2>1, FS_RemoveElement
  <2>3. k - 1 \in Nat
      BY <2>2, FS_CardinalityType
  <2>4. k - 1 \notin Bad
      BY <1>2, <2>2
  <2>5. Listed(rest)
      BY <2>2, <2>3, <2>4
  <2>6. PICK r \in [1..(k - 1) -> rest] : \A i \in DOMAIN r, j \in DOMAIN r : i < j => r[i] < r[j]
      BY <2>2, <2>5
  <2> DEFINE s == [i \in 1..k |-> IF i = 1 THEN m ELSE r[i - 1]]
  <2> HIDE DEF Bad
  <2>7. \A i \in 1..k : i # 1 => i - 1 \in 1..(k - 1)
      BY <2>2, <2>3
  <2>8. \A i \in 1..k : i # 1 => s[i] = r[i - 1] /\ s[i] \in rest
      BY <2>6, <2>7
  <2>9. s \in [1..k -> ids]
      BY <2>1, <2>8
  <2>10. ASSUME NEW i \in 1..k, NEW j \in 1..k, i < j PROVE s[i] < s[j]
    <3>1. j # 1
        BY <2>2, <2>10
    <3>2. CASE i = 1
      <4>1. s[i] = m /\ s[j] \in rest
          BY <2>8, <3>1, <3>2
      <4>2. m \in Nat /\ s[j] \in Nat /\ m <= s[j] /\ s[j] # m
          BY <2>1, <4>1
      <4> QED BY <4>1, <4>2
    <3>3. CASE i # 1
      <4>1. i - 1 \in DOMAIN r /\ j - 1 \in DOMAIN r /\ i - 1 < j - 1
          BY <2>6, <2>7, <2>10, <3>1, <3>3
      <4>2. r[i - 1] < r[j - 1]
          BY <2>6, <4>1
      <4> QED BY <2>8, <3>1, <3>3, <4>2
    <3> QED BY <3>2, <3>3
  <2> HIDE DEF s
  <2>11. Listed(ids)
      BY <1>3, <2>9, <2>10
  <2> QED BY <1>3, <2>11
<1> QED BY <1>4, <1>5

\* A list of rows has each of them once, the oldest first.
LEMMA RowsList ==
    ASSUME NEW ids, ids \subseteq Nat, IsFiniteSet(ids)
    PROVE  /\ Rows(ids) \in Seq(ids) /\ ToSet(Rows(ids)) = ids
           /\ Rows(ids) = <<>> <=> ids = {}
           /\ Rows(ids) # <<>> => Head(Rows(ids)) \in ids /\ \A n \in ids : Head(Rows(ids)) <= n
<1> DEFINE k == Cardinality(ids)
           s == Rows(ids)
<1>1. k \in Nat
    BY FS_CardinalityType
<1>2. s \in [1..k -> ids] /\ \A i \in DOMAIN s, j \in DOMAIN s : i < j => s[i] < s[j]
    BY InOrder DEF Rows
<1> HIDE DEF s
<1>3. s \in Seq(ids) /\ DOMAIN s = 1..k /\ Len(s) = k
    BY <1>1, <1>2
<1>4. IsFiniteSet(1..k) /\ Cardinality(1..k) = k
    BY <1>1, FS_Interval
<1>5. s \in Injection(1..k, ids)
  <2>1. ASSUME NEW i \in 1..k, NEW j \in 1..k, i # j PROVE s[i] # s[j]
    <3>1. s[i] \in Nat /\ s[j] \in Nat
        BY <1>2
    <3>2. i < j \/ j < i
        BY <1>1, <2>1
    <3> QED BY <1>2, <1>3, <3>1, <3>2
  <2> QED BY <1>2, <2>1 DEF Injection, IsInjective
<1>6. s \in Surjection(1..k, ids)
    BY <1>4, <1>5, FS_Injection
<1>7. ToSet(s) = ids
    BY <1>2, <1>3, <1>6 DEF Surjection, ToSet
<1>8. s = <<>> <=> ids = {}
  <2>1. s = <<>> <=> k = 0
      BY <1>1, <1>3
  <2>2. k = 0 <=> ids = {}
      BY FS_EmptySet
  <2> QED BY <2>1, <2>2
<1>9. ASSUME s # <<>> PROVE Head(s) \in ids /\ \A n \in ids : Head(s) <= n
  <2>1. k > 0 /\ Head(s) = s[1] /\ 1 \in DOMAIN s
      BY <1>1, <1>3, <1>9
  <2>2. ASSUME NEW n \in ids PROVE s[1] <= n
    <3>1. PICK i \in DOMAIN s : s[i] = n
        BY <1>7 DEF ToSet
    <3>2. s[1] \in Nat /\ s[i] \in Nat
        BY <1>2, <1>3, <2>1
    <3>4. i = 1 \/ 1 < i
        BY <1>1, <1>3
    <3>3. 1 < i => s[1] < s[i]
        BY <1>2, <2>1
    <3> QED BY <3>1, <3>2, <3>3, <3>4
  <2> QED BY <1>2, <1>3, <2>1, <2>2
<1> QED BY <1>3, <1>7, <1>8, <1>9 DEF s

-----------------------------------------------------------------------------
(* What the services answer. *)

LEMMA RowNumbers ==
    ASSUME NEW S, NEW s \in Seq(S), NEW ids, ids \subseteq DOMAIN s
    PROVE  ids \subseteq Nat /\ IsFiniteSet(ids)
<1>1. DOMAIN s = 1..Len(s) /\ Len(s) \in Nat
    OBVIOUS
<1>2. IsFiniteSet(1..Len(s))
    BY <1>1, FS_Interval
<1> QED BY <1>1, <1>2, FS_Subset

\* A sequence has its elements; its first and those after it are among them.
LEMMA Elements ==
    ASSUME NEW S, NEW s \in Seq(S)
    PROVE  /\ ToSet(s) \subseteq S
           /\ \A i \in DOMAIN s : s[i] \in ToSet(s)
           /\ s # <<>> => Head(s) = s[1] /\ Head(s) \in ToSet(s)
<1>1. DOMAIN s = 1..Len(s) /\ Len(s) \in Nat /\ \A i \in DOMAIN s : s[i] \in S
    OBVIOUS
<1>2. ToSet(s) \subseteq S /\ \A i \in DOMAIN s : s[i] \in ToSet(s)
    BY <1>1 DEF ToSet
<1>3. s # <<>> => Head(s) = s[1] /\ 1 \in DOMAIN s
    BY <1>1
<1> QED BY <1>2, <1>3

LEMMA TailElements ==
    ASSUME NEW S, NEW s \in Seq(S), s # <<>>
    PROVE  /\ Tail(s) \in Seq(S) /\ ToSet(Tail(s)) \subseteq ToSet(s)
           /\ ToSet(s) = {Head(s)} \cup ToSet(Tail(s))
<1>1. DOMAIN s = 1..Len(s) /\ Len(s) \in Nat
    OBVIOUS
<1>2. /\ Head(s) = s[1] /\ 1 \in DOMAIN s /\ Tail(s) \in Seq(S) /\ DOMAIN Tail(s) = 1..(Len(s) - 1)
      /\ \A i \in DOMAIN Tail(s) : i + 1 \in DOMAIN s /\ Tail(s)[i] = s[i + 1]
    BY <1>1
<1>3. ASSUME NEW x \in ToSet(s)
      PROVE  x = Head(s) \/ x \in ToSet(Tail(s))
  <2>1. PICK i \in DOMAIN s : s[i] = x
      BY DEF ToSet
  <2>2. i = 1 \/ (i - 1 \in DOMAIN Tail(s) /\ Tail(s)[i - 1] = x)
    <3>1. i # 1 => i - 1 \in 1..(Len(s) - 1)
        BY <1>1
    <3>2. i # 1 => i - 1 \in DOMAIN Tail(s) /\ Tail(s)[i - 1] = s[(i - 1) + 1]
        BY <1>2, <3>1
    <3>3. (i - 1) + 1 = i
        BY <1>1
    <3> QED BY <2>1, <3>2, <3>3
  <2> QED BY <1>2, <2>1, <2>2 DEF ToSet
<1>4. ASSUME NEW x \in ToSet(Tail(s)) PROVE x \in ToSet(s)
  <2>1. PICK i \in DOMAIN Tail(s) : Tail(s)[i] = x
      BY DEF ToSet
  <2> QED BY <1>2, <2>1 DEF ToSet
<1>5. Head(s) \in ToSet(s)
    BY <1>2 DEF ToSet
<1> QED BY <1>2, <1>3, <1>4, <1>5

\* The communication that a look-up of an identifier finds is the first of the thread.
LEMMA ThreadFound ==
    ASSUME TypeInv, NEW t
    PROVE  /\ OfThread(t) # <<>> => /\ Head(OfThread(t)) \in DOMAIN notes
                                   /\ notes[Head(OfThread(t))].thread = t
                                   /\ \A n \in DOMAIN notes : notes[n].thread = t => Head(OfThread(t)) <= n
           /\ OfThread(t) = <<>> => \A n \in DOMAIN notes : notes[n].thread # t
<1> DEFINE ids == {n \in DOMAIN notes : notes[n].thread = t}
<1>1. ids \subseteq Nat /\ IsFiniteSet(ids)
    BY RowNumbers DEF TypeInv
<1>2. OfThread(t) = Rows(ids)
    BY DEF OfThread
<1> HIDE DEF ids
<1>3. /\ Rows(ids) = <<>> <=> ids = {}
      /\ Rows(ids) # <<>> => Head(Rows(ids)) \in ids /\ \A n \in ids : Head(Rows(ids)) <= n
    BY <1>1, RowsList
<1> QED BY <1>2, <1>3 DEF ids

\* The communications of a case are of the case.
LEMMA CaseFound ==
    ASSUME TypeInv, NEW c, NEW types
    PROVE  /\ ToSet(OfCase(c, types)) \subseteq {n \in DOMAIN notes : notes[n].case = c}
           /\ OfCase(c, types) # <<>> => Head(OfCase(c, types)) \in DOMAIN notes
                                         /\ notes[Head(OfCase(c, types))].case = c
<1> DEFINE ids == {n \in DOMAIN notes : notes[n].case = c /\ notes[n].type \in types}
<1>1. ids \subseteq Nat /\ IsFiniteSet(ids)
    BY RowNumbers DEF TypeInv
<1>2. OfCase(c, types) = Rows(ids)
    BY DEF OfCase
<1> HIDE DEF ids
<1>3. ToSet(Rows(ids)) = ids /\ (Rows(ids) # <<>> => Head(Rows(ids)) \in ids)
    BY <1>1, RowsList
<1> QED BY <1>2, <1>3 DEF ids

\* A search finds cases that there are.
LEMMA SearchFound ==
    ASSUME TypeInv, NEW ref, Search(ref) # <<>>
    PROVE  Head(Search(ref)) \in DOMAIN files
<1>1. DOMAIN files \subseteq Nat /\ IsFiniteSet(DOMAIN files)
    BY RowNumbers DEF TypeInv
<1> QED BY <1>1, RowsList DEF Search

\* The cases listed for a reporter are the reporter's.
LEMMA ReporterFound ==
    ASSUME TypeInv, NEW r
    PROVE  /\ ByReporter(r) \in Seq(Nat)
           /\ ToSet(ByReporter(r)) \subseteq {c \in DOMAIN files : files[c].reporter = r}
           /\ Rows({c \in ToSet(ByReporter(r)) : ~files[c].closed}) \in Seq(Nat)
           /\ ToSet(Rows({c \in ToSet(ByReporter(r)) : ~files[c].closed})) \subseteq ToSet(ByReporter(r))
<1> DEFINE ids == {c \in DOMAIN files : files[c].reporter = r}
           open == {c \in ToSet(ByReporter(r)) : ~files[c].closed}
<1>1. ids \subseteq Nat /\ IsFiniteSet(ids)
    BY RowNumbers DEF TypeInv
<1>2. ByReporter(r) \in Seq(ids) /\ ToSet(ByReporter(r)) = ids
    BY <1>1, RowsList DEF ByReporter
<1>3. open \subseteq DOMAIN files
    BY <1>2
<1>4. open \subseteq Nat /\ IsFiniteSet(open)
    BY <1>3, RowNumbers DEF TypeInv
<1>5. Rows(open) \in Seq(open) /\ ToSet(Rows(open)) = open
    BY <1>4, RowsList
<1> HIDE DEF ids, open
<1>6. ByReporter(r) \in Seq(Nat) /\ Rows(open) \in Seq(Nat)
    BY <1>1, <1>2, <1>4, <1>5, SeqMonotonic
<1> USE DEF ids, open
<1> QED BY <1>2, <1>5, <1>6

\* What a comparison with a case finds is a mail of the case, more alike than what was found.
LEMMA AlikeFound ==
    ASSUME TypeInv, letter \in Letters, NEW c
    PROVE  \/ AlikeIn(c) = best
           \/ \E n \in DOMAIN notes, k \in Nat :
                 /\ AlikeIn(c) = Match(c, n, k, "subject-similarity")
                 /\ notes[n].case = c
<1> DEFINE close == {n \in ToSet(OfCase(c, {"email"})) :
                        /\ notes[n].subject \notin Short /\ letter.subject \notin Short
                        /\ Alike[letter.subject][notes[n].subject] > 85}
           Score(n) == Alike[letter.subject][notes[n].subject]
           top == {n \in close : \A o \in close : Score(o) <= Score(n)}
           first == CHOOSE n \in top : \A o \in top : n <= o
<1>1. close \subseteq {n \in DOMAIN notes : notes[n].case = c}
    BY CaseFound
<1>2. ASSUME NEW n \in close PROVE Score(n) \in 0..100
  <2>1. notes[n] \in NoteRow
      BY <1>1 DEF TypeInv
  <2>2. notes[n].subject \in Subjects /\ letter.subject \in Subjects
      BY <2>1, ThreadingAssumption DEF NoteRow
  <2> QED BY <2>2, ThreadingAssumption
<1>3. CASE close = {}
    BY <1>3 DEF AlikeIn
<1>4. CASE close # {}
  <2> DEFINE gaps == {100 - Score(n) : n \in close}
  <2> HIDE DEF Score, close
  <2>1. gaps \subseteq Nat /\ gaps # {}
      BY <1>2, <1>4
  <2>2. PICK g \in gaps : \A h \in gaps : g <= h
      BY <2>1, Least
  <2>3. PICK n \in close : g = 100 - Score(n)
      BY <2>2
  <2>4. ASSUME NEW o \in close PROVE Score(o) <= Score(n)
    <3>1. 100 - Score(o) \in gaps
        OBVIOUS
    <3>2. g <= 100 - Score(o) /\ Score(o) \in 0..100 /\ Score(n) \in 0..100
        BY <1>2, <2>2, <3>1
    <3> QED BY <2>3, <3>2
  <2>5. top # {} /\ top \subseteq DOMAIN notes
      BY <1>1, <2>4
  <2>6. top \subseteq Nat
      BY <2>5 DEF TypeInv
  <2>7. \E m \in top : \A o \in top : m <= o
      BY <2>5, <2>6, Least
  <2>8. first \in top
      BY <2>7
  <2>9. first \in DOMAIN notes /\ notes[first].case = c /\ Score(first) \in Nat
      BY <1>1, <1>2, <2>8
  <2> USE DEF Score, close
  <2>10. AlikeIn(c) = IF close # {} /\ Score(first) > best.score
                      THEN Match(c, first, Score(first), "subject-similarity") ELSE best
      BY Zenon DEF AlikeIn
  <2> HIDE DEF Score, close, top, first
  <2>11. CASE close # {} /\ Score(first) > best.score
    <3>1. AlikeIn(c) = Match(c, first, Score(first), "subject-similarity")
        BY <2>10, <2>11
    <3> QED BY <2>9, <3>1
  <2>12. CASE ~(close # {} /\ Score(first) > best.score)
      BY <2>10, <2>12
  <2> QED BY <2>11, <2>12
<1> QED BY <1>3, <1>4

-----------------------------------------------------------------------------
(* The detector. *)

\* A match is of a communication and a case that are there, and fits what it was found by.
Owned(m) ==
    m # NoMatch =>
        /\ m.note \in DOMAIN notes /\ m.case \in DOMAIN files
        /\ \/ notes[m.note].case = m.case
           \/ m.via = "recent-sender" /\ letter.from \in files[notes[m.note].case].had
        /\ m.via \in {"subject-similarity", "recent-sender"} => letter.from \in files[m.case].had

Home(m) ==
    (\E n \in 1..before : Answers(n)) =>
        /\ m.via = "in-reply-to" /\ notes[m.note].thread \in ToSet(letter.inReplyTo)
        /\ \A n \in DOMAIN notes : notes[n].thread = notes[m.note].thread => m.note <= n

Queue(s) == IF s \in {"in-reply-to", "references"} THEN Seq(Threads) ELSE Seq(Nat)

\* The detector goes on to s, with q to look at and the match m.
LEMMA Moved ==
    ASSUME Inv, step # "idle", NEW s, s # "idle", NEW q \in Queue(s), NEW m \in MatchRow,
           step' = s, todo' = q, best' = m, UNCHANGED <<files, notes, letter, before>>, failed' \in BOOLEAN,
           s \in {"id-ref", "ref", "alike", "recent"} => ToSet(q) \subseteq DOMAIN files,
           s \in {"alike", "recent"} => \A c \in ToSet(q) : letter.from \in files[c].had,
           Owned(m),
           s \notin {"alike", "recent", "done"} => m = NoMatch,
           s = "alike" => m = NoMatch \/ m.via = "subject-similarity",
           s = "recent" => m = NoMatch \/ m.via = "recent-sender",
           s = "in-reply-to" => ToSet(q) \subseteq ToSet(letter.inReplyTo),
           ~failed' /\ s = "in-reply-to" => \A n \in 1..before : Answers(n) => notes[n].thread \in ToSet(q),
           ~failed' /\ s \notin {"in-reply-to", "done"} => \A n \in 1..before : ~Answers(n),
           ~failed' /\ s = "done" => Home(m)
    PROVE  Inv'
<1>1. TypeInv'
    BY DEF Inv, TypeInv, Queue
<1>2. RowsInv'
    BY DEF Inv, RowsInv
<1>3. ListInv'
  <2>1. \A i \in DOMAIN q : q[i] \in ToSet(q)
      BY Elements DEF Queue
  <2> QED BY <2>1 DEF ListInv
<1>4. BestInv'
    BY DEF BestInv, Owned
<1>5. OwnCaseOnly'
    BY DEF OwnCaseOnly, Owned
<1>6. AnswerInv'
    BY DEF Inv, AnswerInv, Answers
<1>7. AnswersGoHome'
    BY DEF AnswersGoHome, Home, Answers
<1> QED BY <1>1, <1>2, <1>3, <1>4, <1>5, <1>6, <1>7 DEF Inv

Later == {"references", "id-ref", "ref", "list", "alike", "recall", "recent"}

\* Without a match it goes on to a later way to find a case.
LEMMA Turned ==
    ASSUME Inv, step # "idle", NEW s \in Later, NEW q \in Queue(s), best = NoMatch, Turn(s, q),
           UNCHANGED <<files, notes, letter, before>>, failed' \in BOOLEAN,
           s \in {"id-ref", "ref", "alike", "recent"} => ToSet(q) \subseteq DOMAIN files,
           s \in {"alike", "recent"} => \A c \in ToSet(q) : letter.from \in files[c].had,
           ~failed' => \A n \in 1..before : ~Answers(n)
    PROVE  Inv'
<1>1. NoMatch \in MatchRow /\ best' = NoMatch
    BY DEF NoMatch, MatchRow, Turn
<1>2. step' = s /\ todo' = q /\ Owned(NoMatch)
    BY DEF Turn, Owned
<1>3. s # "idle" /\ s # "in-reply-to" /\ s # "done"
    BY DEF Later
<1> QED BY <1>1, <1>2, <1>3, Moved

\* Or it ends.
LEMMA Ended ==
    ASSUME Inv, step # "idle", NEW m \in MatchRow, Found(m), Owned(m),
           UNCHANGED <<files, notes, letter, before>>, failed' \in BOOLEAN,
           ~failed' => Home(m)
    PROVE  Inv'
<1>1. step' = "done" /\ todo' = <<>> /\ best' = m
    BY DEF Found
<1>2. <<>> \in Queue("done")
    BY DEF Queue
<1> QED BY <1>1, <1>2, Moved

LEMMA Nothing ==
    ASSUME NEW s
    PROVE  <<>> \in Queue(s) /\ ToSet(<<>>) = {}
BY DEF Queue, ToSet

\* The identifiers of In-Reply-To lead to the communication that they are of.
LEMMA StepIdentify == ASSUME Inv, Identify PROVE Inv'
<1>1. /\ step \in {"in-reply-to", "references"} /\ step # "idle" /\ best = NoMatch
      /\ todo \in Seq(Threads) /\ letter \in Letters
      /\ failed \in BOOLEAN /\ UNCHANGED <<files, notes, letter, before, failed>>
      /\ before \in Nat /\ Len(notes) \in Nat /\ DOMAIN notes = 1..Len(notes) /\ before <= Len(notes)
  <2>1. step \in {"in-reply-to", "references"} /\ UNCHANGED <<files, notes, letter, before, failed>>
      BY DEF Identify, Kept
  <2>2. TypeInv /\ BestInv /\ AnswerInv
      BY DEF Inv
  <2>3. best = NoMatch
      BY <2>1, <2>2 DEF BestInv
  <2>4. todo \in Seq(Threads) /\ letter \in Letters
      BY <2>1, <2>2 DEF TypeInv
  <2>5. Len(notes) \in Nat /\ DOMAIN notes = 1..Len(notes)
      BY <2>2 DEF TypeInv
  <2> QED BY <2>1, <2>2, <2>3, <2>4, <2>5 DEF TypeInv, AnswerInv
<1>2. 1..before \subseteq DOMAIN notes
    BY <1>1
<1>3. CASE todo # <<>> /\ OfThread(Head(todo)) # <<>>
  <2> DEFINE n == Head(OfThread(Head(todo)))
             m == Match(notes[n].case, n, IF step = "references" THEN 90 ELSE 100, step)
  <2>1. Found(m)
      BY <1>3 DEF Identify
  <2>2. /\ n \in DOMAIN notes /\ notes[n].thread = Head(todo)
        /\ \A o \in DOMAIN notes : notes[o].thread = Head(todo) => n <= o
      BY <1>3, ThreadFound DEF Inv
  <2> HIDE DEF n
  <2>3. notes[n].case \in Nat /\ notes[n].case \in DOMAIN files /\ n \in Nat
    <3>1. notes[n] \in NoteRow
        BY <2>2 DEF Inv, TypeInv
    <3> QED BY <1>1, <2>2, <3>1 DEF NoteRow, Inv, RowsInv
  <2>4. m \in MatchRow
      BY <1>1, <2>3 DEF Match, MatchRow
  <2>5. m.note = n /\ m.case = notes[n].case /\ m.via = step
      BY DEF Match
  <2> HIDE DEF m
  <2>6. Owned(m)
      BY <1>1, <2>2, <2>3, <2>5 DEF Owned
  <2>7. ASSUME ~failed PROVE Home(m)
    <3>1. CASE step = "references"
      <4>1. \A o \in 1..before : ~Answers(o)
          BY <2>7, <3>1 DEF Inv, AnswerInv
      <4> QED BY <4>1 DEF Home
    <3>2. CASE step = "in-reply-to"
      <4>1. Head(todo) \in ToSet(letter.inReplyTo)
          BY <1>1, <1>3, <3>2, Elements DEF Inv, AnswerInv
      <4> QED BY <2>2, <2>5, <3>2, <4>1 DEF Home
    <3> QED BY <1>1, <3>1, <3>2
  <2> QED BY <1>1, <2>1, <2>4, <2>6, <2>7, Ended
<1>4. CASE todo # <<>> /\ OfThread(Head(todo)) = <<>>
  <2>1. Turn(step, Tail(todo))
      BY <1>4 DEF Identify
  <2>2. Tail(todo) \in Seq(Threads) /\ ToSet(Tail(todo)) \subseteq ToSet(todo)
        /\ ToSet(todo) = {Head(todo)} \cup ToSet(Tail(todo))
    <3>1. todo \in Seq(Threads) /\ todo # <<>>
        BY <1>1, <1>4
    <3> QED BY <3>1, TailElements, Zenon
  <2>3. Tail(todo) \in Queue(step)
      BY <1>1, <2>2 DEF Queue
  <2>4. CASE step = "references"
    <3>1. ~failed => \A n \in 1..before : ~Answers(n)
        BY <2>4 DEF Inv, AnswerInv
    <3>2. step \in Later
        BY <2>4 DEF Later
    <3> QED BY <1>1, <2>1, <2>3, <2>4, <3>1, <3>2, Turned
  <2>5. CASE step = "in-reply-to"
    <3>1. ToSet(Tail(todo)) \subseteq ToSet(letter.inReplyTo)
        BY <2>2, <2>5 DEF Inv, AnswerInv
    <3>2. \A n \in DOMAIN notes : notes[n].thread # Head(todo)
        BY <1>4, ThreadFound DEF Inv
    <3>3. ASSUME ~failed, NEW n \in 1..before, Answers(n)
          PROVE  notes[n].thread \in ToSet(Tail(todo))
      <4>1. notes[n].thread \in ToSet(todo)
          BY <2>5, <3>3 DEF Inv, AnswerInv
      <4> QED BY <1>2, <2>2, <3>2, <4>1
    <3>4. best \in MatchRow /\ Owned(best) /\ step' = step /\ todo' = Tail(todo) /\ best' = best
        BY <1>1, <2>1 DEF Turn, Owned, Inv, TypeInv
    <3> QED BY <1>1, <2>3, <2>5, <3>1, <3>3, <3>4, Moved
  <2> QED BY <1>1, <2>4, <2>5
<1>5. CASE todo = <<>>
  <2>1. ASSUME ~failed PROVE \A n \in 1..before : ~Answers(n)
      BY <1>1, <1>5, <2>1, Nothing DEF Inv, AnswerInv
  <2>2. CASE step = "in-reply-to"
    <3>1. Turn("references", letter.references)
        BY <1>5, <2>2 DEF Identify
    <3>2. letter.references \in Queue("references")
        BY <1>1, ThreadingAssumption DEF Queue
    <3> QED BY <1>1, <2>1, <3>1, <3>2, Turned DEF Later
  <2>3. CASE step = "references"
    <3>1. Turn("id-ref", <<>>)
        BY <1>5, <2>3 DEF Identify
    <3> QED BY <1>1, <2>1, <3>1, Nothing, Turned DEF Later
  <2> QED BY <1>1, <2>2, <2>3
<1> QED BY <1>3, <1>4, <1>5

\* What holds when the identifiers are done with and nothing is found.
LEMMA Afterwards ==
    ASSUME Inv, step \in Later
    PROVE  /\ step # "idle" /\ letter \in Letters /\ letter.from \in Nat /\ before \in Nat
           /\ ~failed => \A n \in 1..before : ~Answers(n)
           /\ step # "references" => todo \in Seq(Nat)
           /\ step \notin {"alike", "recent"} => best = NoMatch
           /\ best \in MatchRow /\ Owned(best)
           /\ step \in {"id-ref", "ref", "alike", "recent"} => ToSet(todo) \subseteq DOMAIN files
           /\ step \in {"alike", "recent"} => \A c \in ToSet(todo) : letter.from \in files[c].had
<1>1. TypeInv /\ BestInv /\ AnswerInv /\ ListInv /\ OwnCaseOnly
    BY DEF Inv
<1>2. step # "idle" /\ letter \in Letters /\ letter.from \in Nat /\ before \in Nat
    BY <1>1, ThreadingAssumption DEF TypeInv, Later
<1>3. ~failed => \A n \in 1..before : ~Answers(n)
    BY <1>1 DEF AnswerInv, Later
<1>4. step # "references" => todo \in Seq(Nat)
    BY <1>1 DEF TypeInv, Later
<1>5. step \notin {"alike", "recent"} => best = NoMatch
    BY <1>1 DEF BestInv, Later
<1>6. best \in MatchRow /\ Owned(best)
    BY <1>1 DEF TypeInv, BestInv, OwnCaseOnly, Owned
<1>7. step \in {"id-ref", "ref", "alike", "recent"} => ToSet(todo) \subseteq DOMAIN files
    BY <1>1 DEF ListInv, ToSet
<1>8. step \in {"alike", "recent"} => \A c \in ToSet(todo) : letter.from \in files[c].had
    BY <1>1 DEF ListInv, ToSet
<1> QED BY <1>2, <1>3, <1>4, <1>5, <1>6, <1>7, <1>8

\* A mail that answers nothing is at home anywhere.
LEMMA NoHome ==
    ASSUME \A n \in 1..before : ~Answers(n), NEW m
    PROVE  Home(m)
BY DEF Home

LEMMA StepFindCase == ASSUME Inv, FindCase PROVE Inv'
<1>1. step \in {"id-ref", "ref"} /\ UNCHANGED <<files, notes, letter, before, failed>>
    BY DEF FindCase, Kept
<1>2. step \in Later /\ failed \in BOOLEAN
    BY <1>1 DEF Later, Inv, TypeInv
<1>3. step # "idle" /\ best = NoMatch /\ (~failed => \A n \in 1..before : ~Answers(n))
    BY <1>1, <1>2, Afterwards
<1> DEFINE ref == IF step = "id-ref" THEN letter.idRef ELSE letter.ref
<1>4. CASE ref # 0 /\ Search(ref) # <<>> /\ Turn(step, <<Head(Search(ref))>>)
  <2>1. Head(Search(ref)) \in DOMAIN files
      BY <1>4, SearchFound DEF Inv
  <2>2. PICK c : c = Head(Search(ref))
      OBVIOUS
  <2>3. c \in DOMAIN files /\ c \in Nat /\ Turn(step, <<c>>)
      BY <1>4, <2>1, <2>2 DEF Inv, TypeInv
  <2>4. <<c>> \in Queue(step)
    <3>1. <<c>> \in Seq(Nat) /\ step \notin {"in-reply-to", "references"}
        BY <1>1, <2>3
    <3> QED BY <3>1 DEF Queue
  <2>5. ToSet(<<c>>) \subseteq DOMAIN files
    <3>1. DOMAIN <<c>> = {1} /\ <<c>>[1] = c
        OBVIOUS
    <3> QED BY <2>3, <3>1 DEF ToSet
  <2> QED BY <1>1, <1>2, <1>3, <2>3, <2>4, <2>5, Turned
<1>5. CASE \E s \in {"ref", "list"} : Turn(s, <<>>)
    BY <1>1, <1>2, <1>3, <1>5, Nothing, Turned DEF Later
<1> HIDE DEF ref
<1>6. \/ ref # 0 /\ Search(ref) # <<>> /\ Turn(step, <<Head(Search(ref))>>)
      \/ \E s \in {"ref", "list"} : Turn(s, <<>>)
    BY Zenon DEF FindCase, ref
<1> QED BY <1>4, <1>5, <1>6

LEMMA StepFindNote == ASSUME Inv, FindNote PROVE Inv'
<1>1. step \in {"id-ref", "ref"} /\ todo # <<>> /\ UNCHANGED <<files, notes, letter, before, failed>>
    BY DEF FindNote, Kept
<1>2. step \in Later /\ failed \in BOOLEAN
    BY <1>1 DEF Later, Inv, TypeInv
<1>3. /\ step # "idle" /\ best = NoMatch /\ (~failed => \A n \in 1..before : ~Answers(n))
      /\ todo \in Seq(Nat) /\ ToSet(todo) \subseteq DOMAIN files
    BY <1>1, <1>2, Afterwards
<1> DEFINE c == Head(todo)
           found == OfCase(c, IF step = "id-ref" THEN All ELSE {"email", "response"})
<1>4. CASE /\ found # <<>>
           /\ Found(IF step = "id-ref" THEN Match(c, Head(found), 80, "message-id-case-ref")
                                       ELSE Match(c, Head(found), 95, "subject-case-ref"))
  <2> DEFINE n == Head(found)
             m == IF step = "id-ref" THEN Match(c, n, 80, "message-id-case-ref")
                                     ELSE Match(c, n, 95, "subject-case-ref")
  <2>1. n \in DOMAIN notes /\ notes[n].case = c
      BY <1>4, CaseFound DEF Inv
  <2>2. c \in DOMAIN files /\ c \in Nat
      BY <1>1, <1>3, Elements
  <2>3. Found(m)
      BY <1>4
  <2> HIDE DEF n, c, found
  <2>4. n \in Nat
      BY <2>1 DEF Inv, TypeInv
  <2>5. m \in MatchRow
      BY <2>2, <2>4 DEF Match, MatchRow
  <2>6. m.note = n /\ m.case = c /\ m.via \in {"message-id-case-ref", "subject-case-ref"}
      BY DEF Match
  <2> HIDE DEF m
  <2>7. Owned(m)
      BY <2>1, <2>2, <2>6 DEF Owned
  <2> QED BY <1>1, <1>2, <1>3, <2>3, <2>5, <2>7, NoHome, Ended
<1>5. CASE \E s \in {"ref", "list"} : Turn(s, <<>>)
    BY <1>1, <1>2, <1>3, <1>5, Nothing, Turned DEF Later
<1> QED BY <1>4, <1>5 DEF FindNote

LEMMA StepListCases == ASSUME Inv, ListCases PROVE Inv'
<1>1. step = "list" /\ UNCHANGED <<files, notes, letter, before, failed>> /\ Turn("alike", ByReporter(letter.from))
    BY DEF ListCases, Kept
<1>2. step \in Later /\ failed \in BOOLEAN
    BY <1>1 DEF Later, Inv, TypeInv
<1>3. step # "idle" /\ best = NoMatch /\ (~failed => \A n \in 1..before : ~Answers(n))
    BY <1>1, <1>2, Afterwards
<1>4. ByReporter(letter.from) \in Queue("alike")
    BY ReporterFound DEF Inv, Queue
<1>5. \A c \in ToSet(ByReporter(letter.from)) : c \in DOMAIN files /\ letter.from \in files[c].had
    BY ReporterFound DEF Inv, RowsInv
<1> QED BY <1>1, <1>2, <1>3, <1>4, <1>5, Turned DEF Later

LEMMA StepRecallCases == ASSUME Inv, RecallCases PROVE Inv'
<1> DEFINE open == Rows({c \in ToSet(ByReporter(letter.from)) : ~files[c].closed})
<1>1. step = "recall" /\ UNCHANGED <<files, notes, letter, before, failed>> /\ Turn("recent", open)
    BY DEF RecallCases, Kept
<1>2. step \in Later /\ failed \in BOOLEAN
    BY <1>1 DEF Later, Inv, TypeInv
<1>3. step # "idle" /\ best = NoMatch /\ (~failed => \A n \in 1..before : ~Answers(n))
    BY <1>1, <1>2, Afterwards
<1>4. open \in Queue("recent")
    BY ReporterFound DEF Inv, Queue
<1>5. \A c \in ToSet(open) : c \in DOMAIN files /\ letter.from \in files[c].had
    BY ReporterFound DEF Inv, RowsInv
<1> HIDE DEF open
<1> QED BY <1>1, <1>2, <1>3, <1>4, <1>5, Turned DEF Later

\* A list that is gone through.
LEMMA Advanced ==
    ASSUME Inv, step \in {"alike", "recent"}, todo # <<>>, NEW m \in MatchRow,
           best' = m, todo' = Tail(todo), step' = step, UNCHANGED <<files, notes, letter, before>>,
           failed' \in BOOLEAN, failed => failed',
           Owned(m), m = NoMatch \/ m.via = IF step = "alike" THEN "subject-similarity" ELSE "recent-sender"
    PROVE  Inv'
<1>1. step \in Later
    BY DEF Later
<1>2. /\ step # "idle" /\ (~failed => \A n \in 1..before : ~Answers(n))
      /\ todo \in Seq(Nat) /\ ToSet(todo) \subseteq DOMAIN files
      /\ \A c \in ToSet(todo) : letter.from \in files[c].had
    BY <1>1, Afterwards
<1>3. Tail(todo) \in Queue(step) /\ ToSet(Tail(todo)) \subseteq ToSet(todo)
  <2>1. Tail(todo) \in Seq(Nat) /\ ToSet(Tail(todo)) \subseteq ToSet(todo)
      BY <1>2, TailElements, Zenon
  <2> QED BY <2>1 DEF Queue
<1>4. step' = step /\ step # "in-reply-to" /\ step # "done"
    OBVIOUS
<1> QED BY <1>1, <1>2, <1>3, <1>4, Moved

LEMMA StepCompare == ASSUME Inv, Compare PROVE Inv'
<1>1. step = "alike" /\ UNCHANGED <<files, notes, letter, before, failed>>
    BY DEF Compare, Kept
<1>2. step \in Later /\ failed \in BOOLEAN /\ failed' \in BOOLEAN /\ (failed => failed')
    BY <1>1 DEF Later, Inv, TypeInv
<1>3. /\ step # "idle" /\ letter \in Letters /\ (~failed => \A n \in 1..before : ~Answers(n))
      /\ todo \in Seq(Nat) /\ ToSet(todo) \subseteq DOMAIN files
      /\ best \in MatchRow /\ Owned(best) /\ \A c \in ToSet(todo) : letter.from \in files[c].had
    BY <1>1, <1>2, Afterwards
<1>4. best = NoMatch \/ best.via = "subject-similarity"
    BY <1>1 DEF Inv, BestInv
<1>5. CASE todo # <<>> /\ best' = AlikeIn(Head(todo)) /\ todo' = Tail(todo) /\ UNCHANGED step
  <2>1. PICK c : c = Head(todo)
      OBVIOUS
  <2>2. c \in DOMAIN files /\ c \in Nat /\ letter.from \in files[c].had
      BY <1>3, <1>5, <2>1, Elements
  <2>3. CASE AlikeIn(c) = best
      BY <1>1, <1>2, <1>3, <1>4, <1>5, <2>1, <2>3, Advanced
  <2>4. CASE \E n \in DOMAIN notes, k \in Nat :
                AlikeIn(c) = Match(c, n, k, "subject-similarity") /\ notes[n].case = c
    <3>1. PICK n \in DOMAIN notes, k \in Nat :
                AlikeIn(c) = Match(c, n, k, "subject-similarity") /\ notes[n].case = c
        BY <2>4
    <3>2. PICK m : m = Match(c, n, k, "subject-similarity")
        OBVIOUS
    <3>3. n \in Nat
        BY DEF Inv, TypeInv
    <3>4. m \in MatchRow /\ m.note = n /\ m.case = c /\ m.via = "subject-similarity"
        BY <2>2, <3>2, <3>3 DEF Match, MatchRow
    <3>5. Owned(m)
        BY <2>2, <3>1, <3>4 DEF Owned
    <3>6. best' = m
        BY <1>5, <2>1, <3>1, <3>2
    <3> QED BY <1>1, <1>2, <1>5, <3>4, <3>5, <3>6, Advanced
  <2> QED BY <1>3, <2>3, <2>4, AlikeFound DEF Inv
<1>6. CASE Found(best)
    BY <1>1, <1>2, <1>3, <1>6, NoHome, Ended
<1>7. CASE best = NoMatch /\ Turn("recall", <<>>)
    BY <1>1, <1>2, <1>3, <1>7, Nothing, Turned DEF Later
<1> QED BY <1>5, <1>6, <1>7 DEF Compare

LEMMA StepRecall == ASSUME Inv, Recall PROVE Inv'
<1>1. step = "recent" /\ UNCHANGED <<files, notes, letter, before, failed>>
    BY DEF Recall, Kept
<1>2. step \in Later /\ failed \in BOOLEAN /\ failed' \in BOOLEAN /\ (failed => failed')
    BY <1>1 DEF Later, Inv, TypeInv
<1>3. /\ step # "idle" /\ letter \in Letters /\ (~failed => \A n \in 1..before : ~Answers(n))
      /\ todo \in Seq(Nat) /\ ToSet(todo) \subseteq DOMAIN files
      /\ best \in MatchRow /\ Owned(best) /\ \A c \in ToSet(todo) : letter.from \in files[c].had
    BY <1>1, <1>2, Afterwards
<1>4. best = NoMatch \/ best.via = "recent-sender"
    BY <1>1 DEF Inv, BestInv
<1>5. CASE todo # <<>> /\ todo' = Tail(todo) /\ UNCHANGED step
  <2> DEFINE c == Head(todo)
             ids == {n \in ToSet(OfCase(c, {"email", "response"})) :
                        notes[n].sender = letter.from /\ notes[n].recent}
             recent == Rows(ids)
             n == IF Head(recent) > best.note THEN Head(recent) ELSE best.note
             m == Match(c, n, 70, "recent-sender")
  <2>1. c \in DOMAIN files /\ c \in Nat /\ letter.from \in files[c].had
      BY <1>3, <1>5, Elements
  <2>2. best' = IF recent = <<>> THEN best ELSE m
      BY <1>1, <1>5 DEF Recall
  <2>3. CASE recent = <<>>
      BY <1>1, <1>2, <1>3, <1>4, <1>5, <2>2, <2>3, Advanced
  <2>4. CASE recent # <<>>
    <3>1. ids \subseteq {i \in DOMAIN notes : notes[i].case = c}
        BY CaseFound DEF Inv
    <3>2. ids \subseteq Nat /\ IsFiniteSet(ids)
        BY <3>1, RowNumbers DEF Inv, TypeInv
    <3> HIDE DEF c, ids
    <3>3. Head(recent) \in ids
        BY <2>4, <3>2, RowsList
    <3>4. PICK h : h = Head(recent)
        OBVIOUS
    <3>5. h \in DOMAIN notes /\ notes[h].case = c /\ h \in Nat /\ h > 0
        BY <3>1, <3>3, <3>4 DEF Inv, TypeInv
    <3>6. n = IF h > best.note THEN h ELSE best.note
        BY <3>4
    <3> HIDE DEF n, recent
    <3>7. best.note \in Nat /\ (best = NoMatch => best.note = 0)
        BY <1>3 DEF MatchRow, NoMatch
    <3>8. n \in DOMAIN notes /\ n \in Nat
        BY <1>3, <3>5, <3>6, <3>7 DEF Owned
    <3>9. notes[n].case = c \/ letter.from \in files[notes[n].case].had
      <4>1. CASE h > best.note
          BY <3>5, <3>6, <4>1
      <4>2. CASE ~(h > best.note)
          BY <1>3, <1>4, <3>5, <3>6, <3>7, <4>2 DEF Owned
      <4> QED BY <4>1, <4>2
    <3>10. m \in MatchRow /\ m.note = n /\ m.case = c /\ m.via = "recent-sender"
        BY <2>1, <3>8 DEF Match, MatchRow
    <3> HIDE DEF m
    <3>11. Owned(m)
        BY <2>1, <3>8, <3>9, <3>10 DEF Owned
    <3>12. best' = m
        BY <2>2, <2>4
    <3> QED BY <1>1, <1>2, <1>5, <3>10, <3>11, <3>12, Advanced
  <2> QED BY <2>3, <2>4
<1>6. CASE Found(best)
    BY <1>1, <1>2, <1>3, <1>6, NoHome, Ended
<1> QED BY <1>5, <1>6 DEF Recall

\* A look-up that fails leads nowhere; AnswersGoHome is about searches in which none did.
LEMMA StepLookupFails == ASSUME Inv, LookupFails PROVE Inv'
<1>1. /\ step # "idle" /\ step # "done" /\ ~failed /\ failed' = TRUE
      /\ UNCHANGED <<files, notes, letter, before>> /\ failed' \in BOOLEAN /\ (failed => failed')
    BY DEF LookupFails
<1>2. CASE step = "in-reply-to" /\ todo # <<>> /\ Turn(step, Tail(todo))
  <2>1. TypeInv /\ BestInv /\ AnswerInv
      BY DEF Inv
  <2>2. todo \in Seq(Threads) /\ best = NoMatch /\ best \in MatchRow
      BY <1>2, <2>1 DEF TypeInv, BestInv
  <2>3. Tail(todo) \in Seq(Threads) /\ ToSet(Tail(todo)) \subseteq ToSet(todo)
      BY <1>2, <2>2, TailElements
  <2>4. Tail(todo) \in Queue(step) /\ ToSet(Tail(todo)) \subseteq ToSet(letter.inReplyTo)
      BY <1>2, <2>1, <2>3 DEF Queue, AnswerInv
  <2>5. Owned(best) /\ step' = step /\ todo' = Tail(todo) /\ best' = best
      BY <1>2, <2>2 DEF Owned, Turn
  <2>6. step # "idle" /\ step # "alike" /\ step # "recent" /\ step # "done" /\ step \notin {"id-ref", "ref"}
      BY <1>2
  <2>7. ~failed' => FALSE
      BY <1>1
  <2> QED BY <1>1, <1>2, <2>2, <2>4, <2>5, <2>6, <2>7, Moved
<1>3. CASE step \in Later
  <2>1. /\ best \in MatchRow /\ Owned(best)
        /\ step \notin {"alike", "recent"} => best = NoMatch
      BY <1>3, Afterwards
  <2>2. CASE step = "references" /\ todo # <<>> /\ Turn(step, Tail(todo))
    <3>1. todo \in Seq(Threads)
        BY <2>2 DEF Inv, TypeInv
    <3>2. Tail(todo) \in Seq(Threads)
        BY <2>2, <3>1, TailElements
    <3>3. Tail(todo) \in Queue(step)
        BY <2>2, <3>2 DEF Queue
    <3> QED BY <1>1, <1>3, <2>1, <2>2, <3>3, Turned
  <2>3. CASE step \in {"alike", "recent"} /\ todo # <<>> /\ Turn(step, Tail(todo))
    <3>1. best = NoMatch \/ best.via = IF step = "alike" THEN "subject-similarity" ELSE "recent-sender"
        BY <2>3 DEF Inv, BestInv
    <3>2. best' = best /\ todo' = Tail(todo) /\ step' = step
        BY <2>3 DEF Turn
    <3> QED BY <1>1, <2>1, <2>3, <3>1, <3>2, Advanced
  <2>4. CASE step \in {"id-ref", "ref", "list"} /\ \E s \in {"ref", "list", "recall"} : Turn(s, <<>>)
      BY <1>1, <1>3, <2>1, <2>4, Nothing, Turned DEF Later
  <2>5. CASE step = "recall" /\ Found(NoMatch)
    <3>1. best = NoMatch
        BY <2>1, <2>5
    <3> QED BY <1>1, <2>1, <2>5, <3>1, Ended
  <2> QED BY <1>3, <2>2, <2>3, <2>4, <2>5 DEF LookupFails, Later
<1>4. step = "in-reply-to" => todo # <<>> /\ Turn(step, Tail(todo))
    BY DEF LookupFails
<1>5. step = "in-reply-to" \/ step \in Later
    BY <1>1 DEF LookupFails, Later
<1> QED BY <1>2, <1>3, <1>4, <1>5

-----------------------------------------------------------------------------
(* The handlers beside it, and the specification. *)

\* Rows stay, with what they say; a case keeps whom it had.
Grown ==
    /\ DOMAIN files \subseteq DOMAIN files' /\ \A c \in DOMAIN files : files[c].had \subseteq files'[c].had
    /\ Len(notes) <= Len(notes)' /\ DOMAIN notes \subseteq DOMAIN notes'
    /\ \A n \in DOMAIN notes : notes'[n] = notes[n]

LEMMA GrownKeeps ==
    ASSUME Inv, Grown, TypeInv', RowsInv', step # "done", UNCHANGED <<letter, step, todo, best, before, failed>>
    PROVE  Inv'
<1>1. TypeInv /\ RowsInv /\ ListInv /\ BestInv /\ OwnCaseOnly /\ AnswerInv
    BY DEF Inv
<1>2. Len(notes) \in Nat /\ DOMAIN notes = 1..Len(notes) /\ Len(notes') \in Nat /\ before \in Nat
    BY <1>1 DEF TypeInv
<1>3. ListInv'
    BY <1>1 DEF ListInv, Grown
<1>4. BestInv'
    BY <1>1 DEF BestInv, Grown
<1>5. OwnCaseOnly'
  <2>1. SUFFICES ASSUME best # NoMatch PROVE OwnCaseOnly'
      BY DEF OwnCaseOnly
  <2>2. best.note \in DOMAIN notes /\ best.case \in DOMAIN files /\ notes[best.note].case \in DOMAIN files
      BY <1>1, <2>1 DEF BestInv, RowsInv
  <2>3. notes'[best.note] = notes[best.note]
      BY <2>2 DEF Grown
  <2>4. \/ notes[best.note].case = best.case
        \/ best.via = "recent-sender" /\ letter.from \in files'[notes[best.note].case].had
      BY <1>1, <2>1, <2>2 DEF OwnCaseOnly, Grown
  <2>5. best.via \in {"subject-similarity", "recent-sender"} => letter.from \in files'[best.case].had
      BY <1>1, <2>1, <2>2 DEF OwnCaseOnly, Grown
  <2> QED BY <2>3, <2>4, <2>5 DEF OwnCaseOnly
<1>6. AnswerInv'
  <2>1. \A n \in 1..before : n \in DOMAIN notes /\ notes'[n] = notes[n]
      BY <1>1, <1>2 DEF AnswerInv, Grown
  <2>2. before <= Len(notes')
      BY <1>1, <1>2 DEF AnswerInv, Grown
  <2> QED BY <1>1, <2>1, <2>2 DEF AnswerInv, Answers
<1>7. AnswersGoHome'
    BY DEF AnswersGoHome
<1> QED BY <1>3, <1>4, <1>5, <1>6, <1>7 DEF Inv

LEMMA StepOpen == ASSUME Inv, step # "done", NEW r \in Senders, Open(r) PROVE Inv'
<1> DEFINE f == [reporter |-> r, had |-> {r}, closed |-> FALSE]
<1>1. files \in Seq(FileRow) /\ r # 0 /\ files' = Append(files, f)
    BY DEF Inv, TypeInv, Open
<1>2. UNCHANGED <<notes, letter, step, todo, best, before, failed>>
    BY DEF Open
<1>3. f \in FileRow /\ f.reporter \in f.had
    BY <1>1 DEF FileRow
<1> HIDE DEF f
<1>4. /\ files' \in Seq(FileRow) /\ DOMAIN files' = DOMAIN files \cup {Len(files) + 1}
      /\ \A c \in DOMAIN files : files'[c] = files[c]
      /\ files'[Len(files) + 1] = f
    BY <1>1, <1>3
<1>5. TypeInv'
    BY <1>2, <1>4 DEF Inv, TypeInv
<1>6. RowsInv'
    BY <1>2, <1>3, <1>4 DEF Inv, RowsInv
<1>7. Grown
    BY <1>2, <1>4 DEF Grown, Inv, TypeInv
<1> QED BY <1>2, <1>5, <1>6, <1>7, GrownKeeps

\* A case that is closed or given to another reporter.
LEMMA CaseKept ==
    ASSUME Inv, step # "done", NEW c \in DOMAIN files, NEW f \in FileRow,
           files' = [files EXCEPT ![c] = f], UNCHANGED <<notes, letter, step, todo, best, before, failed>>,
           files[c].had \subseteq f.had, f.reporter \in f.had
    PROVE  Inv'
<1>1. /\ files' \in Seq(FileRow) /\ DOMAIN files' = DOMAIN files /\ files'[c] = f
      /\ \A d \in DOMAIN files : d # c => files'[d] = files[d]
    BY DEF Inv, TypeInv
<1>2. TypeInv'
    BY <1>1 DEF Inv, TypeInv
<1>3. \A d \in DOMAIN files : files[d].had \subseteq files'[d].had
    BY <1>1
<1>4. RowsInv'
    BY <1>1, <1>3 DEF Inv, RowsInv
<1>5. Grown
    BY <1>1, <1>3 DEF Grown, Inv, TypeInv
<1> QED BY <1>2, <1>4, <1>5, GrownKeeps

LEMMA StepCase ==
    ASSUME Inv, step # "done", NEW c \in DOMAIN files, Close(c) \/ \E r \in Senders : Reassign(c, r)
    PROVE  Inv'
<1>1. files[c] \in FileRow /\ files[c].reporter \in files[c].had
    BY DEF Inv, TypeInv, RowsInv
<1>2. CASE Close(c)
  <2>1. PICK f : f = [files[c] EXCEPT !.closed = TRUE]
      OBVIOUS
  <2>2. files' = [files EXCEPT ![c] = f] /\ UNCHANGED <<notes, letter, step, todo, best, before, failed>>
      BY <1>2, <2>1 DEF Close
  <2>3. f \in FileRow /\ f.had = files[c].had /\ f.reporter = files[c].reporter
      BY <1>1, <2>1 DEF FileRow
  <2> QED BY <1>1, <2>2, <2>3, CaseKept
<1>3. ASSUME NEW r \in Senders, Reassign(c, r) PROVE Inv'
  <2>1. PICK f : f = [files[c] EXCEPT !.reporter = r, !.had = @ \cup {r}]
      OBVIOUS
  <2>2. files' = [files EXCEPT ![c] = f] /\ UNCHANGED <<notes, letter, step, todo, best, before, failed>> /\ r # 0
      BY <1>3, <2>1 DEF Reassign
  <2>3. f \in FileRow /\ f.had = files[c].had \cup {r} /\ f.reporter = r
      BY <1>1, <2>1, <2>2 DEF FileRow
  <2> QED BY <2>2, <2>3, CaseKept
<1> QED BY <1>2, <1>3

LEMMA StepRecord ==
    ASSUME Inv, step # "done", NEW c \in DOMAIN files, NEW e \in Entries, Record(c, e)
    PROVE  Inv'
<1>1. PICK n : n = [case |-> c, sender |-> IF e.own THEN files[c].reporter ELSE 0, type |-> e.type,
                    thread |-> e.thread, subject |-> e.subject, recent |-> e.recent]
    OBVIOUS
<1>2. notes' = Append(notes, n) /\ UNCHANGED <<files, letter, step, todo, best, before, failed>>
    BY <1>1 DEF Record
<1>3. notes \in Seq(NoteRow) /\ c \in Nat /\ files[c] \in FileRow /\ files[c].reporter \in files[c].had
    BY DEF Inv, TypeInv, RowsInv
<1>4. n.case = c /\ (n.sender # 0 => n.sender \in files[c].had)
    BY <1>1, <1>3
<1>5. n \in NoteRow
  <2>1. files[c].reporter \in Nat
      BY <1>3, ThreadingAssumption DEF FileRow
  <2>2. e \in [own : BOOLEAN, type : {"email", "response", "note"}, thread : Threads,
                subject : Subjects, recent : BOOLEAN]
      BY ThreadingAssumption
  <2> QED BY <1>1, <1>3, <2>1, <2>2 DEF NoteRow, All
<1>6. /\ notes' \in Seq(NoteRow) /\ DOMAIN notes' = DOMAIN notes \cup {Len(notes) + 1}
      /\ Len(notes') = Len(notes) + 1 /\ Len(notes) \in Nat
      /\ \A i \in DOMAIN notes : notes'[i] = notes[i]
      /\ notes'[Len(notes) + 1] = n
    BY <1>2, <1>3, <1>5
<1>7. TypeInv'
    BY <1>2, <1>6 DEF Inv, TypeInv
<1>8. RowsInv'
    BY <1>2, <1>4, <1>6 DEF Inv, RowsInv
<1>9. Grown
    BY <1>2, <1>6 DEF Grown
<1> QED BY <1>2, <1>7, <1>8, <1>9, GrownKeeps

\* A mail that comes in asks for what its In-Reply-To names.
LEMMA StepReceive == ASSUME Inv, Receive PROVE Inv'
<1>1. /\ step = "idle" /\ step' = "in-reply-to" /\ letter' \in Letters /\ before' = Len(notes)
      /\ todo' = letter'.inReplyTo /\ UNCHANGED <<files, notes, best, failed>>
    BY DEF Receive, Turn
<1>2. TypeInv /\ RowsInv /\ BestInv
    BY DEF Inv
<1>3. best = NoMatch
    BY <1>1, <1>2 DEF BestInv
<1>4. letter'.inReplyTo \in Seq(Threads)
    BY <1>1, ThreadingAssumption
<1>5. Len(notes) \in Nat /\ DOMAIN notes = 1..Len(notes)
    BY <1>2 DEF TypeInv
<1>6. TypeInv'
    BY <1>1, <1>2, <1>4, <1>5 DEF TypeInv
<1>7. RowsInv' /\ ListInv' /\ BestInv' /\ OwnCaseOnly' /\ AnswersGoHome'
    BY <1>1, <1>2, <1>3 DEF RowsInv, ListInv, BestInv, OwnCaseOnly, AnswersGoHome
<1>8. AnswerInv'
    BY <1>1, <1>5 DEF AnswerInv, Answers
<1> QED BY <1>6, <1>7, <1>8 DEF Inv

LEMMA InitInv == ASSUME ThreadingInit PROVE Inv
<1>1. TypeInv
  <2>1. NoMatch \in MatchRow
      BY DEF NoMatch, MatchRow
  <2>2. <<>> \in Seq(FileRow) /\ <<>> \in Seq(NoteRow) /\ <<>> \in Seq(Nat)
      OBVIOUS
  <2>3. /\ files = <<>> /\ notes = <<>> /\ todo = <<>> /\ step = "idle" /\ best = NoMatch
        /\ before = 0 /\ failed = FALSE
      BY DEF ThreadingInit
  <2> QED BY <2>1, <2>2, <2>3 DEF TypeInv
<1>2. RowsInv /\ ListInv /\ BestInv /\ OwnCaseOnly /\ AnswersGoHome
    BY DEF ThreadingInit, RowsInv, ListInv, BestInv, OwnCaseOnly, AnswersGoHome
<1>3. AnswerInv
    BY DEF ThreadingInit, AnswerInv
<1> QED BY <1>1, <1>2, <1>3 DEF Inv

\* The invariant holds however searches and the handlers beside them interleave.
THEOREM InvCorrect == ThreadingSpec => []Inv
<1>1. ThreadingInit => Inv
    BY InitInv
<1>2. Inv /\ [ThreadingNext]_threading => Inv'
  <2> SUFFICES ASSUME Inv, [ThreadingNext]_threading PROVE Inv'
      OBVIOUS
  <2>1. CASE Receive
      BY <2>1, StepReceive
  <2>2. CASE Detector
      BY <2>2, StepIdentify, StepFindCase, StepFindNote, StepListCases, StepCompare, StepRecallCases,
         StepRecall DEF Detector
  <2>3. CASE LookupFails
      BY <2>3, StepLookupFails
  <2>4. CASE step # "done" /\ Others
      BY <2>4, StepOpen, StepCase, StepRecord DEF Others
  <2>5. CASE UNCHANGED threading
      BY <2>5 DEF threading, Inv, TypeInv, RowsInv, ListInv, BestInv, OwnCaseOnly, AnswerInv, AnswersGoHome,
                  Answers
  <2> QED BY <2>1, <2>2, <2>3, <2>4, <2>5 DEF ThreadingNext
<1> QED BY <1>1, <1>2, PTL DEF ThreadingSpec

\* A mail that answers a communication which was there when it came in is put to the first one of
\* a thread that it answers, unless a look-up fails; the communication it is said to answer is of
\* the case that it is put into, but for senders with recent mails in two cases; and only what it
\* refers to leads it to a case that was never its sender's (ThreadDetector.DetectThread).
THEOREM MatchCorrect == ThreadingSpec => []MatchIsGrounded
<1>1. Inv => MatchIsGrounded
    BY DEF Inv, MatchIsGrounded
<1> QED BY <1>1, InvCorrect, PTL

-----------------------------------------------------------------------------
(* Extraction: the URLs. *)

\* Among finitely many places there is a first one of the greatest weight.
LEMMA Champion ==
    ASSUME NEW N \in Nat, NEW w
    PROVE  \A S \in SUBSET (1..N) : (S # {} /\ \A i \in S : w[i] \in Nat) =>
              \E i \in S : \A j \in S : w[j] <= w[i] /\ (j < i => w[j] < w[i])
<1> DEFINE Won(S, i) == \A j \in S : w[j] <= w[i] /\ (j < i => w[j] < w[i])
           Contest(S) == S # {} /\ \A i \in S : w[i] \in Nat
           Bad == {n \in Nat : \E S \in SUBSET (1..n) : Contest(S) /\ ~\E i \in S : Won(S, i)}
<1>1. SUFFICES ASSUME Bad # {} PROVE FALSE
  <2>1. SUFFICES ASSUME NEW S \in SUBSET (1..N), Contest(S), ~\E i \in S : Won(S, i) PROVE N \in Bad
      OBVIOUS
  <2> QED BY <2>1
<1>2. PICK n \in Bad : \A l \in Bad : n <= l
    BY <1>1, Least
<1>3. PICK S \in SUBSET (1..n) : Contest(S) /\ ~\E i \in S : Won(S, i)
    BY <1>2
<1>4. n \in Nat /\ n # 0
  <2>1. n \in Nat
      BY <1>2
  <2>2. SUFFICES ASSUME n = 0 PROVE FALSE
      BY <2>1
  <2>3. 1..n = {}
      BY <2>2
  <2> QED BY <1>3, <2>3
<1>5. PICK T : T = S \ {n}
    OBVIOUS
<1>6. T \in SUBSET (1..(n - 1)) /\ n - 1 \in Nat /\ n - 1 \notin Bad
  <2>1. n - 1 \in Nat /\ ~(n <= n - 1)
      BY <1>4
  <2>2. \A j \in 1..n : j # n => j \in 1..(n - 1)
      BY <1>4
  <2> QED BY <1>2, <1>3, <1>5, <2>1, <2>2
<1>7. n \in S
  <2>1. SUFFICES ASSUME n \notin S PROVE FALSE
      OBVIOUS
  <2>2. T = S
      BY <1>5, <2>1
  <2> QED BY <1>3, <1>6, <2>2
<1>8. CASE T = {}
  <2>1. S = {n}
      BY <1>5, <1>7, <1>8
  <2>2. Won(S, n)
      BY <1>3, <1>4, <2>1
  <2> QED BY <1>3, <1>7, <2>2
<1>9. CASE T # {}
  <2>1. Contest(T)
      BY <1>3, <1>5, <1>9
  <2>2. PICK i \in T : Won(T, i)
      BY <1>6, <2>1
  <2>3. i \in S /\ i < n /\ w[i] \in Nat /\ w[n] \in Nat
      BY <1>3, <1>5, <1>6, <1>7
  <2>4. CASE w[n] <= w[i]
    <3>1. Won(S, i)
        BY <1>5, <2>2, <2>3, <2>4
    <3> QED BY <1>3, <2>3, <3>1
  <2>5. CASE w[i] < w[n]
    <3>1. \A j \in T : w[j] < w[n]
      <4>1. \A j \in T : w[j] \in Nat /\ w[j] <= w[i]
          BY <2>1, <2>2
      <4> QED BY <2>3, <2>5, <4>1
    <3>2. \A j \in S : j = n \/ j \in T
        BY <1>5
    <3>3. Won(S, n)
        BY <1>3, <1>4, <2>3, <3>1, <3>2
    <3> QED BY <1>3, <1>7, <3>3
  <2> QED BY <2>3, <2>4, <2>5
<1> QED BY <1>8, <1>9

\* Every match is of a URL in the text, in one of the passes, and has a place of its own.
LEMMA Matched ==
    ASSUME NEW us \in Seq(URLs)
    PROVE  /\ \A m \in Matches(us) : \E i \in DOMAIN us :
                  \/ us[i].defanged /\ m = [at |-> 0 * Len(us) + i, url |-> Restore(us[i])]
                  \/ ~us[i].defanged /\ m = [at |-> 1 * Len(us) + i, url |-> us[i]]
                  \/ ~us[i].defanged /\ m = [at |-> 2 * Len(us) + i, url |-> Strict(us[i])]
           /\ \A i \in DOMAIN us :
                  /\ us[i].defanged => [at |-> 0 * Len(us) + i, url |-> Restore(us[i])] \in Matches(us)
                  /\ ~us[i].defanged => [at |-> 1 * Len(us) + i, url |-> us[i]] \in Matches(us)
BY DEF Matches

LEMMA URLTypes ==
    ASSUME NEW u \in URLs
    PROVE  /\ Restore(u) \in URLs /\ Strict(u) \in URLs /\ Base(u) \in URLs
           /\ Restore(u).site = u.site /\ Strict(u).site = u.site /\ Base(u).site = u.site
           /\ Restore(u).tail = u.tail /\ Base(u).tail = (IF u.tail = 0 THEN 0 ELSE 1)
           /\ Strict(u).tail = (IF u.tail = 0 THEN 0 ELSE 1)
           /\ Length(u) \in Nat /\ Length(u) >= u.tail /\ Length(Restore(u)) = Length(u)
           /\ u.tail > 0 => Length(Strict(u)) = 1
           /\ ~u.defanged => Restore(u) = u
<1>1. /\ u.site \in Sites /\ u.tail \in Nat /\ u.slash \in BOOLEAN /\ u.query \in SUBSET Hashes /\ IsFiniteSet(u.query)
      /\ u.loose \in BOOLEAN /\ u.defanged \in BOOLEAN
      /\ u = [site |-> u.site, tail |-> u.tail, slash |-> u.slash, query |-> u.query, loose |-> u.loose,
              defanged |-> u.defanged]
    BY DEF URLs
<1>2. IsFiniteSet({}) /\ Cardinality({}) = 0 /\ Cardinality(u.query) \in Nat
    BY <1>1, FS_EmptySet, FS_CardinalityType
<1>3. /\ Restore(u) \in URLs /\ Restore(u).site = u.site /\ Restore(u).tail = u.tail
      /\ Restore(u).slash = u.slash /\ Restore(u).query = u.query /\ Restore(u).loose = u.loose
      /\ Restore(u).defanged = FALSE
    BY <1>1 DEF Restore, URLs
<1>4. Base(u) \in URLs /\ Base(u).site = u.site /\ Base(u).tail = IF u.tail = 0 THEN 0 ELSE 1
    BY <1>1, <1>2 DEF Base, URL, URLs
<1>5. Strict(u) \in URLs /\ Strict(u).site = u.site /\ Strict(u).tail = IF u.tail = 0 THEN 0 ELSE 1
    BY <1>1, <1>4 DEF Strict, URLs
<1>6. Length(u) \in Nat /\ Length(u) >= u.tail
    BY <1>1, <1>2 DEF Length
<1>7. Length(Restore(u)) = Length(u)
    BY <1>3 DEF Length
<1>8. u.tail > 0 => Length(Strict(u)) = 1
    BY <1>1, <1>2 DEF Length, Strict, Base, URL
<1>9. ~u.defanged => Restore(u) = u
    BY <1>1 DEF Restore
<1> QED BY <1>3, <1>4, <1>5, <1>6, <1>7, <1>8, <1>9

LEMMA PlacesDiffer ==
    ASSUME NEW us \in Seq(URLs), NEW m \in Matches(us), NEW o \in Matches(us)
    PROVE  m.at \in 1..(3 * Len(us)) /\ m.url \in URLs /\ (m.at = o.at => m = o)
<1>1. PICK n : n = Len(us) /\ n \in Nat /\ DOMAIN us = 1..n
    OBVIOUS
<1>2. PICK i \in DOMAIN us :
                  \/ us[i].defanged /\ m = [at |-> 0 * n + i, url |-> Restore(us[i])]
                  \/ ~us[i].defanged /\ m = [at |-> 1 * n + i, url |-> us[i]]
                  \/ ~us[i].defanged /\ m = [at |-> 2 * n + i, url |-> Strict(us[i])]
    BY <1>1, Matched
<1>3. PICK j \in DOMAIN us :
                  \/ us[j].defanged /\ o = [at |-> 0 * n + j, url |-> Restore(us[j])]
                  \/ ~us[j].defanged /\ o = [at |-> 1 * n + j, url |-> us[j]]
                  \/ ~us[j].defanged /\ o = [at |-> 2 * n + j, url |-> Strict(us[j])]
    BY <1>1, Matched
<1>4. /\ i \in Nat /\ 1 <= i /\ i <= n /\ j \in Nat /\ 1 <= j /\ j <= n
      /\ 0 * n + i = i /\ 0 * n + j = j /\ 1 * n + i = n + i /\ 1 * n + j = n + j
      /\ 2 * n + i = n + n + i /\ 2 * n + j = n + n + j /\ 3 * n = n + n + n
    BY <1>1
<1>5. m.at \in {i, n + i, n + n + i}
    BY <1>2, <1>4
<1>6. m.at \in 1..(3 * n)
    BY <1>1, <1>4, <1>5
<1>7. us[i] \in URLs /\ Restore(us[i]) \in URLs /\ Strict(us[i]) \in URLs
    BY URLTypes
<1>8. m.url \in URLs
    BY <1>2, <1>7
<1>9. ASSUME m.at = o.at PROVE m = o
  <2>1. i # j => \A a \in {i, n + i, n + n + i}, b \in {j, n + j, n + n + j} : a # b
      BY <1>1, <1>4
  <2>2. o.at \in {j, n + j, n + n + j}
      BY <1>3, <1>4
  <2>3. i = j
      BY <1>5, <1>9, <2>1, <2>2
  <2>4. i # n + i /\ i # n + n + i /\ n + i # n + n + i
      BY <1>1, <1>4
  <2> QED BY <1>2, <1>3, <1>4, <1>9, <2>3, <2>4
<1> QED BY <1>1, <1>6, <1>8, <1>9

\* The matches that are not of attachments; the best ones of each base.
KeptMatches(us) == {m \in Matches(us) : m.url.site \notin Skipped}
BestMatch(us, m) == \A o \in KeptMatches(us) : Base(o.url) = Base(m.url) =>
                        /\ ~Longer(o.url, m.url)
                        /\ o.at < m.at => Longer(m.url, o.url)

LEMMA LongestIsBest ==
    ASSUME NEW us PROVE Longest(us) = {m.url : m \in {k \in KeptMatches(us) : BestMatch(us, k)}}
BY DEF Longest, KeptMatches, BestMatch

\* What is longest matches a URL of the text, and one alone of each base is.
LEMMA LongestOf ==
    ASSUME NEW us \in Seq(URLs)
    PROVE  /\ \A u \in Longest(us) : /\ u \in URLs /\ u.site \notin Skipped
                                     /\ \E i \in DOMAIN us : us[i].site = u.site /\ u.tail <= us[i].tail
           /\ \A u \in Longest(us), v \in Longest(us) : Base(u) = Base(v) => u = v
<1>1. ASSUME NEW u \in Longest(us)
      PROVE  /\ u \in URLs /\ u.site \notin Skipped
             /\ \E i \in DOMAIN us : us[i].site = u.site /\ u.tail <= us[i].tail
  <2>1. PICK m \in KeptMatches(us) : u = m.url
      BY LongestIsBest
  <2>2. m \in Matches(us) /\ u.site \notin Skipped
      BY <2>1 DEF KeptMatches
  <2>3. u \in URLs
      BY <2>1, <2>2, PlacesDiffer
  <2>4. PICK i \in DOMAIN us : u \in {Restore(us[i]), us[i], Strict(us[i])}
      BY <2>1, <2>2, Matched
  <2>5. us[i] \in URLs
      OBVIOUS
  <2>6. us[i].tail \in Nat
      BY <2>5 DEF URLs
  <2>7. u.site = us[i].site /\ u.tail <= us[i].tail
    <3>1. CASE u = Restore(us[i])
      <4>1. u.site = us[i].site /\ u.tail = us[i].tail
          BY <2>5, <3>1, URLTypes
      <4> QED BY <2>6, <4>1
    <3>2. CASE u = us[i]
        BY <2>6, <3>2
    <3>3. CASE u = Strict(us[i])
      <4>1. u.site = us[i].site /\ u.tail = IF us[i].tail = 0 THEN 0 ELSE 1
          BY <2>5, <3>3, URLTypes
      <4> QED BY <2>6, <4>1
    <3> QED BY <2>4, <3>1, <3>2, <3>3
  <2> QED BY <2>2, <2>3, <2>7
<1>2. ASSUME NEW u \in Longest(us), NEW v \in Longest(us), Base(u) = Base(v)
      PROVE  u = v
  <2>1. PICK m \in KeptMatches(us) : u = m.url /\ BestMatch(us, m)
      BY LongestIsBest
  <2>2. PICK o \in KeptMatches(us) : v = o.url /\ BestMatch(us, o)
      BY LongestIsBest
  <2>3. /\ ~Longer(v, u) /\ ~Longer(u, v)
        /\ o.at < m.at => Longer(u, v)
        /\ m.at < o.at => Longer(v, u)
      BY <1>2, <2>1, <2>2 DEF BestMatch
  <2>4. m \in Matches(us) /\ o \in Matches(us)
      BY DEF KeptMatches
  <2>5. m.at \in 1..(3 * Len(us)) /\ o.at \in 1..(3 * Len(us)) /\ (m.at = o.at => m = o)
      BY <2>4, PlacesDiffer
  <2>6. m.at = o.at
      BY <2>3, <2>5
  <2> QED BY <2>1, <2>2, <2>5, <2>6
<1> QED BY <1>1, <1>2

\* For each URL that is not of an attachment there is a longest match of its base, which is no
\* shorter; one with a tail is a URL of the text as it stands there.
LEMMA LongestFor ==
    ASSUME NEW us \in Seq(URLs), NEW i \in DOMAIN us, us[i].site \notin Skipped
    PROVE  \E u \in Longest(us) :
              /\ Base(u) = Base(Restore(us[i])) /\ Length(u) >= Length(us[i])
              /\ u.tail > 0 => \E j \in DOMAIN us : u = Restore(us[j])
<1>1. PICK n : n = Len(us) /\ n \in Nat /\ DOMAIN us = 1..n
    OBVIOUS
<1>2. PICK b : b = Base(Restore(us[i]))
    OBVIOUS
<1>3. PICK C : C = {m \in KeptMatches(us) : Base(m.url) = b}
    OBVIOUS
<1>4. PICK S : S = {m.at : m \in C}
    OBVIOUS
<1> DEFINE w == [p \in S |-> Length((CHOOSE m \in C : m.at = p).url)]
<1>5. \A m \in C : /\ m \in Matches(us) /\ m.at \in S /\ m.url \in URLs /\ m.at \in 1..(3 * n)
                   /\ Length(m.url) \in Nat
    BY <1>1, <1>3, <1>4, PlacesDiffer, URLTypes DEF KeptMatches
<1>6. ASSUME NEW m \in C PROVE w[m.at] = Length(m.url)
  <2>1. PICK o : o = CHOOSE k \in C : k.at = m.at
      OBVIOUS
  <2>2. o \in C /\ o.at = m.at
      BY <2>1
  <2>3. o = m
      BY <1>5, <2>2, PlacesDiffer
  <2> QED BY <1>5, <2>1, <2>3
<1>7. PICK a \in C : a.url = Restore(us[i])
  <2>1. us[i] \in URLs
      OBVIOUS
  <2>2. \E a \in Matches(us) : a.url = Restore(us[i])
    <3>1. CASE us[i].defanged
      <4>1. [at |-> 0 * Len(us) + i, url |-> Restore(us[i])] \in Matches(us)
          BY <3>1, Matched
      <4> QED BY <4>1
    <3>2. CASE ~us[i].defanged
      <4>1. [at |-> 1 * Len(us) + i, url |-> us[i]] \in Matches(us)
          BY <3>2, Matched
      <4>2. Restore(us[i]) = us[i]
          BY <2>1, <3>2, URLTypes
      <4> QED BY <4>1, <4>2
    <3> QED BY <3>1, <3>2
  <2>3. Restore(us[i]).site \notin Skipped
      BY <2>1, URLTypes
  <2> QED BY <1>2, <1>3, <2>2, <2>3 DEF KeptMatches
<1> HIDE DEF w
<1>8. \E p \in S : \A q \in S : w[q] <= w[p] /\ (q < p => w[q] < w[p])
  <2>1. 3 * n \in Nat /\ S \in SUBSET (1..(3 * n)) /\ S # {}
      BY <1>1, <1>4, <1>5, <1>7
  <2>2. \A p \in S : w[p] \in Nat
      BY <1>4, <1>5, <1>6
  <2> QED BY <2>1, <2>2, Champion
<1>9. PICK m \in C : \A o \in C : Length(o.url) <= Length(m.url) /\ (o.at < m.at => Length(o.url) < Length(m.url))
    BY <1>4, <1>5, <1>6, <1>8
<1>10. BestMatch(us, m) /\ m \in KeptMatches(us) /\ Base(m.url) = b
  <2>1. m \in KeptMatches(us) /\ Base(m.url) = b
      BY <1>3
  <2>2. ASSUME NEW o \in KeptMatches(us), Base(o.url) = Base(m.url)
        PROVE  ~Longer(o.url, m.url) /\ (o.at < m.at => Longer(m.url, o.url))
    <3>1. o \in C
        BY <1>3, <2>1, <2>2
    <3> QED BY <1>5, <1>9, <3>1 DEF Longer
  <2> QED BY <2>1, <2>2 DEF BestMatch
<1>11. m.url \in Longest(us)
    BY <1>10, LongestIsBest
<1>12. Length(m.url) >= Length(us[i])
  <2>1. Length(a.url) = Length(us[i]) /\ Length(us[i]) \in Nat
      BY <1>7, URLTypes
  <2> QED BY <1>5, <1>9, <2>1
<1>13. ASSUME m.url.tail > 0 PROVE \E j \in DOMAIN us : m.url = Restore(us[j])
  <2>1. PICK j \in DOMAIN us :
                  \/ us[j].defanged /\ m = [at |-> 0 * n + j, url |-> Restore(us[j])]
                  \/ ~us[j].defanged /\ m = [at |-> 1 * n + j, url |-> us[j]]
                  \/ ~us[j].defanged /\ m = [at |-> 2 * n + j, url |-> Strict(us[j])]
      BY <1>1, <1>5, Matched
  <2>2. us[j] \in URLs
      OBVIOUS
  <2>3. CASE us[j].defanged
      BY <2>1, <2>3
  <2>4. CASE ~us[j].defanged /\ m = [at |-> 1 * n + j, url |-> us[j]]
    <3>1. us[j] = Restore(us[j])
        BY <2>2, <2>4, URLTypes
    <3> QED BY <2>4, <3>1
  <2>5. CASE ~us[j].defanged /\ m = [at |-> 2 * n + j, url |-> Strict(us[j])]
    <3>1. PICK o : o = [at |-> 1 * n + j, url |-> us[j]]
        OBVIOUS
    <3>2. o \in Matches(us) /\ o.url = us[j] /\ m.url = Strict(us[j])
        BY <1>1, <2>5, <3>1, Matched
    <3>3. us[j].tail > 0 /\ us[j].tail \in Nat
      <4>1. us[j].tail \in Nat
          BY <2>2 DEF URLs
      <4>2. m.url.tail = IF us[j].tail = 0 THEN 0 ELSE 1
          BY <2>2, <3>2, URLTypes
      <4> QED BY <1>13, <4>1, <4>2
    <3>4. Base(us[j]) = Base(Strict(us[j])) /\ us[j].site = Strict(us[j]).site
        BY <2>2, <3>3 DEF Base, Strict, URL, URLs
    <3>5. o \in C
        BY <1>3, <1>10, <3>2, <3>4 DEF KeptMatches
    <3>6. o.at < m.at
        BY <1>1, <2>5, <3>1
    <3>7. Length(us[j]) < Length(Strict(us[j]))
        BY <1>9, <3>2, <3>5, <3>6
    <3>8. Length(Strict(us[j])) = 1 /\ Length(us[j]) \in Nat /\ Length(us[j]) >= us[j].tail
        BY <2>2, <3>3, URLTypes
    <3> QED BY <3>3, <3>7, <3>8
  <2> QED BY <2>1, <2>3, <2>4, <2>5
<1> QED BY <1>2, <1>10, <1>11, <1>12, <1>13

\* What the passes do to the end of a URL; doing it twice changes nothing more.
LEMMA Ends ==
    ASSUME NEW u \in URLs
    PROVE  /\ Preserved(u) \in URLs /\ Preserved(u).site = u.site /\ Preserved(u).tail = u.tail
           /\ Normal(u).site = u.site /\ Normal(u).tail = u.tail
           /\ Normal(Preserved(u)) = Normal(u)
<1>1. /\ u.site \in Sites /\ u.tail \in Nat /\ u.slash \in BOOLEAN /\ u.query \in SUBSET Hashes /\ IsFiniteSet(u.query)
      /\ u.loose \in BOOLEAN /\ u.defanged \in BOOLEAN
      /\ u = [site |-> u.site, tail |-> u.tail, slash |-> u.slash, query |-> u.query, loose |-> u.loose,
              defanged |-> u.defanged]
    BY DEF URLs
<1>2. PICK l \in BOOLEAN : l = (u.loose /\ u.query = {})
    BY <1>1
<1>3. Preserved(u) = [site |-> u.site, tail |-> u.tail, slash |-> u.slash, query |-> {}, loose |-> l,
                      defanged |-> u.defanged]
  <2>1. u.loose /\ u.query = {} <=> l
      BY <1>2
  <2>2. CASE l
      BY <1>1, <2>1, <2>2 DEF Preserved
  <2>3. CASE ~l
    <3>1. l = FALSE
        BY <2>3
    <3>2. (u.loose /\ u.query = {}) = FALSE
        BY <2>1, <2>3, Zenon
    <3>3. Preserved(u) = [u EXCEPT !.query = {}, !.loose = FALSE]
        BY <3>2, Zenon DEF Preserved
    <3> QED BY <1>1, <3>1, <3>3
  <2> QED BY <2>2, <2>3
<1>4. Preserved(u) \in URLs
    BY <1>1, <1>2, <1>3, FS_EmptySet DEF URLs
<1>5. Preserved(Preserved(u)) = Preserved(u)
    BY <1>2, <1>3 DEF Preserved
<1>6. Normal(Preserved(u)) = Normal(u)
    BY <1>5 DEF Normal
<1>7. Normal(u).site = u.site /\ Normal(u).tail = u.tail
    BY <1>3 DEF Normal
<1> QED BY <1>3, <1>4, <1>6, <1>7

\* While a reading goes over the variants: what of them it has gone over is left once each.
UrlInv ==
    phase \in {"hashes", "urls"} =>
        /\ variants \subseteq Longest(mail.urls)
        /\ \A v \in urls : \E u \in Longest(mail.urls) : v = Preserved(u)
        /\ \A u \in urls, v \in urls : Normal(u) = Normal(v) => u = v
        /\ \A u \in Longest(mail.urls) \ variants : \E v \in urls : Normal(v) = Normal(u)

LEMMA UrlInvImplies ==
    ASSUME mail.urls \in Seq(URLs), UrlInv PROVE UrlsSurvive
<1>1. SUFFICES ASSUME phase \in {"hashes", "urls"}, variants = {} PROVE UrlsSurvive
    BY DEF UrlsSurvive
<1>2. PICK us : us = mail.urls
    OBVIOUS
<1>3. us \in Seq(URLs)
    BY <1>2
<1>4. /\ \A v \in urls : \E u \in Longest(us) : v = Preserved(u)
      /\ \A u \in urls, v \in urls : Normal(u) = Normal(v) => u = v
      /\ \A u \in Longest(us) : \E v \in urls : Normal(v) = Normal(u)
    BY <1>1, <1>2 DEF UrlInv
<1>5. ToSet(us) = {us[i] : i \in DOMAIN us}
    BY DEF ToSet
<1>6. \A i \in DOMAIN us : us[i] \in URLs /\ us[i].tail \in Nat
  <2>1. \A i \in DOMAIN us : us[i] \in URLs
      BY <1>3
  <2> QED BY <2>1 DEF URLs
<1>7. ASSUME NEW u \in ToSet(us), u.site \notin Skipped
      PROVE  \/ u.tail = 0 /\ \E v \in urls : Normal(v) = Normal(Restore(u))
             \/ u.tail > 0 /\ \E v \in ToSet(us) : /\ v.site = u.site /\ v.tail > 0 /\ Length(v) >= Length(u)
                                                   /\ Preserved(Restore(v)) \in urls
  <2>1. PICK i \in DOMAIN us : u = us[i]
      BY <1>5
  <2>2. PICK r : r = Restore(u)
      OBVIOUS
  <2>3. u \in URLs /\ u.tail \in Nat
      BY <1>6, <2>1
  <2>4. /\ r \in URLs /\ r.site = u.site /\ r.tail = u.tail /\ Base(r) \in URLs
        /\ Base(r).site = r.site /\ Base(r).tail = (IF r.tail = 0 THEN 0 ELSE 1)
    <3>1. r \in URLs /\ r.site = u.site /\ r.tail = u.tail
        BY <2>2, <2>3, URLTypes
    <3> QED BY <3>1, URLTypes
  <2>5. PICK w \in Longest(us) :
              /\ Base(w) = Base(r) /\ Length(w) >= Length(u)
              /\ w.tail > 0 => \E j \in DOMAIN us : w = Restore(us[j])
      BY <1>3, <1>7, <2>1, <2>2, LongestFor
  <2>6. w \in URLs /\ w.tail \in Nat
    <3>1. w \in URLs
        BY <1>3, <2>5, LongestOf
    <3> QED BY <3>1 DEF URLs
  <2>7. Base(w).site = w.site /\ Base(w).tail = IF w.tail = 0 THEN 0 ELSE 1
      BY <2>6, URLTypes
  <2>8. w.site = u.site /\ (w.tail = 0 <=> u.tail = 0)
    <3>1. (IF w.tail = 0 THEN 0 ELSE 1) = (IF u.tail = 0 THEN 0 ELSE 1)
        BY <2>4, <2>5, <2>7
    <3> QED BY <2>4, <2>5, <2>7, <3>1
  <2>9. PICK v \in urls : Normal(v) = Normal(w)
      BY <1>4, <2>5
  <2>10. CASE u.tail = 0
    <3>1. w = r
        BY <2>4, <2>5, <2>8, <2>10 DEF Base
    <3> QED BY <2>2, <2>9, <2>10, <3>1
  <2>11. CASE u.tail # 0
    <3>1. PICK j \in DOMAIN us : w = Restore(us[j])
        BY <2>5, <2>6, <2>8, <2>11
    <3>2. us[j].site = u.site /\ us[j].tail = w.tail /\ Length(us[j]) = Length(w)
      <4>1. us[j] \in URLs
          BY <1>6
      <4>2. w.site = us[j].site /\ w.tail = us[j].tail /\ Length(w) = Length(us[j])
          BY <3>1, <4>1, URLTypes
      <4> QED BY <2>8, <4>2
    <3>3. Preserved(w) \in urls
      <4>1. PICK x \in Longest(us) : v = Preserved(x)
          BY <1>4
      <4>2. x \in URLs
          BY <1>3, LongestOf
      <4>3. Normal(x) = Normal(w)
          BY <2>9, <4>1, <4>2, Ends
      <4>4. x.site = w.site /\ x.tail = w.tail
        <5>1. Normal(x).site = x.site /\ Normal(x).tail = x.tail
            BY <4>2, Ends
        <5>2. Normal(w).site = w.site /\ Normal(w).tail = w.tail
            BY <2>6, Ends
        <5> QED BY <4>3, <5>1, <5>2
      <4>5. Base(x) = Base(w)
          BY <2>8, <2>11, <4>4 DEF Base
      <4>6. x = w
          BY <1>3, <2>5, <4>5, LongestOf
      <4> QED BY <4>1, <4>6
    <3>4. us[j] \in ToSet(us) /\ u.tail > 0 /\ us[j].tail > 0
        BY <1>5, <2>3, <2>6, <2>8, <2>11, <3>2
    <3> QED BY <2>5, <3>1, <3>2, <3>3, <3>4
  <2> QED BY <2>10, <2>11
<1>8. ASSUME NEW v \in urls PROVE \E u \in ToSet(us) : u.site = v.site /\ v.tail <= u.tail
  <2>1. PICK w \in Longest(us) : v = Preserved(w)
      BY <1>4
  <2>2. w \in URLs /\ \E i \in DOMAIN us : us[i].site = w.site /\ w.tail <= us[i].tail
      BY <1>3, LongestOf
  <2>3. v.site = w.site /\ v.tail = w.tail
      BY <2>1, <2>2, Ends
  <2> QED BY <1>5, <2>2, <2>3
<1> QED BY <1>2, <1>4, <1>7, <1>8 DEF UrlsSurvive

-----------------------------------------------------------------------------
(* Extraction: the subjects, and the invariant. *)

\* The hashes of a mail that become subjects.
Hashed == Spelled \cup UNION {PathHashes[u.site] : u \in {v \in ToSet(mail.urls) : v.site \notin Skipped}}

\* They do when the hashes are linked, and the URLs have no others.
HashInv ==
    /\ phase \in {"idle", "failed", "hashes-collect", "hashes"} => links = {}
    /\ phase \in {"urls-collect", "urls", "read", "done"} =>
          {l.hash : l \in links} = Hashed /\ \A l \in links : l.url = "none"

ReportInv ==
    (mail.arf /\ phase \notin {"idle", "failed"}) =>
        /\ report.date = DateOf(mail.fields)
        /\ mail.parts = 3 => report.subject = SubjectOf(mail.original)

MainInv ==
    (phase = "done" /\ \A i \in DOMAIN mail.lines : mail.lines[i].kind # "forward") =>
        main = ParseEmailStructure(mail.lines)

Phases == {"idle", "failed", "hashes-collect", "hashes", "urls-collect", "urls", "read", "done"}

ReadInv ==
    /\ phase \in Phases /\ (phase # "idle" => mail \in Texts)
    /\ UrlInv /\ HashInv /\ ReportInv /\ MainInv

LEMMA InitRead == ASSUME ExtractionInit PROVE ReadInv
BY DEF ExtractionInit, ReadInv, Phases, UrlInv, HashInv, ReportInv, MainInv

LEMMA StepReadIn == ASSUME ReadInv, ReadReport \/ ReadMail PROVE ReadInv'
<1>1. /\ phase = "idle" /\ mail' \in Texts /\ phase' \in {"failed", "hashes-collect"}
      /\ variants' = variants /\ urls' = urls /\ links' = links /\ main' = main
    BY DEF ReadReport, ReadMail
<1>2. UrlInv' /\ MainInv'
    BY <1>1 DEF UrlInv, MainInv
<1>3. HashInv'
    BY <1>1 DEF HashInv, ReadInv
<1>4. ReportInv'
  <2>1. CASE ReadReport
    <3>1. SUFFICES ASSUME phase' \notin {"idle", "failed"} PROVE ReportInv'
        BY DEF ReportInv
    <3>2. report' = [date |-> DateOf(mail'.fields),
                     subject |-> IF mail'.parts = 2 THEN "" ELSE SubjectOf(mail'.original)]
        BY <2>1, <3>1 DEF ReadReport
    <3>3. PICK d : d = DateOf(mail'.fields)
        OBVIOUS
    <3>4. PICK t : t = SubjectOf(mail'.original)
        OBVIOUS
    <3>5. report' = [date |-> d, subject |-> IF mail'.parts = 2 THEN "" ELSE t]
        BY <3>2, <3>3, <3>4, Zenon
    <3>6. report'.date = d
        BY <3>5
    <3>7. ASSUME mail'.parts = 3 PROVE report'.subject = t
      <4>1. mail'.parts # 2
          BY <3>7
      <4>2. report' = [date |-> d, subject |-> t]
          BY <3>5, <4>1
      <4> QED BY <4>2
    <3> QED BY <3>3, <3>4, <3>6, <3>7 DEF ReportInv
  <2>2. CASE ReadMail
      BY <2>2 DEF ReadMail, ReportInv
  <2> QED BY <2>1, <2>2
<1>5. phase' \in Phases /\ (phase' # "idle" => mail' \in Texts)
    BY <1>1 DEF Phases
<1> QED BY <1>2, <1>3, <1>4, <1>5 DEF ReadInv

\* A step of the reading of a mail.
LEMMA Reading ==
    ASSUME ReadInv, mail' = mail, report' = report, main' = main, phase \notin {"idle", "failed", "done"},
           phase' \in Phases \ {"idle", "failed", "done"}, UrlInv', HashInv'
    PROVE  ReadInv'
<1>1. ReportInv'
    BY DEF ReadInv, ReportInv
<1>2. MainInv'
    BY DEF MainInv
<1> QED BY <1>1, <1>2 DEF ReadInv

LEMMA StepCollect == ASSUME ReadInv, Collect PROVE ReadInv'
<1>1. /\ mail' = mail /\ report' = report /\ links' = links /\ main' = main
      /\ variants' = Longest(mail.urls) /\ urls' = {}
      /\ \/ phase = "hashes-collect" /\ phase' = "hashes"
         \/ phase = "urls-collect" /\ phase' = "urls"
    BY DEF Collect
<1>2. UrlInv'
  <2>1. variants' = Longest(mail'.urls)
      BY <1>1
  <2> QED BY <1>1, <2>1 DEF UrlInv
<1>3. HashInv'
  <2>1. Hashed' = Hashed
      BY <1>1 DEF Hashed, Spelled
  <2> QED BY <1>1, <2>1 DEF HashInv, ReadInv
<1> QED BY <1>1, <1>2, <1>3, Reading DEF Phases

LEMMA StepEmit == ASSUME ReadInv, Emit PROVE ReadInv'
<1>1. PICK u \in variants :
          /\ variants' = variants \ {u}
          /\ urls' = IF \E v \in urls : Normal(v) = Normal(u) THEN urls ELSE urls \cup {Preserved(u)}
    BY DEF Emit
<1>2. /\ mail' = mail /\ report' = report /\ links' = links /\ main' = main /\ phase' = phase
      /\ phase \in {"hashes", "urls"}
    BY DEF Emit
<1>3. PICK us : us = mail.urls
    OBVIOUS
<1>4. us \in Seq(URLs)
    BY <1>2, <1>3, ExtractionAssumption DEF ReadInv
<1>5. /\ variants \subseteq Longest(us)
      /\ \A v \in urls : \E w \in Longest(us) : v = Preserved(w)
      /\ \A w \in urls, v \in urls : Normal(w) = Normal(v) => w = v
      /\ \A w \in Longest(us) \ variants : \E v \in urls : Normal(v) = Normal(w)
    BY <1>2, <1>3 DEF UrlInv, ReadInv
<1>6. u \in URLs /\ Normal(Preserved(u)) = Normal(u)
  <2>1. u \in URLs
      BY <1>1, <1>4, <1>5, LongestOf
  <2> QED BY <2>1, Ends
<1>7. UrlInv'
  <2>1. mail'.urls = us
      BY <1>2, <1>3
  <2>2. variants' \subseteq Longest(us)
      BY <1>1, <1>5
  <2>3. CASE \E v \in urls : Normal(v) = Normal(u)
    <3>1. urls' = urls
        BY <1>1, <2>3
    <3>2. \A w \in Longest(us) \ variants' : \E v \in urls : Normal(v) = Normal(w)
        BY <1>1, <1>5, <2>3
    <3> QED BY <1>5, <2>1, <2>2, <3>1, <3>2 DEF UrlInv
  <2>4. CASE ~\E v \in urls : Normal(v) = Normal(u)
    <3>1. urls' = urls \cup {Preserved(u)}
        BY <1>1, <2>4
    <3>2. \A v \in urls' : \E w \in Longest(us) : v = Preserved(w)
        BY <1>1, <1>5, <3>1
    <3>3. \A w \in urls', v \in urls' : Normal(w) = Normal(v) => w = v
        BY <1>5, <1>6, <2>4, <3>1
    <3>4. \A w \in Longest(us) \ variants' : \E v \in urls' : Normal(v) = Normal(w)
        BY <1>1, <1>5, <1>6, <3>1
    <3> QED BY <2>1, <2>2, <3>2, <3>3, <3>4 DEF UrlInv
  <2> QED BY <2>3, <2>4
<1>8. HashInv'
  <2>1. Hashed' = Hashed
      BY <1>2 DEF Hashed, Spelled
  <2> QED BY <1>2, <2>1 DEF HashInv, ReadInv
<1> QED BY <1>2, <1>7, <1>8, Reading DEF Phases

\* What has been gone over has the sites of the URLs in the mail, but for those of attachments.
LEMMA SitesFound ==
    ASSUME ReadInv, phase \in {"hashes", "urls"}, variants = {}
    PROVE  UNION {InURL(u) : u \in urls}
              = UNION {PathHashes[u.site] : u \in {v \in ToSet(mail.urls) : v.site \notin Skipped}}
<1>1. PICK us : us = mail.urls
    OBVIOUS
<1>2. us \in Seq(URLs)
    BY <1>1, ExtractionAssumption DEF ReadInv
<1>3. UrlsSurvive
    BY <1>1, <1>2, UrlInvImplies DEF ReadInv
<1>4. \A v \in urls : \E w \in Longest(us) : v = Preserved(w)
    BY <1>1 DEF UrlInv, ReadInv
<1>5. \A v \in urls : v \in URLs /\ v.site \notin Skipped
  <2>1. TAKE v \in urls
  <2>2. PICK w \in Longest(us) : v = Preserved(w)
      BY <1>4
  <2>3. w \in URLs /\ w.site \notin Skipped
      BY <1>2, LongestOf
  <2> QED BY <2>2, <2>3, Ends
<1>6. ASSUME NEW v \in urls
      PROVE  \E u \in ToSet(us) : u.site = v.site /\ v.site \notin Skipped
    BY <1>1, <1>3, <1>5 DEF UrlsSurvive
<1>7. ASSUME NEW u \in ToSet(us), u.site \notin Skipped
      PROVE  \E v \in urls : v.site = u.site
  <2>1. \A w \in ToSet(us) : w \in URLs
      BY <1>2 DEF ToSet
  <2>2. \A w \in ToSet(us) : Restore(w) \in URLs /\ Restore(w).site = w.site
      BY <2>1, URLTypes
  <2>3. CASE \E v \in urls : Normal(v) = Normal(Restore(u))
    <3>1. PICK v \in urls : Normal(v) = Normal(Restore(u))
        BY <2>3
    <3>2. Normal(v).site = v.site
        BY <1>5, Ends
    <3>3. Normal(Restore(u)).site = u.site
        BY <2>2, Ends
    <3> QED BY <3>1, <3>2, <3>3
  <2>4. CASE \E v \in ToSet(us) : v.site = u.site /\ Preserved(Restore(v)) \in urls
    <3>1. PICK v \in ToSet(us) : v.site = u.site /\ Preserved(Restore(v)) \in urls
        BY <2>4
    <3>2. Preserved(Restore(v)).site = v.site
        BY <2>2, Ends
    <3> QED BY <3>1, <3>2
  <2> QED BY <1>1, <1>3, <1>7, <2>3, <2>4 DEF UrlsSurvive
<1>8. UNION {PathHashes[v.site] : v \in urls} = UNION {PathHashes[u.site] : u \in {v \in ToSet(us) : v.site \notin Skipped}}
    BY <1>6, <1>7
<1>9. \A u \in urls : InURL(u) = PathHashes[u.site]
    BY DEF InURL
<1> QED BY <1>1, <1>8, <1>9

LEMMA StepLinkHashes == ASSUME ReadInv, LinkHashes PROVE ReadInv'
<1>1. /\ mail' = mail /\ report' = report /\ urls' = urls /\ main' = main /\ variants' = variants
      /\ phase = "hashes" /\ variants = {} /\ phase' \in {"read", "urls-collect"}
      /\ links' = FindOrCreate(links, [hash : (UNION {InURL(u) : u \in urls}) \cup Spelled, url : {"none"}])
    BY DEF LinkHashes
<1>2. links = {}
    BY <1>1 DEF ReadInv, HashInv
<1>3. (UNION {InURL(u) : u \in urls}) \cup Spelled = Hashed
    BY <1>1, SitesFound DEF Hashed
<1>4. links' = [hash : Hashed, url : {"none"}]
    BY <1>1, <1>2, <1>3 DEF FindOrCreate
<1>5. Hashed' = Hashed
    BY <1>1 DEF Hashed, Spelled
<1>6. {l.hash : l \in links'} = Hashed /\ \A l \in links' : l.url = "none"
  <2>1. ASSUME NEW h \in Hashed PROVE \E l \in links' : l.hash = h
    <3>1. [hash |-> h, url |-> "none"] \in links'
        BY <1>4
    <3> QED BY <3>1
  <2> QED BY <1>4, <2>1
<1>7. HashInv'
    BY <1>1, <1>5, <1>6 DEF HashInv
<1>8. UrlInv'
    BY <1>1 DEF UrlInv
<1> QED BY <1>1, <1>7, <1>8, Reading DEF Phases

LEMMA StepLinkURLs == ASSUME ReadInv, LinkURLs PROVE ReadInv'
<1>1. /\ mail' = mail /\ report' = report /\ urls' = urls /\ main' = main /\ variants' = variants
      /\ phase = "urls" /\ variants = {} /\ phase' = "read"
      /\ links' = FindOrCreate(links, UNION {[hash : InURL(u), url : {u.site}] : u \in urls})
    BY DEF LinkURLs
<1>2. {l.hash : l \in links} = Hashed /\ \A l \in links : l.url = "none"
    BY <1>1 DEF ReadInv, HashInv
<1>3. UNION {InURL(u) : u \in urls} \subseteq Hashed
    BY <1>1, SitesFound DEF Hashed
<1>4. ASSUME NEW l \in UNION {[hash : InURL(u), url : {u.site}] : u \in urls}
      PROVE  \E k \in links : k.hash = l.hash
  <2>1. PICK u \in urls : l \in [hash : InURL(u), url : {u.site}]
      OBVIOUS
  <2>2. l.hash \in InURL(u)
      BY <2>1
  <2>3. l.hash \in Hashed
      BY <1>3, <2>2
  <2> QED BY <1>2, <2>3
<1>5. links' = links
    BY <1>1, <1>4 DEF FindOrCreate
<1>6. Hashed' = Hashed
    BY <1>1 DEF Hashed, Spelled
<1>7. HashInv'
    BY <1>1, <1>2, <1>5, <1>6 DEF HashInv
<1>8. UrlInv'
    BY <1>1 DEF UrlInv
<1> QED BY <1>1, <1>7, <1>8, Reading DEF Phases

LEMMA StepMain == ASSUME ReadInv, ExtractMainContent PROVE ReadInv'
<1>1. /\ mail' = mail /\ report' = report /\ urls' = urls /\ links' = links /\ variants' = variants
      /\ phase = "read" /\ phase' = "done"
    BY DEF ExtractMainContent
<1>2. ReportInv' /\ UrlInv'
    BY <1>1 DEF ReadInv, ReportInv, UrlInv
<1>3. HashInv'
  <2>1. Hashed' = Hashed
      BY <1>1 DEF Hashed, Spelled
  <2> QED BY <1>1, <2>1 DEF HashInv, ReadInv
<1>4. MainInv'
  <2>1. SUFFICES ASSUME \A i \in DOMAIN mail.lines : mail.lines[i].kind # "forward"
                 PROVE  main' = ParseEmailStructure(mail.lines)
      BY <1>1 DEF MainInv
  <2>2. {i \in DOMAIN mail.lines : mail.lines[i].kind = "forward"} = {}
      BY <2>1
  <2> QED BY <2>2 DEF ExtractMainContent
<1> QED BY <1>1, <1>2, <1>3, <1>4 DEF ReadInv, Phases

-----------------------------------------------------------------------------
(* Extraction: the main text. *)

\* Lines between which no block begins have one level, and none of them but the last is empty.
LEMMA OneLevel ==
    ASSUME NEW lines \in Seq(Lines), NEW a \in DOMAIN lines, NEW b \in DOMAIN lines,
           \A k \in 2..Len(lines) : (a < k /\ k <= b) => ~Begins(lines[k], lines[k - 1])
    PROVE  \A m \in a..b : lines[m].level = lines[a].level /\ (m < b => lines[m].kind # "blank")
<1>1. PICK n \in Nat : n = Len(lines) /\ DOMAIN lines = 1..n
    OBVIOUS
<1>2. a \in Nat /\ 1 <= a /\ b \in Nat /\ b <= n
    BY <1>1
<1>3. ASSUME NEW m \in a..b, m < b PROVE lines[m].kind # "blank"
  <2>1. PICK k : k = m + 1
      OBVIOUS
  <2>2. k \in 2..n /\ a < k /\ k <= b /\ k - 1 = m
      BY <1>2, <1>3, <2>1
  <2>3. ~Begins(lines[k], lines[m])
      BY <1>1, <2>2
  <2> QED BY <2>3 DEF Begins
<1> DEFINE Other == {m \in a..b : lines[m].level # lines[a].level}
<1>4. SUFFICES ASSUME Other # {} PROVE FALSE
    BY <1>3
<1>5. Other \subseteq Nat
    BY <1>2
<1>6. PICK m \in Other : \A l \in Other : m <= l
    BY <1>4, <1>5, Least
<1>7. m \in a..b /\ lines[m].level # lines[a].level
    BY <1>6
<1>8. m # a
    BY <1>7
<1>9. m \in 2..n /\ a < m /\ m <= b /\ m - 1 \in a..b /\ ~(m <= m - 1)
    BY <1>2, <1>7, <1>8
<1>10. ~Begins(lines[m], lines[m - 1])
    BY <1>1, <1>9
<1>11. lines[m].level = lines[m - 1].level
    BY <1>10 DEF Begins
<1>12. lines[m - 1].level = lines[a].level
    BY <1>6, <1>9
<1> QED BY <1>7, <1>11, <1>12

\* The lines between two of one block; what makes a block begin is not in it after another line.
LEMMA BlockLines ==
    ASSUME NEW lines \in Seq(Lines), NEW i \in DOMAIN lines, NEW j \in Block(i, lines)
    PROVE  /\ j \in DOMAIN lines /\ lines[j].level = lines[i].level
           /\ \A k \in DOMAIN lines : (i <= k /\ k <= j) \/ (j <= k /\ k <= i) =>
                 /\ lines[k].level = lines[i].level
                 /\ k # i /\ k # j => lines[k].kind # "blank"
           /\ i < j => /\ lines[j].kind # "sign" /\ ~(lines[j].kind = "dashes" /\ lines[j].level = 0)
                       /\ lines[i].kind # "blank"
           /\ j < i => lines[j].kind # "blank"
<1>1. PICK n \in Nat : n = Len(lines) /\ DOMAIN lines = 1..n
    OBVIOUS
<1>2. j \in DOMAIN lines /\ \A k \in 2..Len(lines) :
          ((i < k /\ k <= j) \/ (j < k /\ k <= i)) => ~Begins(lines[k], lines[k - 1])
    BY DEF Block
<1>3. i \in Nat /\ 1 <= i /\ i <= n /\ j \in Nat /\ 1 <= j /\ j <= n
    BY <1>1, <1>2
<1>4. \A m \in i..j : lines[m].level = lines[i].level /\ (m < j => lines[m].kind # "blank")
    BY <1>2, OneLevel
<1>5. \A m \in j..i : lines[m].level = lines[j].level /\ (m < i => lines[m].kind # "blank")
    BY <1>2, OneLevel
<1>6. lines[j].level = lines[i].level
  <2>1. CASE i <= j
    <3>1. j \in i..j
        BY <1>3, <2>1
    <3> QED BY <1>4, <3>1
  <2>2. CASE j <= i
    <3>1. i \in j..i
        BY <1>3, <2>2
    <3> QED BY <1>5, <3>1
  <2> QED BY <1>3, <2>1, <2>2
<1>7. ASSUME NEW k \in DOMAIN lines, (i <= k /\ k <= j) \/ (j <= k /\ k <= i)
      PROVE  lines[k].level = lines[i].level /\ (k # i /\ k # j => lines[k].kind # "blank")
  <2>1. k \in Nat
      BY <1>1
  <2>2. CASE i <= k /\ k <= j
    <3>1. k \in i..j /\ (k # j => k < j)
        BY <1>3, <2>1, <2>2
    <3> QED BY <1>4, <3>1
  <2>3. CASE j <= k /\ k <= i
    <3>1. k \in j..i /\ (k # i => k < i)
        BY <1>3, <2>1, <2>3
    <3> QED BY <1>5, <1>6, <3>1
  <2> QED BY <1>7, <2>2, <2>3
<1>8. ASSUME i < j
      PROVE  /\ lines[j].kind # "sign" /\ ~(lines[j].kind = "dashes" /\ lines[j].level = 0)
             /\ lines[i].kind # "blank"
  <2>1. j \in 2..Len(lines) /\ i \in i..j
      BY <1>1, <1>3, <1>8
  <2>2. ~Begins(lines[j], lines[j - 1])
      BY <1>2, <1>3, <1>8, <2>1
  <2> QED BY <1>4, <1>8, <2>1, <2>2 DEF Begins
<1>9. ASSUME j < i PROVE lines[j].kind # "blank"
  <2>1. j \in j..i
      BY <1>3, <1>9
  <2> QED BY <1>5, <1>9, <2>1
<1> QED BY <1>2, <1>6, <1>7, <1>8, <1>9

\* A block has the line it is of, and a first line.
LEMMA BlockHead ==
    ASSUME NEW lines \in Seq(Lines), NEW i \in DOMAIN lines
    PROVE  i \in Block(i, lines) /\ Min(Block(i, lines)) \in Block(i, lines)
<1>1. PICK n \in Nat : n = Len(lines) /\ DOMAIN lines = 1..n
    OBVIOUS
<1>2. i \in Block(i, lines)
  <2>1. \A k \in 2..Len(lines) : ~(i < k /\ k <= i)
      BY <1>1
  <2> QED BY <2>1 DEF Block
<1>3. Block(i, lines) \subseteq Nat
    BY <1>1 DEF Block
<1>4. \E m \in Block(i, lines) : \A k \in Block(i, lines) : m <= k
    BY <1>2, <1>3, Least
<1> QED BY <1>2, <1>4 DEF Min

LEMMA MinMax ==
    ASSUME NEW i \in Nat, NEW j \in Nat
    PROVE  /\ i <= j => Min({i, j}) = i /\ Max({i, j}) = j
           /\ j <= i => Min({i, j}) = j /\ Max({i, j}) = i
<1>1. PICK a \in {i, j} : \A y \in {i, j} : a <= y
  <2>1. i <= j \/ j <= i
      OBVIOUS
  <2> QED BY <2>1
<1>2. PICK b \in {i, j} : \A y \in {i, j} : b >= y
  <2>1. i <= j \/ j <= i
      OBVIOUS
  <2> QED BY <2>1
<1>3. Min({i, j}) \in {i, j} /\ \A y \in {i, j} : Min({i, j}) <= y
    BY <1>1 DEF Min
<1>4. Max({i, j}) \in {i, j} /\ \A y \in {i, j} : Max({i, j}) >= y
    BY <1>2 DEF Max
<1> QED BY <1>3, <1>4

LEMMA MainIsShallow ==
    ASSUME ReadInv PROVE MainTextIsShallow
<1>1. SUFFICES ASSUME phase = "done", \A i \in DOMAIN mail.lines : mail.lines[i].kind # "forward"
               PROVE  MainTextIsShallow
    BY DEF MainTextIsShallow
<1>2. PICK lines : lines = mail.lines
    OBVIOUS
<1>3. lines \in Seq(Lines)
    BY <1>1, <1>2, ExtractionAssumption DEF ReadInv
<1>4. PICK n \in Nat : n = Len(lines) /\ DOMAIN lines = 1..n
    BY <1>3
<1>5. \A i \in DOMAIN lines :
          /\ lines[i].level \in Nat
          /\ lines[i].kind \in {"text", "sign", "dashes", "polite", "blank"}
  <2>1. TAKE i \in DOMAIN lines
  <2>2. lines[i] \in Lines
      BY <1>3
  <2>3. lines[i].level \in Nat /\ lines[i].kind \in {"text", "sign", "dashes", "polite", "forward", "blank"}
      BY <2>2 DEF Lines
  <2> QED BY <1>1, <1>2, <2>3
<1> DEFINE S == {i \in DOMAIN lines : /\ ~IsSignature(Block(i, lines), lines) /\ lines[Min(Block(i, lines))].level <= 1
                                      /\ lines[i].kind # "blank"}
<1>6. main = InTurn(S)
    BY <1>1, <1>2 DEF ReadInv, MainInv, ParseEmailStructure
<1>7. S \subseteq Nat /\ IsFiniteSet(S)
  <2>1. S \subseteq DOMAIN lines
      OBVIOUS
  <2> HIDE DEF S
  <2> QED BY <1>3, <2>1, RowNumbers
<1>8. ASSUME NEW i \in DOMAIN lines
      PROVE  /\ lines[Min(Block(i, lines))].level = lines[i].level /\ i \in Block(i, lines)
             /\ \A j \in Block(i, lines) : j \in DOMAIN lines
    BY <1>3, BlockHead, BlockLines
<1>9. ASSUME NEW i \in S PROVE lines[i].level <= 1 /\ lines[i].kind \in {"text", "polite"}
  <2>1. lines[i].level <= 1 /\ i \in Block(i, lines)
      BY <1>8
  <2>2. lines[i].kind \notin {"sign", "dashes", "blank"}
      BY <2>1 DEF IsSignature
  <2>3. lines[i].kind \in {"text", "sign", "dashes", "polite", "blank"}
      BY <1>5
  <2> QED BY <2>1, <2>2, <2>3
<1>10. ASSUME NEW i \in DOMAIN lines, lines[i].kind = "text", lines[i].level <= 1, i \notin S
       PROVE  \E j \in DOMAIN lines :
                  /\ \A k \in Min({i, j})..Max({i, j}) : lines[k].kind # "blank" /\ lines[k].level = lines[i].level
                  /\ \/ lines[j].kind \in {"sign", "dashes"} /\ j < i
                     \/ lines[j].kind = "dashes" /\ lines[j].level = 1
                     \/ lines[j].kind = "polite"
  <2>1. IsSignature(Block(i, lines), lines)
      BY <1>8, <1>10
  <2>2. PICK j \in Block(i, lines) : lines[j].kind \in {"sign", "dashes", "polite"}
      BY <2>1 DEF IsSignature
  <2>3. /\ j \in DOMAIN lines /\ lines[j].level = lines[i].level
        /\ \A k \in DOMAIN lines : (i <= k /\ k <= j) \/ (j <= k /\ k <= i) =>
              /\ lines[k].level = lines[i].level
              /\ k # i /\ k # j => lines[k].kind # "blank"
        /\ i < j => lines[j].kind # "sign" /\ ~(lines[j].kind = "dashes" /\ lines[j].level = 0)
      BY <1>3, BlockLines
  <2>4. i \in Nat /\ j \in Nat /\ i \in 1..n /\ j \in 1..n
      BY <1>4, <2>3
  <2>5. ASSUME NEW k \in Min({i, j})..Max({i, j}) PROVE lines[k].kind # "blank" /\ lines[k].level = lines[i].level
    <3>1. k \in DOMAIN lines /\ ((i <= k /\ k <= j) \/ (j <= k /\ k <= i))
      <4>1. CASE i <= j
        <5>1. k \in i..j
            BY <2>4, <2>5, <4>1, MinMax
        <5> QED BY <1>4, <2>4, <5>1
      <4>2. CASE j <= i
        <5>1. k \in j..i
            BY <2>4, <2>5, <4>2, MinMax
        <5> QED BY <1>4, <2>4, <5>1
      <4> QED BY <2>4, <4>1, <4>2
    <3>2. lines[i].kind # "blank" /\ lines[j].kind # "blank"
        BY <1>10, <2>2
    <3> QED BY <2>3, <3>1, <3>2
  <2>6. \/ lines[j].kind \in {"sign", "dashes"} /\ j < i
        \/ lines[j].kind = "dashes" /\ lines[j].level = 1
        \/ lines[j].kind = "polite"
    <3>1. i # j
        BY <1>10, <2>2
    <3>2. j < i \/ i < j
        BY <2>4, <3>1
    <3>3. ASSUME i < j, lines[j].kind # "polite" PROVE lines[j].kind = "dashes" /\ lines[j].level = 1
      <4>1. lines[j].kind = "dashes" /\ lines[j].level # 0
          BY <2>2, <2>3, <3>3
      <4>2. lines[j].level \in Nat /\ lines[j].level <= 1
          BY <1>5, <1>10, <2>3
      <4> QED BY <4>1, <4>2
    <3> QED BY <2>2, <3>2, <3>3
  <2> QED BY <2>3, <2>5, <2>6
<1> HIDE DEF S
<1>11. InTurn(S) = Rows(S)
    BY DEF InTurn, Rows
<1>12. main \in Seq(S) /\ ToSet(main) = S
  <2>1. main = Rows(S)
      BY <1>6, <1>11
  <2>2. Rows(S) \in Seq(S) /\ ToSet(Rows(S)) = S
      BY <1>7, RowsList
  <2> QED BY <2>1, <2>2, Zenon
<1>13. ASSUME NEW i \in 1..(Len(main) - 1) PROVE main[i] < main[i + 1]
  <2>1. \E s \in [1..Cardinality(S) -> S] : \A a \in DOMAIN s, b \in DOMAIN s : a < b => s[a] < s[b]
      BY <1>7, InOrder
  <2>2. main \in [1..Cardinality(S) -> S] /\ \A a \in DOMAIN main, b \in DOMAIN main : a < b => main[a] < main[b]
      BY <1>6, <2>1 DEF InTurn
  <2>3. i \in DOMAIN main /\ i + 1 \in DOMAIN main /\ i < i + 1
      BY <1>12
  <2> QED BY <2>2, <2>3
<1>14. \A i \in ToSet(main) : mail.lines[i].level <= 1 /\ mail.lines[i].kind \in {"text", "polite"}
    BY <1>2, <1>9, <1>12
<1>15. ASSUME NEW i \in DOMAIN mail.lines,
              mail.lines[i].kind = "text" /\ mail.lines[i].level <= 1 /\ i \notin ToSet(main)
       PROVE  \E j \in DOMAIN mail.lines :
                  /\ Together(i, j)
                  /\ \/ mail.lines[j].kind \in {"sign", "dashes"} /\ j < i
                     \/ mail.lines[j].kind = "dashes" /\ mail.lines[j].level = 1
                     \/ mail.lines[j].kind = "polite"
    BY <1>2, <1>10, <1>12, <1>15 DEF Together
<1> QED BY <1>13, <1>14, <1>15 DEF MainTextIsShallow

-----------------------------------------------------------------------------
(* Extraction: the date of a report. *)

\* The date before and after a field.
Dated(field, d) ==
    IF field.key = "arrival-date" \/ (field.key = "received-date" /\ d = "") THEN field.value ELSE d

\* The dates of the first n fields.
Dates(fields, n, h) == h = [m \in 0..n |-> IF m = 0 THEN "" ELSE Dated(fields[m], h[m - 1])]

LEMMA DatesExist ==
    ASSUME NEW fields, NEW N \in Nat
    PROVE  \E h : Dates(fields, N, h)
<1> DEFINE Bad == {n \in Nat : ~\E h : Dates(fields, n, h)}
<1>1. SUFFICES ASSUME Bad # {} PROVE FALSE
    OBVIOUS
<1>2. PICK n \in Bad : \A l \in Bad : n <= l
    BY <1>1, Least
<1>3. n \in Nat /\ ~\E h : Dates(fields, n, h)
    OBVIOUS
<1>4. CASE n = 0
  <2> DEFINE h == [m \in 0..0 |-> ""]
  <2>1. \A m \in 0..0 : m = 0
      OBVIOUS
  <2>2. h = [m \in 0..0 |-> IF m = 0 THEN "" ELSE Dated(fields[m], h[m - 1])]
      BY <2>1
  <2>3. Dates(fields, n, h)
      BY <1>4, <2>2 DEF Dates
  <2> QED BY <1>3, <2>3
<1>5. CASE n # 0
  <2>1. n - 1 \in Nat /\ ~(n <= n - 1)
      BY <1>3, <1>5
  <2>2. n - 1 \notin Bad
      BY <1>2, <2>1
  <2>3. PICK g : Dates(fields, n - 1, g)
      BY <2>1, <2>2
  <2>4. g = [m \in 0..(n - 1) |-> IF m = 0 THEN "" ELSE Dated(fields[m], g[m - 1])]
      BY <2>3 DEF Dates
  <2>5. PICK last : last = Dated(fields[n], g[n - 1])
      OBVIOUS
  <2> DEFINE h == [m \in 0..n |-> IF m = n THEN last ELSE g[m]]
  <2>6. DOMAIN h = 0..n /\ \A m \in 0..n : h[m] = IF m = n THEN last ELSE g[m]
      OBVIOUS
  <2>7. h \in [0..n -> {h[m] : m \in 0..n}]
      BY <2>6
  <2> HIDE DEF h, Bad
  <2>8. ASSUME NEW m \in 0..n
        PROVE  h[m] = IF m = 0 THEN "" ELSE Dated(fields[m], h[m - 1])
    <3>1. CASE m = n
      <4>1. h[m] = last /\ h[m - 1] = g[m - 1] /\ m # 0
          BY <1>3, <1>5, <2>6, <3>1
      <4>2. h[m] = Dated(fields[m], h[m - 1])
          BY <2>5, <3>1, <4>1, Zenon
      <4> QED BY <4>1, <4>2
    <3>2. CASE m # n
      <4>1. m \in 0..(n - 1) /\ h[m] = g[m]
          BY <1>3, <2>6, <3>2
      <4>2. CASE m = 0
          BY <2>4, <4>1, <4>2
      <4>3. CASE m # 0
        <5>1. m - 1 \in 0..n /\ m - 1 # n
            BY <1>3, <4>1, <4>3
        <5>2. h[m - 1] = g[m - 1]
            BY <2>6, <5>1
        <5>3. g[m] = Dated(fields[m], g[m - 1])
            BY <2>4, <4>1, <4>3
        <5> QED BY <4>1, <4>3, <5>2, <5>3
      <4> QED BY <4>2, <4>3
    <3> QED BY <3>1, <3>2
  <2>9. Dates(fields, n, h)
    <3>1. h = [m \in 0..n |-> h[m]]
        BY <2>7
    <3>2. [m \in 0..n |-> h[m]] = [m \in 0..n |-> IF m = 0 THEN "" ELSE Dated(fields[m], h[m - 1])]
        BY <2>8, Zenon
    <3> QED BY <3>1, <3>2, Zenon DEF Dates
  <2> QED BY <1>3, <2>9
<1> QED BY <1>4, <1>5

\* The date of a report is what its fields leave, one after another.
LEMMA DateIsLast ==
    ASSUME NEW fields \in Seq(Fields)
    PROVE  \E h : /\ DateOf(fields) = h[Len(fields)]
                  /\ h[0] = "" /\ \A m \in 1..Len(fields) : h[m] = Dated(fields[m], h[m - 1])
<1>1. PICK n \in Nat : n = Len(fields)
    OBVIOUS
<1> DEFINE h == CHOOSE date : date = [m \in 0..Len(fields) |->
                  IF m = 0 THEN ""
                  ELSE IF fields[m].key = "arrival-date" \/ (fields[m].key = "received-date" /\ date[m - 1] = "")
                       THEN fields[m].value ELSE date[m - 1]]
<1>2. DateOf(fields) = h[Len(fields)]
    BY Zenon DEF DateOf
<1>3. \E date : date = [m \in 0..Len(fields) |->
                  IF m = 0 THEN ""
                  ELSE IF fields[m].key = "arrival-date" \/ (fields[m].key = "received-date" /\ date[m - 1] = "")
                       THEN fields[m].value ELSE date[m - 1]]
  <2>1. PICK g : Dates(fields, n, g)
      BY <1>1, DatesExist
  <2> QED BY <1>1, <2>1, Zenon DEF Dates, Dated
<1>4. h = [m \in 0..Len(fields) |->
                  IF m = 0 THEN ""
                  ELSE IF fields[m].key = "arrival-date" \/ (fields[m].key = "received-date" /\ h[m - 1] = "")
                       THEN fields[m].value ELSE h[m - 1]]
    BY <1>3, Zenon
<1> HIDE DEF h
<1>5. h[0] = ""
  <2>1. 0 \in 0..Len(fields)
      BY <1>1
  <2> QED BY <1>4, <2>1, Zenon
<1>6. \A m \in 1..n : h[m] = Dated(fields[m], h[m - 1])
  <2>1. TAKE m \in 1..n
  <2>2. m \in 0..Len(fields) /\ m # 0
      BY <1>1
  <2>3. h[m] = IF fields[m].key = "arrival-date" \/ (fields[m].key = "received-date" /\ h[m - 1] = "")
                       THEN fields[m].value ELSE h[m - 1]
      BY <1>4, <2>2
  <2> QED BY <2>3 DEF Dated
<1> QED BY <1>1, <1>2, <1>5, <1>6

LEMMA DateIsRight ==
    ASSUME ReadInv PROVE DatesAgree
<1>1. SUFFICES ASSUME mail.arf, phase \notin {"idle", "failed"} PROVE DatesAgree
    BY DEF DatesAgree
<1>2. PICK fields : fields = mail.fields
    OBVIOUS
<1>3. fields \in Seq(Fields)
    BY <1>1, <1>2, ExtractionAssumption DEF ReadInv
<1>4. /\ report.date = DateOf(fields)
      /\ mail.parts = 3 => report.subject = SubjectOf(mail.original)
    BY <1>1, <1>2 DEF ReadInv, ReportInv
<1>5. PICK n \in Nat : n = Len(fields) /\ DOMAIN fields = 1..n
    BY <1>3
<1>6. PICK h : /\ DateOf(fields) = h[n]
               /\ h[0] = "" /\ \A m \in 1..n : h[m] = Dated(fields[m], h[m - 1])
    BY <1>3, <1>5, DateIsLast
<1>7. \A i \in 1..n : fields[i].key \in {"arrival-date", "received-date"}
  <2>1. TAKE i \in 1..n
  <2>2. fields[i] \in Fields
      BY <1>3, <1>5
  <2> QED BY <2>2 DEF Fields
<1>8. \A i \in 1..n : /\ n \in i..n /\ i..n \subseteq Nat /\ i - 1 \in 0..n /\ (\A j \in 1..n : i <= j => i - 1 < j)
                      /\ \A m \in i..n : /\ m \in 1..n
                                         /\ m # i => m - 1 \in i..n /\ ~(m <= m - 1) /\ ~(m <= i)
    BY <1>5
<1>9. \A k \in 0..n : /\ k \in 0..k /\ 0..k \subseteq Nat
                       /\ \A m \in 0..k : m # 0 => m \in 1..n /\ m - 1 \in 0..k /\ ~(m <= m - 1) /\ ~(k < m)
    BY <1>5
<1>10. n \in 0..n
    BY <1>5
<1> DEFINE arrivals == {i \in 1..n : fields[i].key = "arrival-date"}
           received == {i \in 1..n : fields[i].key = "received-date" /\ fields[i].value # ""}
\* Once the last arrival date is there nothing takes its place.
<1>11. ASSUME NEW i \in arrivals, fields[i].value # "", \A j \in arrivals : j <= i
      PROVE  h[n] = fields[i].value
  <2> DEFINE Bad == {m \in i..n : h[m] # fields[i].value}
  <2>1. SUFFICES ASSUME Bad # {} PROVE FALSE
    <3>1. n \in i..n
        BY <1>8
    <3> QED BY <3>1
  <2>2. Bad \subseteq Nat
      BY <1>8
  <2>3. PICK m \in Bad : \A l \in Bad : m <= l
      BY <2>1, <2>2, Least
  <2>4. m \in i..n /\ h[m] # fields[i].value /\ m \in 1..n /\ i \in 1..n
      BY <1>8, <2>3
  <2>5. h[m] = Dated(fields[m], h[m - 1])
      BY <1>6, <2>4
  <2>6. CASE m = i
      BY <1>11, <2>4, <2>5, <2>6 DEF Dated
  <2>7. CASE m # i
    <3>1. m - 1 \in i..n /\ ~(m <= m - 1) /\ ~(m <= i)
        BY <1>8, <2>4, <2>7
    <3>2. h[m - 1] = fields[i].value
        BY <2>3, <3>1
    <3>3. fields[m].key # "arrival-date"
        BY <1>11, <2>4, <3>1
    <3> QED BY <1>11, <2>4, <2>5, <3>2, <3>3 DEF Dated
  <2> QED BY <2>6, <2>7
\* Without one the first received date that is not empty stays.
<1>12. ASSUME arrivals = {}, NEW k \in 0..n, \A i \in received : k < i
       PROVE  h[k] = ""
  <2> DEFINE Bad == {m \in 0..k : h[m] # ""}
  <2>1. SUFFICES ASSUME Bad # {} PROVE FALSE
    <3>1. k \in 0..k
        BY <1>9
    <3> QED BY <3>1
  <2>2. Bad \subseteq Nat
      BY <1>9
  <2>3. PICK m \in Bad : \A l \in Bad : m <= l
      BY <2>1, <2>2, Least
  <2>4. m \in 0..k /\ h[m] # "" /\ m # 0
      BY <1>6, <2>3
  <2>5. m \in 1..n /\ m - 1 \in 0..k /\ ~(m <= m - 1) /\ ~(k < m)
      BY <1>9, <2>4
  <2>6. h[m - 1] = ""
      BY <2>3, <2>5
  <2>7. m \notin received
      BY <1>12, <2>5
  <2>8. fields[m].key # "arrival-date" /\ (fields[m].key = "received-date" => fields[m].value = "")
      BY <1>12, <2>5, <2>7
  <2>9. h[m] = Dated(fields[m], h[m - 1])
      BY <1>6, <2>5
  <2> QED BY <2>4, <2>6, <2>8, <2>9 DEF Dated
<1>13. ASSUME arrivals = {}, received = {} PROVE h[n] = ""
  <2>1. \A i \in received : n < i
      BY <1>13
  <2> QED BY <1>12, <1>13, <1>10, <2>1
<1>14. ASSUME arrivals = {}, NEW i \in received, \A j \in received : i <= j
       PROVE  h[n] = fields[i].value
  <2>1. i \in 1..n /\ fields[i].key = "received-date" /\ fields[i].value # ""
      OBVIOUS
  <2>2. h[i - 1] = ""
    <3>1. i - 1 \in 0..n /\ \A j \in received : i - 1 < j
        BY <1>8, <1>14, <2>1
    <3> QED BY <1>12, <1>14, <3>1
  <2>3. h[i] = fields[i].value
    <3>1. h[i] = Dated(fields[i], h[i - 1])
        BY <1>6, <2>1
    <3> QED BY <2>1, <2>2, <3>1 DEF Dated
  <2> DEFINE Bad == {m \in i..n : h[m] # fields[i].value}
  <2>4. SUFFICES ASSUME Bad # {} PROVE FALSE
    <3>1. n \in i..n
        BY <1>8, <2>1
    <3> QED BY <3>1
  <2>5. Bad \subseteq Nat
      BY <1>8, <2>1
  <2>6. PICK m \in Bad : \A l \in Bad : m <= l
      BY <2>4, <2>5, Least
  <2>7. m \in i..n /\ h[m] # fields[i].value /\ m \in 1..n /\ m # i
      BY <1>8, <2>1, <2>3, <2>6
  <2>8. m - 1 \in i..n /\ ~(m <= m - 1)
      BY <1>8, <2>1, <2>7
  <2>9. h[m - 1] = fields[i].value
      BY <2>6, <2>8
  <2>10. h[m] = Dated(fields[m], h[m - 1]) /\ fields[m].key # "arrival-date"
      BY <1>6, <1>14, <2>7
  <2> QED BY <2>1, <2>7, <2>9, <2>10 DEF Dated
<1>15. mail.parts = 3 /\ mail.original.parses /\ mail.original.header # "" => report.subject = mail.original.header
    BY <1>4 DEF SubjectOf
<1>16. report.date = h[n]
    BY <1>4, <1>6
<1> HIDE DEF arrivals, received
<1>17. /\ \A i \in arrivals : (fields[i].value # "" /\ \A j \in arrivals : j <= i) => report.date = fields[i].value
       /\ arrivals = {} =>
             /\ received = {} => report.date = ""
             /\ \A i \in received : (\A j \in received : i <= j) => report.date = fields[i].value
    BY <1>11, <1>13, <1>14, <1>16
<1> QED BY <1>2, <1>5, <1>15, <1>17, Zenon DEF DatesAgree, arrivals, received

LEMMA StepReading == ASSUME ReadInv, [ExtractionNext]_extraction PROVE ReadInv'
<1>1. CASE ReadReport \/ ReadMail
    BY <1>1, StepReadIn
<1>2. CASE Collect
    BY <1>2, StepCollect
<1>3. CASE Emit
    BY <1>3, StepEmit
<1>4. CASE LinkHashes
    BY <1>4, StepLinkHashes
<1>5. CASE LinkURLs
    BY <1>5, StepLinkURLs
<1>6. CASE ExtractMainContent
    BY <1>6, StepMain
<1>7. CASE UNCHANGED extraction
  <2>1. /\ mail' = mail /\ phase' = phase /\ report' = report /\ variants' = variants /\ urls' = urls
        /\ links' = links /\ main' = main
      BY <1>7 DEF extraction
  <2>2. Hashed' = Hashed
      BY <2>1 DEF Hashed, Spelled
  <2>3. UrlInv' /\ HashInv' /\ ReportInv' /\ MainInv'
      BY <2>1, <2>2 DEF ReadInv, UrlInv, HashInv, ReportInv, MainInv
  <2> QED BY <2>1, <2>3 DEF ReadInv
<1> QED BY <1>1, <1>2, <1>3, <1>4, <1>5, <1>6, <1>7 DEF ExtractionNext

LEMMA ReadInvImplies == ASSUME ReadInv PROVE MailIsReadWhole
<1>1. UrlsSurvive
  <2>1. CASE phase \in {"hashes", "urls"}
    <3>1. mail.urls \in Seq(URLs)
        BY <2>1, ExtractionAssumption DEF ReadInv
    <3> QED BY <3>1, UrlInvImplies DEF ReadInv
  <2>2. CASE phase \notin {"hashes", "urls"}
      BY <2>2 DEF UrlsSurvive
  <2> QED BY <2>1, <2>2
<1>2. HashesSurvive
    BY DEF ReadInv, HashInv, HashesSurvive, Hashed
<1> QED BY <1>1, <1>2, MainIsShallow, DateIsRight DEF MailIsReadWhole

\* What a mail says is read whole, for every text and whatever the order of the map: each URL that
\* is not of an attachment is left once, each hash becomes one subject, the main text has what is
\* quoted once at most and is no signature, and a report has its date and subject.
THEOREM ReadCorrect == ExtractionSpec => []MailIsReadWhole
<1>1. ExtractionInit => ReadInv
    BY InitRead
<1>2. ReadInv /\ [ExtractionNext]_extraction => ReadInv'
    BY StepReading
<1>3. ReadInv => MailIsReadWhole
    BY ReadInvImplies
<1> QED BY <1>1, <1>2, <1>3, PTL DEF ExtractionSpec
=============================================================================
