----------------------------- MODULE Threading -----------------------------
(***************************************************************************)
(* ThreadDetector.DetectThread: which case an incoming mail belongs to.    *)
(* It tries the identifiers that the mail carries (In-Reply-To,            *)
(* References, a CASE- reference in the Message-ID or in the subject),     *)
(* then subjects alike, then the sender's recent mails.  Every look-up is  *)
(* a transaction of its own, beside handlers that add communications and   *)
(* cases and that close cases or give them to another reporter.  A look-up *)
(* that fails is taken for one that finds nothing.                         *)
(*                                                                         *)
(* The pages of ten and of a hundred rows are larger than the instances.   *)
(***************************************************************************)
EXTENDS Naturals, Sequences, FiniteSets, SequencesExt

CONSTANTS
    Threads,    \* identifiers of mails
    Subjects,   \* cleaned subjects, as likely to be long enough as not
    Short,      \* the ones under five characters, the empty one among them
    Alike,      \* Alike[s][t]: their Jaro-Winkler similarity in per cent
    Senders,    \* ids of reporters; 0 is the placeholder the pipeline passes
    Entries,    \* the communications that are recorded: whether by the reporter, ...
    MaxCases, MaxComms, MaxMoves, \* how many cases and communications there are and how
                \* often a case changes its reporter (bounds of the model)
    Letters     \* the mails that come in

ASSUME ThreadingAssumption ==
    /\ Short \subseteq Subjects /\ Alike \in [Subjects -> [Subjects -> 0..100]]
    /\ Senders \subseteq Nat /\ MaxCases \in Nat /\ MaxComms \in Nat /\ MaxMoves \in Nat
    /\ Entries \subseteq [own : BOOLEAN, type : {"email", "response", "note"}, thread : Threads,
                          subject : Subjects, recent : BOOLEAN]
    /\ Letters \subseteq [inReplyTo : Seq(Threads), references : Seq(Threads), idRef : 0..MaxCases,
                          ref : 0..MaxCases, subject : Subjects, from : Senders]

VARIABLES
    files,  \* abuse_cases: the reporter of each row, those it ever had, and whether it is
            \* closed or resolved
    notes,  \* abuse_communications: each row's case, sender (0 when it came by mail), and entry
    letter, \* the mail that is looked at
    step,   \* where DetectThread is
    todo,   \* the identifiers, or the cases as they were listed, that it has yet to look at
    best,   \* the match so far
    before, \* history: how many communications there were when it began
    failed  \* history: whether a look-up failed

threading == <<files, notes, letter, step, todo, best, before, failed>>

NoMatch == [case |-> 0, note |-> 0, score |-> 0, via |-> "none"]
Match(c, n, s, v) == [case |-> c, note |-> n, score |-> s, via |-> v]

\* A mail refers to a case by its number, 0 if to none: references are to cases that there are.
ThreadingInit ==
    /\ files = <<>> /\ notes = <<>> /\ step = "idle" /\ letter = CHOOSE l \in Letters : TRUE
    /\ todo = <<>> /\ best = NoMatch /\ before = 0 /\ failed = FALSE

-----------------------------------------------------------------------------
(* What the services answer. *)

\* Rows as a list without a sort gives them: the oldest first.
Rows(ids) == CHOOSE rows \in [1..Cardinality(ids) -> ids] :
                \A i \in DOMAIN rows, j \in DOMAIN rows : i < j => rows[i] < rows[j]

\* GetByThreadID: the oldest communication of the thread.
OfThread(t) == Rows({n \in DOMAIN notes : notes[n].thread = t})

\* ListByCaseID without a sort: the communications of a case, the oldest first.
OfCase(c, types) == Rows({n \in DOMAIN notes : notes[n].case = c /\ notes[n].type \in types})

All == {"email", "response", "note"}

\* CaseService.Search.  No model has a field tagged searchable, so the clause of
\* ApplySearchQuery is empty, and every case is found.
Search(ref) == Rows(DOMAIN files)

\* Mutation of ByReporter: the cases of everybody.
ByAnybody(r) == Rows(DOMAIN files)

\* List with a filter on reporter_id.
ByReporter(r) == Rows({c \in DOMAIN files : files[c].reporter = r})

-----------------------------------------------------------------------------
(* The detector. *)

Found(m) == best' = m /\ step' = "done" /\ todo' = <<>>
Turn(s, queue) == step' = s /\ todo' = queue /\ UNCHANGED best
Kept == UNCHANGED <<files, notes, letter, before, failed>>

\* The identifiers of In-Reply-To, then those of References, each looked up in turn.
Identify ==
    /\ step \in {"in-reply-to", "references"} /\ Kept
    /\ \/ /\ todo # <<>> /\ OfThread(Head(todo)) # <<>>
          /\ LET n == Head(OfThread(Head(todo))) IN
                Found(Match(notes[n].case, n, IF step = "references" THEN 90 ELSE 100, step))
       \/ todo # <<>> /\ OfThread(Head(todo)) = <<>> /\ Turn(step, Tail(todo))
       \/ /\ todo = <<>>
          /\ IF step = "in-reply-to" THEN Turn("references", letter.references) ELSE Turn("id-ref", <<>>)

\* A CASE- reference in the Message-ID, then one in the subject: Search for the case ...
FindCase ==
    /\ step \in {"id-ref", "ref"} /\ todo = <<>> /\ Kept
    /\ LET ref == IF step = "id-ref" THEN letter.idRef ELSE letter.ref IN
        \/ ref # 0 /\ Search(ref) # <<>> /\ Turn(step, <<Head(Search(ref))>>)
        \/ /\ ref = 0 \/ Search(ref) = <<>>
           /\ IF step = "id-ref" THEN Turn("ref", <<>>) ELSE Turn("list", <<>>)

\* ... and then for its oldest communication; for a subject notes do not count.
FindNote ==
    /\ step \in {"id-ref", "ref"} /\ todo # <<>> /\ Kept
    /\ LET c == Head(todo)
           found == OfCase(c, IF step = "id-ref" THEN All ELSE {"email", "response"})
       IN  \/ /\ found # <<>>
              /\ Found(IF step = "id-ref" THEN Match(c, Head(found), 80, "message-id-case-ref")
                                          ELSE Match(c, Head(found), 95, "subject-case-ref"))
           \/ found = <<>> /\ IF step = "id-ref" THEN Turn("ref", <<>>) ELSE Turn("list", <<>>)

\* The cases of the reporter, for the subjects.
ListCases ==
    /\ step = "list" /\ Kept
    /\ Turn("alike", ByReporter(letter.from))

\* Among the mails of a case, the one whose subject is most alike, if that is above 85 and
\* above what was found in earlier cases; the oldest of several.
AlikeIn(c) ==
    LET close == {n \in ToSet(OfCase(c, {"email"})) :
                     /\ notes[n].subject \notin Short /\ letter.subject \notin Short
                     /\ Alike[letter.subject][notes[n].subject] > 85}
        Score(n) == Alike[letter.subject][notes[n].subject]
        top == {n \in close : \A o \in close : Score(o) <= Score(n)}
        n == CHOOSE n \in top : \A o \in top : n <= o
    IN  IF close # {} /\ Score(n) > best.score THEN Match(c, n, Score(n), "subject-similarity") ELSE best

Compare ==
    /\ step = "alike" /\ Kept
    /\ \/ /\ todo # <<>>
          /\ best' = AlikeIn(Head(todo)) /\ todo' = Tail(todo) /\ UNCHANGED step
       \/ todo = <<>> /\ best # NoMatch /\ Found(best)
       \/ todo = <<>> /\ best = NoMatch /\ Turn("recall", <<>>)

\* The cases of the reporter again, those closed or resolved left out.
RecallCases ==
    /\ step = "recall" /\ Kept
    /\ Turn("recent", Rows({c \in ToSet(ByReporter(letter.from)) : ~files[c].closed}))

\* The first recent mail of the reporter in each of them: the case is the last that has one, the
\* communication the latest of them all.
Recall ==
    /\ step = "recent" /\ Kept
    /\ \/ /\ todo # <<>>
          /\ LET c == Head(todo)
                 recent == Rows({n \in ToSet(OfCase(c, {"email", "response"})) :
                                   notes[n].sender = letter.from /\ notes[n].recent})
             IN  best' = IF recent = <<>> THEN best
                         ELSE Match(c, IF Head(recent) > best.note THEN Head(recent) ELSE best.note,
                                    70, "recent-sender")
          /\ todo' = Tail(todo) /\ UNCHANGED step
       \/ todo = <<>> /\ Found(best)

\* A mail comes in.
Receive ==
    /\ step = "idle" /\ letter' \in {l \in Letters : l.idRef <= Len(files) /\ l.ref <= Len(files)}
    /\ before' = Len(notes) /\ Turn("in-reply-to", letter'.inReplyTo)
    /\ UNCHANGED <<files, notes, failed>>

\* A look-up fails, which is logged at most: the next identifier, the next case, or the next
\* way to find one is tried.
LookupFails ==
    /\ step \notin {"idle", "done"} /\ ~failed /\ failed' = TRUE
    /\ \/ step \in {"in-reply-to", "references", "alike", "recent"} /\ todo # <<>> /\ Turn(step, Tail(todo))
       \/ step = "id-ref" /\ Turn("ref", <<>>)
       \/ step = "ref" /\ Turn("list", <<>>)
       \/ step = "list" /\ Turn("recall", <<>>)
       \/ step = "recall" /\ Found(NoMatch)
    /\ UNCHANGED <<files, notes, letter, before>>

-----------------------------------------------------------------------------
(* The handlers beside it. *)

\* A case is opened, by a reporter that there is.
Open(r) ==
    /\ r # 0 /\ Len(files) < MaxCases
    /\ files' = Append(files, [reporter |-> r, had |-> {r}, closed |-> FALSE])
    /\ UNCHANGED <<notes, letter, step, todo, best, before, failed>>

\* A case is closed or resolved.
Close(c) ==
    /\ ~files[c].closed /\ files' = [files EXCEPT ![c].closed = TRUE]
    /\ UNCHANGED <<notes, letter, step, todo, best, before, failed>>

\* updateCase gives a case to another reporter.
Reassign(c, r) ==
    /\ r # 0 /\ r \notin files[c].had /\ Cardinality(files[c].had) <= MaxMoves
    /\ files' = [files EXCEPT ![c].reporter = r, ![c].had = @ \cup {r}]
    /\ UNCHANGED <<notes, letter, step, todo, best, before, failed>>

\* A communication is recorded; it is not older than those recorded before.
Record(c, e) ==
    /\ Len(notes) < MaxComms
    /\ (notes # <<>> /\ Last(notes).recent) => e.recent
    /\ notes' = Append(notes, [case |-> c, sender |-> IF e.own THEN files[c].reporter ELSE 0, type |-> e.type,
                               thread |-> e.thread, subject |-> e.subject, recent |-> e.recent])
    /\ UNCHANGED <<files, letter, step, todo, best, before, failed>>

Detector == Identify \/ FindCase \/ FindNote \/ ListCases \/ Compare \/ RecallCases \/ Recall
Others ==
    \/ \E r \in Senders : Open(r)
    \/ \E c \in DOMAIN files :
          Close(c) \/ (\E r \in Senders : Reassign(c, r)) \/ (\E e \in Entries : Record(c, e))

\* What happens once the match is made is not looked at.
ThreadingNext == Receive \/ Detector \/ LookupFails \/ (step # "done" /\ Others)

ThreadingSpec == ThreadingInit /\ [][ThreadingNext]_threading

-----------------------------------------------------------------------------

\* A mail that answers a communication which was there when it came in is put to the first
\* communication of the thread it answers, or of another thread that it answers, whatever else
\* it says and whatever happens meanwhile, unless a look-up fails.
AnswersGoHome ==
    (step = "done" /\ ~failed /\ \E n \in 1..before : notes[n].thread \in ToSet(letter.inReplyTo)) =>
        /\ best.via = "in-reply-to" /\ notes[best.note].thread \in ToSet(letter.inReplyTo)
        /\ \A n \in DOMAIN notes : notes[n].thread = notes[best.note].thread => best.note <= n

\* The communication a mail is said to answer is of the case the mail is put into, except for a
\* sender with recent mails in two cases; and only what the mail itself refers to leads to a case
\* that was never the sender's, so the pipeline, which does not know senders, needs a reference.
OwnCaseOnly ==
    best # NoMatch =>
        /\ \/ notes[best.note].case = best.case
           \/ best.via = "recent-sender" /\ letter.from \in files[notes[best.note].case].had
        /\ best.via \in {"subject-similarity", "recent-sender"} => letter.from \in files[best.case].had

MatchIsGrounded == AnswersGoHome /\ OwnCaseOnly

\* A reference in the subject leads to the case that it names.
ReferenceFindsCase == best.via = "subject-case-ref" => best.case = letter.ref
=============================================================================
