------------------------------- MODULE Triage -------------------------------
(***************************************************************************)
(* DefaultClassifier.ClassifyEmail: the case type, the priority and the    *)
(* need of a review of a mail, from the words in it and its From address.  *)
(* determineHighestCaseType goes over a Go map, whose order is another one *)
(* each time.  Case types are their CaseTypePriority, so that "other" is   *)
(* 10 and "illegal or harmful content" is 100.                             *)
(***************************************************************************)
EXTENDS Naturals, Sequences, FiniteSets, FiniteSetsExt

CONSTANTS
    Words,      \* words, in lower case and trimmed
    Stops,      \* the stop words among them
    Excluded,   \* the words that the exclusion rules take out of a text
    Weight,     \* Weight[t][w]: the weight of word w in the dictionary of type t, 0 if it is not there
    MaxText,    \* how many words of a text are counted
    Addresses,  \* From addresses: whether they parse, and the no-reply patterns they match
    Mails       \* the mails that are classified: text, HTML, and the From addresses

Other == 10
Types == {100, 90, 80, 70, 60, 50, 30, Other}

\* NewDictionaryContentScorer: there is no dictionary for "other".
Scored == Types \ {Other}

\* The types whose content is a violation that a person has to look at.
Violations == Types \ {30, Other}

ASSUME TriageAssumption ==
    /\ Stops \subseteq Words /\ Excluded \subseteq Words /\ MaxText \in Nat
    /\ Weight \in [Scored -> [Words -> Nat]]
    /\ Addresses \subseteq [valid : BOOLEAN, noReply : BOOLEAN]
    /\ Mails \subseteq [text : Seq(Words), html : Seq(Words), from : Seq(Addresses)]

VARIABLES
    stage,   \* where ClassifyEmail is
    read,    \* the mail
    scores,  \* contentScores
    left,    \* the entries of the map that the loop has yet to visit
    top,     \* the highest type and score so far
    verdict  \* the result: type, priority, and whether a review is needed

triage == <<stage, read, scores, left, top, verdict>>

Zero == [t \in Scored |-> 0]

TriageInit ==
    /\ read = CHOOSE m \in Mails : TRUE
    /\ stage = "idle" /\ scores = Zero /\ left = {}
    /\ top = [type |-> Other, score |-> 0] /\ verdict = [type |-> Other, priority |-> "low", review |-> FALSE]

-----------------------------------------------------------------------------

\* The text, or the HTML where there is none.
Content(m) == IF m.text = <<>> THEN m.html ELSE m.text

\* The places of the words that count: not those that the exclusion rules take out, of the others
\* the first ones, and no stop words.
Places(words) ==
    LET kept == {i \in DOMAIN words : words[i] \notin Excluded}
    IN  {i \in kept : words[i] \notin Stops /\ Cardinality({k \in kept : k <= i}) <= MaxText}

\* scoreDictionary: the weights of the words, as often as they occur.
Points(t, words) == MapThenSumSet(LAMBDA i : Weight[t][words[i]], Places(words))

Score ==
    /\ stage = "idle" /\ stage' = "types" /\ read' \in Mails
    /\ scores' = [t \in Scored |-> Points(t, Content(read'))]
    /\ left' = Scored /\ UNCHANGED <<top, verdict>>

\* Mutation of Higher: the first of several types with the highest score stays.
HigherFirst(t) == scores[t] > top.score

\* A type is put before another one for its score, and with equal scores for its urgency.
Higher(t) == scores[t] > top.score \/ (scores[t] = top.score /\ t > top.type)

\* One round of the loop of determineHighestCaseType.
Visit ==
    /\ stage = "types" /\ \E t \in left :
          /\ left' = left \ {t}
          /\ top' = IF Higher(t) THEN [type |-> t, score |-> scores[t]] ELSE top
    /\ UNCHANGED <<stage, read, scores, verdict>>

\* DeterminePriority: the sum of all scores against the thresholds.
Priority ==
    LET sum == MapThenSumSet(LAMBDA t : scores[t], Scored)
    IN  IF sum >= 15 THEN "high" ELSE IF sum >= 10 THEN "medium" ELSE "low"

\* HeaderAnalyzer.Analyze: the first From address, if it parses and a no-reply pattern fits it.
NoReply == read.from # <<>> /\ Head(read.from).valid /\ Head(read.from).noReply

\* NeedsReview, with the settings of NewReviewDecider: a no-reply address does not matter.
ReviewNoReplyAddress == FALSE
NeedsReview(t, p) == p = "high" \/ t \in Violations \/ (ReviewNoReplyAddress /\ NoReply)

Decide ==
    /\ stage = "types" /\ left = {} /\ stage' = "done"
    /\ verdict' = [type |-> top.type, priority |-> Priority, review |-> NeedsReview(top.type, Priority)]
    /\ UNCHANGED <<read, scores, left, top>>

TriageNext == Score \/ Visit \/ Decide

TriageSpec == TriageInit /\ [][TriageNext]_triage

-----------------------------------------------------------------------------

\* Whatever the order of the map, a mail gets the most urgent of the types that its words speak
\* for most, and no mail is "other": the one in which no dictionary finds a word is "illegal or
\* harmful content", of low priority.  A mail that is not reviewed is spam of at most medium
\* priority.
TypeIsOrderFree ==
    stage = "done" =>
        /\ verdict.type \in Scored
        /\ \A t \in Scored : \/ scores[t] < scores[verdict.type]
                             \/ scores[t] = scores[verdict.type] /\ t <= verdict.type
        /\ (\A t \in Scored : scores[t] = 0) => verdict.type = 100 /\ verdict.priority = "low"
        /\ ~verdict.review => verdict.type = 30 /\ verdict.priority # "high"
=============================================================================
