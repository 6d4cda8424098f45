----------------------------- MODULE Providers -----------------------------
(***************************************************************************)
(* The registry of provider templates, and DefaultTemplateProcessor, which *)
(* detects the provider of a mail and then processes it with the template  *)
(* that the registry has for that provider by then.  Both templates work   *)
(* alike; nothing in the pipeline calls them.                              *)
(***************************************************************************)
EXTENDS Integers, Sequences, FiniteSets, SequencesExt, FiniteSetsExt

CONSTANTS
    Custom,        \* the providers that are registered from outside: id, template, signs, priority
    MaxChurn,      \* how often the registry changes (a bound of the model)
    Parcels        \* the mails: the signs of a provider in them, their From address ("" for none, and
                   \* "bad" for one with no valid syntax), and the category words in them

\* As an id, "" stands for no provider.
ASSUME ProvidersAssumption == \A p \in Custom : p.id # "" /\ p.priority \in Int

Provider(id, template, signs, priority) == [id |-> id, template |-> template, signs |-> signs, priority |-> priority]

\* registerTemplates: the templates' own Match; RegisterStandardProviders replaces both detectors
\* by ones that look at the sender's domain and the headers, too, and adds two providers.
Registered == {Provider("gmail", "gmail", {"google phrase"}, 10),
               Provider("microsoft", "microsoft", {"microsoft phrase"}, 20)}
Standard == {Provider("gmail", "gmail", {"google phrase", "google"}, 10),
             Provider("microsoft", "microsoft", {"microsoft phrase", "microsoft"}, 20),
             Provider("yahoo", "microsoft", {"yahoo"}, 30), Provider("protonmail", "gmail", {"proton"}, 40)}

VARIABLES
    registry,   \* the providers that are registered
    churn,      \* how often that changed
    parcel,     \* the mail
    at,         \* where its processing is
    provider,   \* the provider that was detected, "" for none
    seen,       \* history: the registry then
    template,   \* the template that processes it
    reporters,  \* the addresses of abuse_reporters
    opened      \* the cases that templates opened

providers == <<registry, churn, parcel, at, provider, seen, template, reporters, opened>>

ProvidersInit ==
    /\ registry = Registered /\ churn = 0 /\ parcel = CHOOSE p \in Parcels : TRUE
    /\ at = "idle" /\ provider = "" /\ seen = {} /\ template = "" /\ reporters = {} /\ opened = {}

-----------------------------------------------------------------------------
(* The registry. *)

Churn == churn < MaxChurn /\ churn' = churn + 1
Beside == UNCHANGED <<parcel, at, provider, seen, template, reporters, opened>>

\* A provider takes the place of the one with its id.
With(ps) == {r \in registry : \A p \in ps : p.id # r.id} \cup ps

RegisterStandardProviders == Churn /\ registry' = With(Standard) /\ Beside
RegisterProvider(p) == Churn /\ registry' = With({p}) /\ Beside
UnregisterProvider(p) == Churn /\ registry' = registry \ {p} /\ Beside

-----------------------------------------------------------------------------
(* Detection. *)

\* Mutation of Sooner: the higher number first.
Later(p, q) == p.priority > q.priority

Sooner(p, q) == p.priority < q.priority

\* The exchange sort: one place after another with each of the places after it.
Exchange(s, i, j) == IF Sooner(s[j], s[i]) THEN [s EXCEPT ![i] = s[j], ![j] = s[i]] ELSE s

Pass(s, i) ==
    LET met[k \in 0..(Len(s) - i)] == IF k = 0 THEN s ELSE Exchange(met[k - 1], i, i + k)
    IN  met[Len(s) - i]

Sorted(order) ==
    LET passed[i \in 0..Len(order)] == IF i = 0 THEN order ELSE Pass(passed[i - 1], i)
    IN  passed[Len(order)]

\* DetectProvider: the first that detects the mail, in one of the orders of the map.
DetectProvider ==
    /\ at = "idle" /\ at' = "detected" /\ seen' = registry
    /\ \E sorted \in {Sorted(order) : order \in SetToSeqs(registry)}, mail \in Parcels :
          LET hits == {i \in DOMAIN sorted : sorted[i].signs \cap mail.signs # {}} IN
             /\ parcel' = mail
             /\ provider' = IF hits = {} THEN "" ELSE sorted[Min(hits)].id
    /\ UNCHANGED <<registry, churn, template, reporters, opened>>

-----------------------------------------------------------------------------
(* Process. *)

GetTemplate ==
    /\ at = "detected" /\ provider # ""
    /\ \/ \E p \in registry : p.id = provider /\ template' = p.template /\ at' = "reporter"
       \/ (\A p \in registry : p.id # provider) /\ at' = "failed" /\ UNCHANGED template
    /\ UNCHANGED <<registry, churn, parcel, provider, seen, reporters, opened>>

\* ExtractReporter: the sender, or the abuse team of the provider.
Reporter == IF parcel.from # "" THEN parcel.from
            ELSE IF template = "gmail" THEN "google-abuse@gmail.com" ELSE "abuse@microsoft.com"

\* GetByEmail, and Create if there is none.
FindOrCreateReporter ==
    /\ at = "reporter"
    /\ \/ Reporter = "bad" /\ at' = "failed" /\ UNCHANGED reporters
       \/ Reporter # "bad" /\ at' = "case" /\ reporters' = reporters \cup {Reporter}
    /\ UNCHANGED <<registry, churn, parcel, provider, seen, template, opened>>

\* ExtractCategory.
Category ==
    CASE parcel.words \cap {"phishing", "fraud"} # {} -> "other"
      [] parcel.words \cap {"phishing", "fraud"} = {} /\ "spam" \in parcel.words -> "spam"
      [] parcel.words \cap {"phishing", "fraud", "spam"} = {} /\ "copyright" \in parcel.words -> "copyright"
      [] parcel.words = {"harassment"} -> "harassment"
      [] OTHER -> "other"

\* Case.Validate.
ValidCase(c) == c.type # "" /\ c.subject # 0

\* CaseService.Create, of a case with no subject: the subjects would come after it.
CreateTemplateCase ==
    /\ at = "case"
    /\ LET c == [reporter |-> Reporter, type |-> Category, subject |-> 0] IN
          /\ opened' = IF ValidCase(c) THEN opened \cup {c} ELSE opened
          /\ at' = IF ValidCase(c) THEN "created" ELSE "failed"
    /\ UNCHANGED <<registry, churn, parcel, provider, seen, template, reporters>>

ProvidersNext ==
    \/ RegisterStandardProviders \/ (\E p \in Custom : RegisterProvider(p))
    \/ \E p \in registry : UnregisterProvider(p)
    \/ DetectProvider \/ GetTemplate \/ FindOrCreateReporter \/ CreateTemplateCase

ProvidersSpec == ProvidersInit /\ [][ProvidersNext]_providers

-----------------------------------------------------------------------------

\* Whatever the order of the map, the provider of a mail is one that was registered then, that
\* detects the mail, and than which none that does has a smaller number; it is none if none does.
\* The template that then processes the mail may be another one, and it always fails: the case is
\* refused, and what is left of the mail is its reporter.
DetectedIsFirst ==
    LET Detecting == {p \in seen : p.signs \cap parcel.signs # {}} IN
    at # "idle" =>
        /\ provider = "" <=> Detecting = {}
        /\ provider # "" => \E p \in Detecting : p.id = provider /\ \A q \in Detecting : p.priority <= q.priority
        /\ opened = {}
        /\ (at = "case" \/ (at = "failed" /\ template # "" /\ Reporter # "bad")) => Reporter \in reporters
=============================================================================
