----------------------------- MODULE MCReaders -----------------------------
(***************************************************************************)
(* The components that read: the detector of threads, the classifier, the  *)
(* extractor of contents, the figures on cases and the provider templates. *)
(* They share nothing that is modelled, so in each behaviour one of them   *)
(* runs.                                                                   *)
(***************************************************************************)
EXTENDS Threading, Triage, Extraction, Analytics, Providers

CONSTANTS Reading  \* the components that run

VARIABLE reader    \* the one of them that does

Letter(inReplyTo, references, idRef, ref, subject, from) ==
    [inReplyTo |-> inReplyTo, references |-> references, idRef |-> idRef, ref |-> ref, subject |-> subject, from |-> from]
Entry(own, type, thread, subject, recent) ==
    [own |-> own, type |-> type, thread |-> thread, subject |-> subject, recent |-> recent]

MCAlike == [x \in Subjects |-> [y \in Subjects |-> IF x \in Short \/ y \in Short THEN 0 ELSE IF x = y THEN 100 ELSE 90]]
MCEntries == {Entry(TRUE, "email", "t1", "s1", TRUE), Entry(TRUE, "email", "t2", "s2", FALSE),
              Entry(FALSE, "response", "t2", "s0", TRUE)}
MCLetters == {Letter(<<"t2", "t1">>, <<>>, 1, 0, "s1", 0), Letter(<<>>, <<"t1", "t2">>, 0, 0, "s0", 0),
              Letter(<<>>, <<>>, 2, 2, "s0", 1), Letter(<<>>, <<>>, 0, 0, "s1", 1)}

MCWeight == [t \in Scored |-> [w \in Words |-> CASE t \in {30, 80} /\ w = "abuse" -> 5
                                                 [] t = 30 /\ w = "bulk" -> 2
                                                 [] t = 50 /\ w = "copyright" -> 9
                                                 [] OTHER -> 0]]
MCAddresses == {[valid |-> TRUE, noReply |-> TRUE]}
MCMails == [text : BoundedSeq(Words, 2), html : {<<>>, <<"abuse", "bulk">>}, from : {<<>>, <<[valid |-> TRUE, noReply |-> TRUE]>>}]

MCPathHashes == [s \in Sites |-> CASE s = "a" -> {"h1"} [] s = "b" -> {"h2"} [] s = "img" -> {"h3"} [] OTHER -> {}]
MCURLs == {URL("a", 0, TRUE, {}, FALSE, FALSE), URL("a", 0, FALSE, {"h4"}, TRUE, FALSE),
           URL("a", 0, TRUE, {}, TRUE, FALSE), URL("b", 3, FALSE, {}, FALSE, FALSE),
           URL("b", 2, TRUE, {"h3"}, FALSE, FALSE), URL("b", 0, FALSE, {}, FALSE, TRUE),
           URL("img", 0, FALSE, {}, FALSE, TRUE)}
\* A URL with a plain scheme and a partly defanged host, b, and its beginning, b.
MCPartly == <<URL("b", 0, FALSE, {}, FALSE, TRUE), URL("b.", 0, FALSE, {}, FALSE, FALSE)>>
NoOriginal == [parses |-> FALSE, header |-> "", line |-> ""]
Text(uris, hashes, lines) == [arf |-> FALSE, parts |-> 0, fields |-> <<>>, original |-> NoOriginal,
                              urls |-> uris, hashes |-> hashes, lines |-> lines]
Line(level, kind) == [level |-> level, kind |-> kind]
MCLines == {Line(0, k) : k \in {"blank", "text", "sign", "dashes", "polite"}}
              \cup {Line(1, k) : k \in {"text", "sign", "dashes"}} \cup {Line(2, "text")}
MCForwards == {<<Line(0, "forward"), Line(0, "text"), Line(0, "forward"), Line(0, "text"), Line(0, "blank"), Line(0, "text")>>,
               <<Line(0, "text"), Line(0, "forward")>>}
MCFields == [key : {"arrival-date", "received-date"}, value : {"", "d1", "d2"}]
MCReports == {[Text(<<>>, {}, <<>>) EXCEPT !.arf = TRUE, !.parts = p, !.fields = fs, !.original = o] :
                 p \in 1..3, fs \in BoundedSeq(MCFields, 3), o \in [parses : BOOLEAN, header : {"", "s1"}, line : {"s2"}]}
MCTexts == {Text(us, {"h2"}, <<>>) : us \in BoundedSeq(MCURLs, 3)}
              \cup {Text(MCPartly \o us, {"h2"}, <<>>) : us \in BoundedSeq(MCURLs, 1)}
              \cup {Text(<<>>, {}, ls) : ls \in BoundedSeq(MCLines, 4) \cup MCForwards} \cup MCReports

Asked(purpose, from, to, column) == [for |-> purpose, from |-> from, to |-> to, column |-> column]
MCRequests == {Asked("figures", 100, 100, ""), Asked("figures", 1, 100, ""), Asked("figures", 1, 5, ""),
               Asked("figures", 60, 5, "status"), Asked("figures", 100, 100, "source"), Asked("table", 7, 0, "")}

MCCustom == {Provider("isp", "gmail", {"google", "isp"}, 10), Provider("gmail", "microsoft", {"isp"}, 50)}
Parcel(signs, from, words) == [signs |-> signs, from |-> from, words |-> words]
MCParcels == {Parcel(s, f, {"fraud", "spam"}) : f \in {"", "bad"},
                 s \in {{}, {"google", "isp"}, {"google phrase", "microsoft"}, {"yahoo", "proton"}}}
              \cup {Parcel({"isp"}, "a", w) : w \in {{}, {"harassment"}, {"copyright"}, {"spam"}}}

MCInit ==
    /\ reader \in Reading
    /\ ThreadingInit /\ TriageInit /\ ExtractionInit /\ AnalyticsInit /\ ProvidersInit

MCNext ==
    /\ UNCHANGED reader
    /\ \/ reader = "threading" /\ ThreadingNext /\ UNCHANGED <<triage, extraction, analytics, providers>>
       \/ reader = "triage" /\ TriageNext /\ UNCHANGED <<threading, extraction, analytics, providers>>
       \/ reader = "extraction" /\ ExtractionNext /\ UNCHANGED <<threading, triage, analytics, providers>>
       \/ reader = "analytics" /\ AnalyticsNext /\ UNCHANGED <<threading, triage, extraction, providers>>
       \/ reader = "providers" /\ ProvidersNext /\ UNCHANGED <<threading, triage, extraction, analytics>>

MCSpec == MCInit /\ [][MCNext]_<<reader, threading, triage, extraction, analytics, providers>>
=============================================================================
