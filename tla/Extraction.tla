----------------------------- MODULE Extraction -----------------------------
(***************************************************************************)
(* What is read out of a mail: the fields of an ARF report, the URLs and   *)
(* content hashes in the text and the subjects they become, and the main   *)
(* text.  ExtractURLs goes over a Go map, in another order each time, and  *)
(* runs once for the hashes of the text and once more for those of its     *)
(* URLs.  The text is on one line where URLs are concerned.                *)
(***************************************************************************)
EXTENDS Naturals, Sequences, FiniteSets, SequencesExt, FiniteSetsExt

CONSTANTS
    Sites,       \* what URLs name, up to a "unicode-" in them
    Hashes,      \* the content hashes
    Skipped,     \* the ones on a host for attachments
    PathHashes,  \* PathHashes[s]: the content hashes in the path of site s
    Escaped,     \* the hashes that mails spell with percent escapes
    ShortBlock,  \* 5: how many lines has at most a block that is a signature for the phrases in it
    Texts        \* the mails that are read: whether they are reports, with their parts, the URLs and
                 \* further hashes in their text, and the lines of it

\* A URL: how many characters the "unicode-" and what follows it count (0 if there is none, 1 for
\* the mark alone), whether it ends in a slash, the hashes of its query, whether a character that
\* belongs to the text follows it directly, and whether it is defanged.  A URL with a plain scheme
\* and a host that is defanged in part, http://sub.evil[.]com, stands for two in a text: the whole,
\* defanged, and what is before the bracket, which the patterns take for a URL of its own.
URL(site, tail, slash, query, loose, defanged) ==
    [site |-> site, tail |-> tail, slash |-> slash, query |-> query, loose |-> loose, defanged |-> defanged]

URLs == [site : Sites, tail : Nat, slash : BOOLEAN, query : {q \in SUBSET Hashes : IsFiniteSet(q)},
         loose : BOOLEAN, defanged : BOOLEAN]

\* Lines have a quote level and a kind: "text"; "sign", which a signature pattern matches, quoted or
\* not, and "dashes", which one matches only without quote marks; "polite", with two signature
\* phrases; "forward", the mark of a forwarded mail; "blank".
Lines == [level : Nat, kind : {"text", "sign", "dashes", "polite", "forward", "blank"}]

Fields == [key : {"arrival-date", "received-date"}, value : STRING]

ASSUME ExtractionAssumption ==
    /\ PathHashes \in [Sites -> SUBSET Hashes]
    /\ \A t \in Texts : t.urls \in Seq(URLs) /\ t.lines \in Seq(Lines) /\ t.fields \in Seq(Fields)

VARIABLES
    mail,     \* the mail
    phase,    \* where the reading is
    report,   \* the dates and the subject of an ARF report
    variants, \* longestVariantMap: what is left of it to go over
    urls,     \* uniqueURLs
    links,    \* the hashes that became subjects in this reading, with the URLs kept for them
    main      \* ExtractMainContent: the numbers of the lines

extraction == <<mail, phase, report, variants, urls, links, main>>

NoReport == [date |-> "", subject |-> ""]

ExtractionInit ==
    /\ mail = CHOOSE t \in Texts : TRUE
    /\ phase = "idle" /\ report = NoReport /\ variants = {} /\ urls = {} /\ links = {} /\ main = <<>>

-----------------------------------------------------------------------------
(* ARF reports. *)

\* parseMachineReadable: an arrival date replaces what was there, and a received date an empty one.
DateOf(fields) ==
    LET date[n \in 0..Len(fields)] ==
            IF n = 0 THEN ""
            ELSE IF fields[n].key = "arrival-date" \/ (fields[n].key = "received-date" /\ date[n - 1] = "")
                 THEN fields[n].value ELSE date[n - 1]
    IN  date[Len(fields)]

\* The subject of the third part: that of its header, or else the first line that looks like one.
SubjectOf(part) == IF part.parses /\ part.header # "" THEN part.header ELSE part.line

\* ParseARF, once IsARF holds: the third part may be missing.
ReadReport ==
    /\ phase = "idle"
    /\ mail' \in Texts /\ mail'.arf
    /\ IF mail'.parts < 2 THEN phase' = "failed" /\ UNCHANGED report
       ELSE /\ phase' = "hashes-collect"
            /\ report' = [date |-> DateOf(mail'.fields),
                          subject |-> IF mail'.parts = 2 THEN "" ELSE SubjectOf(mail'.original)]
    /\ UNCHANGED <<variants, urls, links, main>>

ReadMail ==
    /\ phase = "idle" /\ phase' = "hashes-collect"
    /\ mail' \in Texts /\ ~mail'.arf
    /\ UNCHANGED <<report, variants, urls, links, main>>

-----------------------------------------------------------------------------
(* ExtractURLs. *)

\* Up to the mark: also all that the standard pattern matches of a URL with other characters after
\* it, where a URL that the text follows directly is matched with and without what follows.
Base(u) == IF u.tail = 0 THEN u ELSE URL(u.site, 1, FALSE, {}, FALSE, FALSE)
Strict(u) == IF u.tail = 0 THEN [u EXCEPT !.loose = FALSE] ELSE Base(u)

\* restoreDefangedURL; the patterns do not match what is defanged as a whole, and of a URL that is
\* defanged in part they match the entry of us for its beginning.
Restore(u) == [u EXCEPT !.defanged = FALSE]
Matches(us) ==
    LET Found(pass, i, u) == [at |-> pass * Len(us) + i, url |-> u] IN
        {Found(0, i, Restore(us[i])) : i \in {k \in DOMAIN us : us[k].defanged}}
            \cup {Found(1, i, us[i]) : i \in {k \in DOMAIN us : ~us[k].defanged}}
            \cup {Found(2, i, Strict(us[i])) : i \in {k \in DOMAIN us : ~us[k].defanged}}

\* preserveOriginalURL drops the query, and with it what follows the URL; normalizeURL drops the
\* slash at the end, too.
Preserved(u) == [u EXCEPT !.query = {}, !.loose = @ /\ u.query = {}]
Normal(u) == IF Preserved(u).loose THEN Preserved(u) ELSE [Preserved(u) EXCEPT !.slash = FALSE]

Length(u) ==
    u.tail + (IF u.slash THEN 1 ELSE 0) + (IF u.loose THEN 1 ELSE 0) + 2 * Cardinality(u.query)

\* Mutation of Longer: the shortest variant is kept.
Shorter(u, v) == Length(u) < Length(v)

Longer(u, v) == Length(u) > Length(v)

\* The first pass: the longest match of each base, the first one of several.
Longest(us) ==
    LET kept == {m \in Matches(us) : m.url.site \notin Skipped}
        Best(m) == \A o \in kept : Base(o.url) = Base(m.url) =>
                        /\ ~Longer(o.url, m.url)
                        /\ o.at < m.at => Longer(m.url, o.url)
    IN  {m.url : m \in {k \in kept : Best(k)}}

Collect ==
    /\ phase \in {"hashes-collect", "urls-collect"}
    /\ variants' = Longest(mail.urls) /\ urls' = {}
    /\ phase' = IF phase = "hashes-collect" THEN "hashes" ELSE "urls"
    /\ UNCHANGED <<mail, report, links, main>>

\* The second pass: the first of those that are equal but for the end.
Emit ==
    /\ phase \in {"hashes", "urls"}
    /\ \E u \in variants :
          /\ variants' = variants \ {u}
          /\ urls' = IF \E v \in urls : Normal(v) = Normal(u) THEN urls ELSE urls \cup {Preserved(u)}
    /\ UNCHANGED <<mail, phase, report, links, main>>

-----------------------------------------------------------------------------
(* The subjects. *)

\* ExtractMultihashesFromURL, of a URL that has lost its query.
InURL(u) == PathHashes[u.site]

\* ExtractMultihashesFromText: the hashes that are spelled out, in URLs or not.
Spelled == (mail.hashes \cup UNION {PathHashes[u.site] \cup u.query : u \in ToSet(mail.urls)}) \ Escaped

\* FindOrCreate: a subject keeps the URL that it was created with.
FindOrCreate(known, found) ==
    known \cup {l \in found : \A k \in known : k.hash # l.hash}

\* extractAndLinkHashSubjects: the hashes in the URLs, and in the text.
LinkHashes ==
    /\ phase = "hashes" /\ variants = {}
    /\ links' = FindOrCreate(links, [hash : (UNION {InURL(u) : u \in urls}) \cup Spelled, url : {"none"}])
    /\ phase' = IF links' = {} THEN "read" ELSE "urls-collect"
    /\ UNCHANGED <<mail, report, variants, urls, main>>

\* extractAndLinkURLSubjects: the hashes in each of the URLs.
LinkURLs ==
    /\ phase = "urls" /\ variants = {}
    /\ links' = FindOrCreate(links, UNION {[hash : InURL(u), url : {u.site}] : u \in urls})
    /\ phase' = "read"
    /\ UNCHANGED <<mail, report, variants, urls, main>>

-----------------------------------------------------------------------------
(* ExtractMainContent, for the templates. *)

\* A block begins after an empty line, with another level, or with a line that is a signature as
\* it stands.
Begins(line, prev) ==
    prev.kind = "blank" \/ line.level # prev.level \/ line.kind = "sign" \/ (line.kind = "dashes" /\ line.level = 0)

\* segmentContentBlocks: the numbers of the lines in the block of line i.
Block(i, lines) ==
    {j \in DOMAIN lines : \A k \in 2..Len(lines) :
        ((i < k /\ k <= j) \/ (j < k /\ k <= i)) => ~Begins(lines[k], lines[k - 1])}

\* isSignatureBlock, of a block without its quote marks.
IsSignature(block, lines) ==
    \E i \in block :
        lines[i].kind \in {"sign", "dashes"} \/ (lines[i].kind = "polite" /\ Cardinality(block) <= ShortBlock)

\* Lines in their order.
InTurn(ids) == CHOOSE s \in [1..Cardinality(ids) -> ids] :
                  \A i \in DOMAIN s, j \in DOMAIN s : i < j => s[i] < s[j]

\* The text of the blocks that are neither signatures nor quoted twice.
ParseEmailStructure(lines) ==
    InTurn({i \in DOMAIN lines : /\ ~IsSignature(Block(i, lines), lines) /\ lines[Min(Block(i, lines))].level <= 1
                                 /\ lines[i].kind # "blank"})

\* extractForwardedHeaders: from the last mark before the first empty line after a mark, to it.
ForwardedHeaders(lines, marks) ==
    LET ends == {i \in DOMAIN lines : lines[i].kind = "blank" /\ i > Min(marks)}
    IN  IF ends = {} THEN [i \in DOMAIN lines |-> i]
        ELSE LET from == Max({m \in marks : m < Min(ends)}) IN [i \in 1..(Min(ends) - from) |-> from + i - 1]

ExtractMainContent ==
    /\ phase = "read" /\ phase' = "done"
    /\ LET marks == {i \in DOMAIN mail.lines : mail.lines[i].kind = "forward"} IN
          main' = IF marks = {} THEN ParseEmailStructure(mail.lines) ELSE ForwardedHeaders(mail.lines, marks)
    /\ UNCHANGED <<mail, report, variants, urls, links>>

ExtractionNext ==
    ReadReport \/ ReadMail \/ Collect \/ Emit \/ LinkHashes \/ LinkURLs \/ ExtractMainContent

ExtractionSpec == ExtractionInit /\ [][ExtractionNext]_extraction

-----------------------------------------------------------------------------

\* Of the URLs of a mail that are not on a host for attachments none is lost, and none comes twice
\* but for what follows it: only of those that differ in what follows "unicode-" the longest alone,
\* by its length with the query, is left.  (The beginning of a URL that is defanged in part is found
\* beside the whole, although nobody reported it.)
UrlsSurvive ==
    (phase \in {"hashes", "urls"} /\ variants = {}) =>
        /\ \A u \in urls, v \in urls : Normal(u) = Normal(v) => u = v
        /\ \A u \in ToSet(mail.urls) : u.site \notin Skipped =>
              \/ u.tail = 0 /\ \E v \in urls : Normal(v) = Normal(Restore(u))
              \/ u.tail > 0 /\ \E v \in ToSet(mail.urls) :
                    /\ v.site = u.site /\ v.tail > 0 /\ Length(v) >= Length(u)
                    /\ Preserved(Restore(v)) \in urls
        /\ \A v \in urls : \E u \in ToSet(mail.urls) : u.site = v.site /\ v.tail <= u.tail

\* Every hash that a mail spells out becomes one subject, and so does one with escapes if it is in
\* the path of a URL that is looked at; one in a query is lost.  The URL that a hash was found in is
\* never kept: the subject is there when the URLs are gone over.
HashesSurvive ==
    phase \in {"read", "done"} =>
        /\ {l.hash : l \in links} =
              Spelled \cup UNION {PathHashes[u.site] : u \in {v \in ToSet(mail.urls) : v.site \notin Skipped}}
        /\ \A l \in links : l.url = "none"

\* Whether lines i and j are in one paragraph: no empty line or other level between them.
Together(i, j) ==
    \A k \in Min({i, j})..Max({i, j}) : mail.lines[k].kind # "blank" /\ mail.lines[k].level = mail.lines[i].level

\* The main text has its lines in their order, without signatures and without what is quoted twice;
\* a line that is quoted at most once is in it unless its paragraph has a signature: before it, or,
\* with dashes in a quoted paragraph, anywhere.
MainTextIsShallow ==
    (phase = "done" /\ \A i \in DOMAIN mail.lines : mail.lines[i].kind # "forward") =>
        /\ \A i \in 1..(Len(main) - 1) : main[i] < main[i + 1]
        /\ \A i \in ToSet(main) : mail.lines[i].level <= 1 /\ mail.lines[i].kind \in {"text", "polite"}
        /\ \A i \in DOMAIN mail.lines :
              (mail.lines[i].kind = "text" /\ mail.lines[i].level <= 1 /\ i \notin ToSet(main)) =>
                  \E j \in DOMAIN mail.lines :
                      /\ Together(i, j)
                      /\ \/ mail.lines[j].kind \in {"sign", "dashes"} /\ j < i
                         \/ mail.lines[j].kind = "dashes" /\ mail.lines[j].level = 1
                         \/ mail.lines[j].kind = "polite"

\* The date of a report is its last arrival date, unless that is empty, wherever received dates are;
\* without one it is the first received date.  The subject is that of the header of the mail that
\* the report is about, if it can be parsed.
DatesAgree ==
    (mail.arf /\ phase \notin {"idle", "failed"}) =>
        LET arrivals == {i \in DOMAIN mail.fields : mail.fields[i].key = "arrival-date"}
            received == {i \in DOMAIN mail.fields : mail.fields[i].key = "received-date" /\ mail.fields[i].value # ""}
        IN  /\ \A i \in arrivals : (mail.fields[i].value # "" /\ \A j \in arrivals : j <= i) =>
                    report.date = mail.fields[i].value
            /\ arrivals = {} =>
                  /\ received = {} => report.date = ""
                  /\ \A i \in received : (\A j \in received : i <= j) => report.date = mail.fields[i].value
            /\ (mail.parts = 3 /\ mail.original.parses /\ mail.original.header # "") =>
                    report.subject = mail.original.header

MailIsReadWhole == UrlsSurvive /\ HashesSurvive /\ MainTextIsShallow /\ DatesAgree
=============================================================================
