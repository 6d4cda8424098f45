----------------------------- MODULE Analytics -----------------------------
(***************************************************************************)
(* CaseService.GetAnalytics: the figures on cases, each of which is        *)
(* counted in a transaction of its own while cases are opened and changed  *)
(* and content is blocked; and the tables that are made in one             *)
(* transaction, GetTypeSourceMatrix and GetTimeSeriesMetrics.              *)
(***************************************************************************)
EXTENDS Naturals, Sequences, FiniteSets, SequencesExt, FiniteSetsExt, Functions

CONSTANTS
    Statuses, Kinds, Sources, Reasons,
    OpenStatuses,  \* the statuses other than resolved and closed
    Ages,          \* how many days ago a case was opened; 0 is today
    Never,         \* the age of the zero of time, which stands for no bound, too
    MaxRows, MaxChanges,  \* how many cases there are, and how often something changes (bounds of the model)
    Requests       \* the requests: what for, the range of ages, and the column filtered on, "" for none;
                   \* tables are asked for without a filter

ASSUME AnalyticsAssumption ==
    /\ IsFiniteSet(Statuses) /\ IsFiniteSet(Kinds) /\ IsFiniteSet(Sources) /\ IsFiniteSet(Reasons)
    /\ OpenStatuses \subseteq Statuses
    /\ Ages \subseteq Nat /\ Never \in Nat /\ \A a \in Ages : a < Never
    /\ \A r \in Requests : r.for \in {"figures", "table"}

VARIABLES
    rows,     \* abuse_cases
    bans,     \* abuse_blocklist: the reasons of today's blocks
    request,  \* the request
    count,    \* which figure is next
    figures,  \* CaseAnalytics so far
    changes   \* history: how many changes there were since it began

analytics == <<rows, bans, request, count, figures, changes>>

NoFigures == [total |-> 0, open |-> 0, review |-> 0, resolved |-> 0, blocks |-> 0,
              status |-> [s \in Statuses |-> 0], type |-> [k \in Kinds |-> 0],
              source |-> [s \in Sources |-> 0], reason |-> [r \in Reasons |-> 0]]

Row == [status : Statuses, type : Kinds, source : Sources, review : BOOLEAN, age : Ages]

AnalyticsInit ==
    /\ rows = <<>> /\ bans = <<>> /\ request = CHOOSE r \in Requests : TRUE
    /\ count = "idle" /\ figures = NoFigures /\ changes = 0

-----------------------------------------------------------------------------
(* The range. *)

\* ApplyTimeRangeFilters: a range that ends before it begins is refused, and every other one is
\* taken out of the filters.
Refused(r) == r.from # Never /\ r.to # Never /\ r.from < r.to

\* Mutation of Window: the range that is asked for.
WindowAsked(r) == {i \in DOMAIN rows : rows[i].age <= r.from}

\* What is left to GetAnalytics is the default: the last thirty days.
Window(r) == {i \in DOMAIN rows : rows[i].age <= 30}

\* The columns that the tables and views of the figures have besides created_at.
Columns(figure) ==
    CASE figure \in {"total", "open", "review"} -> {"status", "type", "source"}
      [] figure \in {"status", "type", "source"} -> {figure}
      [] figure \in {"blocks", "reason"} -> {"source"}

-----------------------------------------------------------------------------
(* The figures, in their order. *)

After == [total |-> "open", open |-> "status", status |-> "review", review |-> "type", type |-> "source",
          source |-> "blocks", blocks |-> "reason", reason |-> "resolved", resolved |-> "done"]

Ask ==
    /\ count = "idle" /\ request' \in Requests /\ changes' = 0
    /\ count' = IF request'.for = "table" THEN "table" ELSE IF Refused(request') THEN "failed" ELSE "total"
    /\ UNCHANGED <<rows, bans, figures>>

\* The range of the matrix and of the series is parsed and left out.
Tabulate ==
    /\ count = "table" /\ count' = "done"
    /\ figures' = [NoFigures EXCEPT !.total = Len(rows)]
    /\ UNCHANGED <<rows, bans, request, changes>>

\* How many of the cases in the window are among the given rows.
Counted(of) == Cardinality({i \in Window(request) : rows[i] \in of})

\* A filter on a column that the view does not have makes the query fail.  The range of the
\* resolutions is never set: both its ends are the zero of time, and no case was changed before it
\* was opened.
Count ==
    /\ count \in DOMAIN After
    /\ IF count = "resolved" \/ request.column \in {""} \cup Columns(count)
       THEN /\ count' = After[count]
            /\ figures' =
                CASE count = "total" -> [figures EXCEPT !.total = Cardinality(Window(request))]
                  [] count = "open" -> [figures EXCEPT !.open = Counted({c \in ToSet(rows) : c.status \in OpenStatuses})]
                  [] count = "review" -> [figures EXCEPT !.review = Counted({c \in ToSet(rows) : c.review})]
                  [] count = "status" ->
                        [figures EXCEPT !.status = [s \in Statuses |-> Counted({c \in ToSet(rows) : c.status = s})]]
                  [] count = "type" -> [figures EXCEPT !.type = [k \in Kinds |-> Counted({c \in ToSet(rows) : c.type = k})]]
                  [] count = "source" ->
                        [figures EXCEPT !.source = [s \in Sources |-> Counted({c \in ToSet(rows) : c.source = s})]]
                  [] count = "blocks" -> [figures EXCEPT !.blocks = Len(bans)]
                  [] count = "reason" ->
                        [figures EXCEPT !.reason = [r \in Reasons |-> Cardinality({i \in DOMAIN bans : bans[i] = r})]]
                  [] count = "resolved" ->
                        [figures EXCEPT !.resolved = Cardinality({i \in DOMAIN rows :
                                rows[i].status \notin OpenStatuses /\ rows[i].age >= Never})]
       ELSE count' = "failed" /\ UNCHANGED figures
    /\ UNCHANGED <<rows, bans, request, changes>>

-----------------------------------------------------------------------------
(* What goes on before, and meanwhile. *)

Running == count \notin {"idle", "done", "failed"}

Changed == changes < MaxChanges /\ changes' = changes + 1

OpenedBefore ==
    /\ count = "idle" /\ Len(rows) < MaxRows
    /\ \E c \in Row : rows' = Append(rows, c)
    /\ UNCHANGED <<bans, request, count, figures, changes>>

OpenCase ==
    /\ Running /\ Changed /\ Len(rows) < MaxRows
    /\ \E c \in Row : c.age = 0 /\ rows' = Append(rows, c)
    /\ UNCHANGED <<bans, request, count, figures>>

ChangeCase ==
    /\ Running /\ Changed
    /\ \E i \in DOMAIN rows, s \in Statuses, k \in Kinds, b \in BOOLEAN :
          /\ <<s, k, b>> # <<rows[i].status, rows[i].type, rows[i].review>>
          /\ rows' = [rows EXCEPT ![i].status = s, ![i].type = k, ![i].review = b]
    /\ UNCHANGED <<bans, request, count, figures>>

Ban ==
    /\ Running /\ Changed
    /\ \E r \in Reasons : bans' = Append(bans, r)
    /\ UNCHANGED <<rows, request, count, figures>>

AnalyticsNext ==
    Ask \/ Tabulate \/ Count \/ OpenedBefore \/ OpenCase \/ ChangeCase \/ Ban

AnalyticsSpec == AnalyticsInit /\ [][AnalyticsNext]_analytics

-----------------------------------------------------------------------------

Sum(f) == FoldFunction(+, 0, f)
Near(a, b) == a <= b + changes /\ b <= a + changes

\* The figures of one answer may contradict each other by as many cases, or blocks, as changed
\* while they were counted, and by no more.  If nothing changed they are those of the last thirty
\* days, whichever range is asked for; no case counts as resolved.  A request that filters on any
\* column is answered by the tables alone, and they take every day in.
CountsAgree ==
    count = "done" =>
        \/ request.for = "table" /\ figures.total = Len(rows)
        \/ /\ request.for = "figures" /\ request.column = ""
           /\ Near(Sum(figures.status), figures.total)
           /\ Near(Sum(figures.type), figures.total) /\ Near(Sum(figures.source), figures.total)
           /\ Near(Sum([s \in OpenStatuses |-> figures.status[s]]), figures.open)
           /\ figures.open <= figures.total + changes /\ figures.review <= figures.total + changes
           /\ Near(Sum(figures.reason), figures.blocks) /\ figures.resolved = 0
           /\ changes = 0 => figures.total = Cardinality({i \in DOMAIN rows : rows[i].age <= 30})
=============================================================================
