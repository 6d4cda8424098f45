----------------------------- MODULE MCCaseLife -----------------------------
(***************************************************************************)
(* One case: a request that opens it and two that work on it.              *)
(***************************************************************************)
EXTENDS CaseLife, TLC

CONSTANTS progress, resolved, r1, r2, text1, text2, open, q1, q2

Set(k, s, r, t) == [kind |-> k, patch |-> [status |-> s, reporter |-> r, text |-> t]]

\* The case is opened with a description or with spaces; one request changes its
\* status, the other does so too, as the intake does, or edits it in one of four
\* ways: the reporter, the description, a description of spaces, the status.
MCAsks ==
    (open :> {Set("create", New, r1, text1), Set("create", New, r1, Blank)}) @@
    (q1 :> {Set("status", progress, None, None), Set("status", resolved, None, None)}) @@
    (q2 :> {Set("status", resolved, None, None), Set("resolve", resolved, None, None),
            Set("edit", None, r2, None), Set("edit", None, None, text2),
            Set("edit", None, None, Blank), Set("edit", resolved, None, None)})

=============================================================================
