--------------------------- MODULE MCEmailIntake ---------------------------
(***************************************************************************)
(* Instances of EmailIntake for TLC.  Mail a reports h1 in its text and h2 *)
(* in a URL; mail x is a reply, which reports h1 when DetectThread finds   *)
(* nothing it answers; mail y cannot be parsed.                            *)
(***************************************************************************)
EXTENDS EmailIntake

CONSTANTS a, x, y, r1, r2, h1, h2

MCKind == [m \in {a, x, y} |->
             CASE m = a -> "report" [] m = x -> "reply" [] m = y -> "malformed"]
MCFrom == [m \in {a, x, y} |-> IF m = y THEN r2 ELSE r1]
MCTextHashes == [m \in {a, x, y} |-> IF m = y THEN {} ELSE {h1}]
MCUrlHashes == [m \in {a, x, y} |-> IF m = a THEN {h2} ELSE {}]

Limit(d, s, e, b, f) == [delivery |-> d, submission |-> s, edit |-> e, block |-> b, fault |-> f]

\* What may happen together: one delivery among two overlapping requests of administrators
\* and a new case; two deliveries, so that a mail may arrive again or be answered, with an
\* edit and one failure; three deliveries with one failure; an edit beside a lifted block.
MCLimits == {Limit(1, 1, 2, 0, 0), Limit(2, 0, 1, 1, 1), Limit(3, 0, 0, 0, 1), Limit(1, 1, 1, 1, 0)}

\* A report and its answer, with nothing else happening.
ReplyLimits == {Limit(2, 0, 0, 0, 0)}
=============================================================================
