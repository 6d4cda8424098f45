------------------------------ MODULE MCPortal ------------------------------
(***************************************************************************)
(* Three requests: reports of one address and one hash, the intake that    *)
(* names the hash, comments, uploads and what administrators do, on either *)
(* schema.                                                                 *)
(***************************************************************************)
EXTENDS Portal, TLC

CONSTANTS q1, q2, q3, e1, e2, h1

Of(k, e) == [kind |-> k, email |-> e, hash |-> h1]

\* One report opens a case; then a second report of the address or of another one, or
\* a look-up of the subject, and at the same time one of the other requests.
MCAsks ==
    (q1 :> {Of("submit", e1)}) @@
    (q2 :> {Of("submit", e1), Of("submit", e2), Of("find", e1), Of("adminUpload", e1), Of("adminComment", e1),
            Of("adminReporter", e1), Of("adminSubject", e1), Of("adminCase", e1)}) @@
    (q3 :> {Of("find", e1), Of("comment", e1), Of("upload", e1)})

=============================================================================
