---------------------------- MODULE ScanVerdict ----------------------------
(***************************************************************************)
(* What a content scan promises to the administrator who asked for it: it  *)
(* is asked for, then owed, then has one verdict, which never changes.     *)
(***************************************************************************)
CONSTANT Scans

VARIABLE state  \* state[s]: "none", "owed", or the verdict of scan s

Init == state = [s \in Scans |-> "none"]

Request(s) == state[s] = "none" /\ state' = [state EXCEPT ![s] = "owed"]

Settle(s) ==
    /\ state[s] = "owed"
    /\ \E v \in {"clean", "flagged"} : state' = [state EXCEPT ![s] = v]

Next == \E s \in Scans : Request(s) \/ Settle(s)

Spec == Init /\ [][Next]_state
=============================================================================
