---------------------------- MODULE MCImapPoll -----------------------------
(***************************************************************************)
(* Instances of ImapPoll for TLC, with a channel of capacity two: three    *)
(* messages are the most that a poll gets through for certain, four are a  *)
(* backlog on which it may hang.                                           *)
(***************************************************************************)
EXTENDS ImapPoll

CONSTANTS m1, m2, m3, m4
=============================================================================
