--------------------------- MODULE ImapPollProofs ---------------------------
(***************************************************************************)
(* Proofs about ImapPoll, for every set of messages, every capacity of the *)
(* channel and any number of failures: its type invariant, that no message *)
(* is handed over twice, that none is lost without a failure, that a poll  *)
(* hangs only on a backlog, and that Stop leaves nothing running.          *)
(***************************************************************************)
EXTENDS ImapPoll, FiniteSetTheorems, TLAPS

-----------------------------------------------------------------------------
(* The inductive invariant. *)

\* Where the goroutine is tells what the owner did, and how far the FETCH is.
Places ==
    /\ owner \in {"new", "failed"} => at = "off"
    /\ owner = "down" => at = "ended" /\ conn = "none"
    /\ fetch \in {"none", "sent"} => chan = {}
    /\ fetch = "sent" => at = "recv"
    /\ at = "join" => fetch = "closed" /\ chan = {}

\* The message that the goroutine works on has left the wire and the channel.
Taken == at \in {"handle", "store"} => msg \in set \ (wire \cup chan)

\* The server has answered: it sent something, which is on its way or with the goroutine.
Answering == wire \cup chan # {} \/ at \in {"handle", "store"}

\* The flags of the messages of a FETCH: unread until the server answers it, and read then.
Flags ==
    /\ fetch = "sent" => \A m \in set : box[m] = "unread"
    /\ Answering => \A m \in set : box[m] = "read"

\* A message that was handed over is read, and is neither on its way nor with the goroutine.
Once ==
    \A m \in Msgs :
        /\ handed[m] <= 1
        /\ handed[m] # 0 => box[m] = "read" /\ m \notin wire \cup chan
        /\ at = "handle" => handed[msg] = 0

Inv == TypeOK /\ Places /\ Taken /\ Flags /\ Once /\ NoSilentLoss

LEMMA InitInv == Init => Inv
<1>1. Init => TypeOK
    BY FS_EmptySet, ImapAssumption DEF Init, TypeOK
<1> QED BY <1>1 DEF Init, Inv, Places, Taken, Answering, Flags, Once, NoSilentLoss

-----------------------------------------------------------------------------
(* The channel: a finite set that the goroutine empties and the reader fills. *)

\* A channel that loses a message, or is made anew, stays within its capacity.
LEMMA ChannelShrinks ==
    ASSUME TypeOK, NEW S, S \subseteq chan
    PROVE  IsFiniteSet(chan) /\ Cardinality(S) <= Cap
<1>1. IsFiniteSet(chan) /\ chan \subseteq Msgs
    BY FS_Subset, ImapAssumption DEF TypeOK
<1>2. IsFiniteSet(S) /\ Cardinality(S) <= Cardinality(chan)
    BY <1>1, FS_Subset
<1>3. Cardinality(S) \in Nat /\ Cardinality(chan) \in Nat
    BY <1>1, <1>2, FS_CardinalityType
<1> QED BY <1>1, <1>2, <1>3, ImapAssumption DEF TypeOK

\* A channel with room stays within its capacity when it takes one message.
LEMMA ChannelGrows ==
    ASSUME TypeOK, Cardinality(chan) < Cap, NEW m
    PROVE  Cardinality(chan \cup {m}) <= Cap
<1>1. IsFiniteSet(chan) /\ Cardinality(chan) \in Nat
    BY ChannelShrinks, FS_CardinalityType
<1>2. Cardinality(chan \cup {m}) = IF m \in chan THEN Cardinality(chan) ELSE Cardinality(chan) + 1
    BY <1>1, FS_AddElement
<1> QED BY <1>1, <1>2, ImapAssumption

-----------------------------------------------------------------------------
(* One lemma per actor: the owner, the goroutine, and the server with its network. *)

LEMMA StepOwner ==
    ASSUME Inv, Start \/ Stop \/ Stopped
    PROVE  Inv'
<1> USE DEF Inv
<1>1. TypeOK'
    BY DEF Start, Stop, Stopped, Goto, Fault, Sound, TypeOK, Places, transfer, poll, history
<1>2. Places'
    BY DEF Start, Stop, Stopped, Goto, Fault, Sound, TypeOK, Places, transfer, poll, history
<1>3. Taken' /\ Flags' /\ Once' /\ NoSilentLoss'
    BY DEF Start, Stop, Stopped, Goto, Fault, Sound, TypeOK, Places, Taken, Answering, Flags, Once,
           NoSilentLoss, transfer, poll, history
<1> QED BY <1>1, <1>2, <1>3

\* The steps of the goroutine between two FETCHes.
LEMMA StepIdle ==
    ASSUME Inv, Wake \/ Quit \/ KeepAlive \/ Select
    PROVE  Inv'
<1> USE DEF Inv, Wake, Quit, KeepAlive, Select
<1>1. TypeOK'
    BY DEF Goto, Fault, Sound, TypeOK, Places, transfer, poll, history
<1>2. Places'
    BY DEF Goto, Fault, Sound, TypeOK, Places, transfer, poll, history
<1>3. Taken' /\ Flags' /\ Once' /\ NoSilentLoss'
    BY DEF Goto, Fault, Sound, TypeOK, Places, Taken, Answering, Flags, Once,
           NoSilentLoss, transfer, poll, history
<1> QED BY <1>1, <1>2, <1>3

LEMMA StepSearch ==
    ASSUME Inv, Search
    PROVE  Inv'
<1> USE DEF Inv, Search
<1>1. Cardinality({}) <= Cap
    BY FS_EmptySet, ImapAssumption
<1>2. wire = {} /\ chan = {}
    BY DEF TypeOK, Places
<1>3. CASE set' = Unread /\ fetch' = "sent" /\ wire' = {} /\ chan' = {} /\ Goto("recv") /\ Sound
  <2>1. Unread \subseteq Msgs /\ \A m \in Unread : box[m] = "unread"
      BY DEF Unread
  <2>2. TypeOK' /\ Places' /\ Taken'
      BY <1>1, <1>3, <2>1 DEF Goto, Sound, TypeOK, Places, Taken, history
  <2>3. Flags'
      BY <1>3, <2>1 DEF Goto, Flags, Answering
  <2>4. Once' /\ NoSilentLoss'
      BY <1>2, <1>3 DEF Goto, Sound, history, Once, NoSilentLoss
  <2> QED BY <2>2, <2>3, <2>4
<1>4. CASE UNCHANGED transfer /\ Goto("wait") /\ (Sound \/ Fault)
  <2>1. TypeOK' /\ Places' /\ Taken'
      BY <1>4 DEF Goto, Sound, Fault, TypeOK, Places, Taken, history, transfer
  <2>2. Flags' /\ Once' /\ NoSilentLoss'
      BY <1>4 DEF Goto, Sound, Fault, history, transfer, Once, Flags, Answering, NoSilentLoss
  <2> QED BY <2>1, <2>2
<1> QED BY <1>3, <1>4

LEMMA StepReceive ==
    ASSUME Inv, Receive
    PROVE  Inv'
<1> USE DEF Inv, Receive
<1>1. ASSUME NEW m \in chan, chan' = chan \ {m}, UNCHANGED <<set, fetch, wire>>,
             UNCHANGED <<owner, conn, box, handed>>,
             \/ msg' = m /\ at' = "handle" /\ Sound
             \/ UNCHANGED poll /\ lost' = lost \cup {m} /\ faults' = faults + 1
      PROVE  Inv'
  <2>1. Cardinality(chan \ {m}) <= Cap
      BY ChannelShrinks
  <2>2. m \in set /\ m \in Msgs /\ m \notin wire /\ at = "recv" /\ fetch # "none"
      BY DEF TypeOK
  <2>3. /\ at' \in {"recv", "handle"} /\ msg' \in Msgs \cup {None} /\ lost' \subseteq Msgs /\ faults' \in Nat
        /\ at' = "handle" => msg' = m
      BY <1>1, <2>2, ImapAssumption DEF TypeOK, Sound, history, poll
  <2>31. TypeOK'
      BY <1>1, <2>1, <2>2, <2>3, ImapAssumption DEF TypeOK
  <2>32. Places' /\ Taken'
      BY <1>1, <2>2, <2>3 DEF Places, Taken
  <2>4. Flags'
      BY <1>1, <2>2 DEF Flags, Answering, Places, poll
  <2>5. Once'
      BY <1>1, <2>2 DEF Once, Sound, history, poll, TypeOK
  <2>6. NoSilentLoss'
      BY <1>1, <2>2 DEF NoSilentLoss, Sound, history, poll
  <2> QED BY <2>31, <2>32, <2>4, <2>5, <2>6
<1>2. CASE chan = {} /\ fetch = "closed" /\ Goto("join") /\ UNCHANGED transfer /\ Sound
  <2>1. TypeOK' /\ Places' /\ Taken'
      BY <1>2 DEF TypeOK, Places, Taken, Goto, Sound, history, transfer
  <2>2. Flags' /\ Once' /\ NoSilentLoss'
      BY <1>2 DEF Flags, Answering, Once, NoSilentLoss, Goto, Sound, history, transfer
  <2> QED BY <2>1, <2>2
<1>3. CASE \E m \in chan :
             /\ chan' = chan \ {m} /\ UNCHANGED <<set, fetch, wire>>
             /\ \/ msg' = m /\ at' = "handle" /\ Sound
                \/ UNCHANGED poll /\ lost' = lost \cup {m} /\ UNCHANGED handed
                   /\ faults < MaxFaults /\ faults' = faults + 1
  <2>1. UNCHANGED <<owner, conn, box, handed>>
      BY <1>3 DEF Sound, history
  <2> QED BY <1>1, <1>3, <2>1
<1> QED BY <1>2, <1>3

LEMMA StepHandle ==
    ASSUME Inv, Handle
    PROVE  Inv'
<1> USE DEF Inv, Handle
<1>1. msg \in Msgs /\ msg \in set /\ msg \notin wire \cup chan /\ box[msg] = "read" /\ handed[msg] = 0
    BY DEF TypeOK, Taken, Flags, Answering, Once
<1>2. /\ handed' \in [Msgs -> Nat] /\ handed'[msg] = 1
      /\ \A m \in Msgs \ {msg} : handed'[m] = handed[m]
    BY <1>1 DEF TypeOK
<1>3. at' \in {"store", "recv"} /\ msg' = msg /\ at = "handle"
    BY DEF Goto
<1>4. TypeOK' /\ Places' /\ Taken'
    BY <1>1, <1>2, <1>3 DEF TypeOK, Places, Taken, transfer
<1>5. Flags'
    BY <1>3 DEF Flags, Answering, transfer
<1>6. Once' /\ NoSilentLoss'
    BY <1>1, <1>2, <1>3 DEF Once, NoSilentLoss, transfer
<1> QED BY <1>4, <1>5, <1>6

\* Store finds every message of its set read already.
LEMMA StepStore ==
    ASSUME Inv, Store
    PROVE  Inv'
<1> USE DEF Inv, Store
<1>1. box' = box
  <2>1. \A m \in set : box[m] = "read"
      BY DEF Flags, Answering
  <2> QED BY <2>1 DEF MarkRead, TypeOK
<1>2. at' = "recv" /\ msg' = msg /\ fetch # "none"
    BY DEF Goto, TypeOK
<1>3. TypeOK' /\ Places' /\ Taken'
    BY <1>1, <1>2 DEF TypeOK, Places, Taken, transfer, Sound, Fault, history
<1>4. Flags' /\ Once' /\ NoSilentLoss'
    BY <1>1, <1>2 DEF Flags, Answering, Once, NoSilentLoss, transfer, Sound, Fault, history
<1> QED BY <1>3, <1>4

LEMMA StepJoin ==
    ASSUME Inv, Join
    PROVE  Inv'
<1> USE DEF Inv, Join
<1>1. wire = {} /\ chan = {}
    BY DEF TypeOK, Places
<1>2. TypeOK' /\ Places' /\ Taken'
    BY <1>1 DEF TypeOK, Places, Taken, Goto, history
<1>3. Flags' /\ Once' /\ NoSilentLoss'
    BY <1>1 DEF Flags, Answering, Once, NoSilentLoss, Goto, history
<1> QED BY <1>2, <1>3

LEMMA StepArrive ==
    ASSUME Inv, NEW m \in Msgs, Arrive(m)
    PROVE  Inv'
<1> USE DEF Inv, Arrive
<1>1. box' \in [Msgs -> {"absent", "unread", "read"}] /\ \A n \in Msgs : n # m => box'[n] = box[n]
    BY DEF TypeOK
<1>2. box[m] = "absent" /\ box'[m] = "unread"
    BY DEF TypeOK
<1>3. TypeOK' /\ Places' /\ Taken'
    BY <1>1 DEF TypeOK, Places, Taken, transfer, poll, history
<1>4. Flags'
    BY <1>1, <1>2 DEF TypeOK, Flags, Answering, transfer, poll
<1>5. Once' /\ NoSilentLoss'
    BY <1>1, <1>2 DEF Once, NoSilentLoss, transfer, poll, history
<1> QED BY <1>3, <1>4, <1>5

LEMMA StepServe ==
    ASSUME Inv, Serve
    PROVE  Inv'
<1> USE DEF Inv, Serve
<1>1. chan = {} /\ at = "recv" /\ set \subseteq Msgs
    BY DEF Places, TypeOK
<1>2. /\ box' \in [Msgs -> {"absent", "unread", "read"}]
      /\ \A m \in set : box[m] = "unread" /\ box'[m] = "read" /\ handed[m] = 0
      /\ \A m \in Msgs \ set : box'[m] = box[m]
    BY <1>1 DEF TypeOK, MarkRead, Flags, Once
<1>3. TypeOK' /\ Places' /\ Taken'
    BY <1>1, <1>2 DEF TypeOK, Places, Taken, poll, history
<1>4. Flags'
    BY <1>2 DEF Flags, poll
<1>5. wire' \cup chan' = set /\ at' = "recv" /\ UNCHANGED <<handed, lost>>
    BY <1>1 DEF poll, history
<1>6. Once'
    BY <1>1, <1>2, <1>5 DEF Once
<1>7. NoSilentLoss'
    BY <1>1, <1>2, <1>5 DEF NoSilentLoss, TypeOK
<1> QED BY <1>3, <1>4, <1>6, <1>7

LEMMA StepPush ==
    ASSUME Inv, Push
    PROVE  Inv'
<1> USE DEF Inv, Push
<1>1. PICK m \in wire : wire' = wire \ {m} /\ chan' = chan \cup {m}
    OBVIOUS
<1>2. wire' \cup chan' = wire \cup chan /\ fetch = "served"
    BY <1>1 DEF TypeOK
<1>3. Cardinality(chan') <= Cap
    BY <1>1, ChannelGrows
<1>4. TypeOK' /\ Places' /\ Taken'
    BY <1>1, <1>2, <1>3 DEF TypeOK, Places, Taken, poll, history
<1>5. Flags' /\ Once' /\ NoSilentLoss'
    BY <1>2 DEF Flags, Answering, Once, NoSilentLoss, poll, history
<1> QED BY <1>4, <1>5

LEMMA StepFetchEnds ==
    ASSUME Inv, FetchEnds
    PROVE  Inv'
<1> USE DEF Inv, FetchEnds
<1>1. TypeOK' /\ Places' /\ Taken'
    BY DEF TypeOK, Places, Taken, poll, history
<1>2. Flags' /\ Once' /\ NoSilentLoss'
    BY DEF Flags, Answering, Once, NoSilentLoss, poll, history
<1> QED BY <1>1, <1>2

LEMMA StepDisconnect ==
    ASSUME Inv, Disconnect
    PROVE  Inv'
<1> USE DEF Inv, Disconnect
<1>1. PICK read \in SUBSET wire : wire' = read /\ lost' = lost \cup (wire \ read)
    OBVIOUS
<1>2. TypeOK' /\ Places' /\ Taken'
    BY <1>1 DEF TypeOK, Places, Taken, poll
<1>3. Flags' /\ Once' /\ NoSilentLoss'
    BY <1>1 DEF Flags, Answering, Once, NoSilentLoss, poll
<1> QED BY <1>2, <1>3

LEMMA StepCrash ==
    ASSUME Inv, Crash
    PROVE  Inv'
<1> USE DEF Inv, Crash
<1>1. Cardinality({}) <= Cap
    BY FS_EmptySet, ImapAssumption
<1>2. TypeOK' /\ Places' /\ Taken'
    BY <1>1 DEF TypeOK, Places, Taken
<1>3. Flags' /\ Once' /\ NoSilentLoss'
    BY DEF Flags, Answering, Once, NoSilentLoss
<1> QED BY <1>2, <1>3

LEMMA StepInv == Inv /\ [Next]_vars => Inv'
<1> SUFFICES ASSUME Inv, [Next]_vars PROVE Inv'
    OBVIOUS
<1>1. CASE UNCHANGED vars
    BY <1>1 DEF vars, poll, transfer, history, Inv, TypeOK, Places, Taken, Answering, Flags, Once, NoSilentLoss
<1>2. CASE Next
    BY <1>2, StepOwner, StepIdle, StepSearch, StepReceive, StepHandle, StepStore, StepJoin,
       StepArrive, StepServe, StepPush, StepFetchEnds, StepDisconnect, StepCrash DEF Next, Poller
<1> QED BY <1>1, <1>2

-----------------------------------------------------------------------------
(* The theorems. *)

\* Every step of the client, its owner, the server and the network preserves the invariant.
THEOREM InvCorrect == Spec => []Inv
    BY InitInv, StepInv, PTL DEF Spec

\* Every variable keeps its type, and the channel never holds more than its capacity.
THEOREM TypeCorrect == Spec => []TypeOK
    BY InvCorrect, PTL DEF Inv

\* No message is handed to the handler twice, over any number of polls, reconnections and
\* restarts: the server marks it when it answers the FETCH, and a FETCH asks for what is unread.
THEOREM HandedOnceCorrect == Spec => []HandedOnce
<1>1. Inv => HandedOnce
    BY DEF Inv, Once, HandedOnce
<1> QED BY <1>1, InvCorrect, PTL

\* A message that is marked read was handed over, is on its way, or was lost to a failure: the
\* STORE marks nothing that its FETCH had not marked.
THEOREM NoSilentLossCorrect == Spec => []NoSilentLoss
    BY InvCorrect, PTL DEF Inv

\* A STORE that waits for room in a full channel has a message on the wire, a full channel and
\* the message in hand before it, all of them different: a backlog of two more than the capacity.
THEOREM HangNeedsBacklogCorrect == Spec => []HangNeedsBacklog
<1>1. Inv => HangNeedsBacklog
  <2> SUFFICES ASSUME Inv, Hung PROVE Cardinality(set) >= Cap + 2
      BY DEF HangNeedsBacklog
  <2> USE DEF Inv
  <2>1. PICK m \in wire : TRUE
      BY DEF Hung
  <2>2. /\ m \in set \ chan /\ msg \in set \ (chan \cup {m})
        /\ chan \subseteq set /\ Cardinality(chan) = Cap /\ set \subseteq Msgs
      BY <2>1 DEF Hung, TypeOK, Taken
  <2>3. IsFiniteSet(set) /\ IsFiniteSet(chan) /\ IsFiniteSet(chan \cup {m})
      BY <2>2, FS_Subset, FS_AddElement, ImapAssumption
  <2>4. Cardinality(chan \cup {m}) = Cap + 1
      BY <2>2, <2>3, FS_AddElement
  <2>5. Cardinality((chan \cup {m}) \cup {msg}) = (Cap + 1) + 1
      BY <2>2, <2>3, <2>4, FS_AddElement
  <2>6. (chan \cup {m}) \cup {msg} \subseteq set
      BY <2>2
  <2>7. Cardinality((chan \cup {m}) \cup {msg}) <= Cardinality(set)
      BY <2>3, <2>6, FS_Subset
  <2>8. Cardinality(set) \in Nat
      BY <2>3, FS_CardinalityType
  <2> QED BY <2>5, <2>7, <2>8, ImapAssumption
<1> QED BY <1>1, InvCorrect, PTL

\* When Stop has returned the goroutine has ended, its FETCH with it, and the connection is closed.
THEOREM QuietAfterStopCorrect == Spec => []QuietAfterStop
<1>1. Inv => QuietAfterStop
    BY DEF Inv, Places, TypeOK, QuietAfterStop
<1> QED BY <1>1, InvCorrect, PTL
=============================================================================
