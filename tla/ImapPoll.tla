----------------------------- MODULE ImapPoll ------------------------------
(***************************************************************************)
(* IMAPClientDefault: the goroutine that polls the mailbox, the goroutine  *)
(* it starts for each FETCH, the bounded channel between them, and the     *)
(* owner that starts and stops the client.  The IMAP server and the go-imap*)
(* library, whose reader goroutine hands every response to the command that*)
(* waits for it, are modelled from how the code uses them:                 *)
(*   - a FETCH of BODY[] without PEEK sets \Seen on what it returns;       *)
(*   - responses arrive in the order of the commands, so that the response *)
(*     to a STORE cannot be read before the messages of a pending FETCH    *)
(*     have been put into its channel, and Fetch closes that channel;      *)
(*   - after the server says BYE a command returns ErrNotLoggedIn; after   *)
(*     the connection breaks, some other error.                            *)
(* Which message of a FETCH comes first makes no difference here.          *)
(***************************************************************************)
EXTENDS Naturals, FiniteSets

CONSTANTS
    Msgs,      \* messages that may arrive in the mailbox
    Cap,       \* capacity of the channel of messages (10 in the code)
    LongPoll,  \* whether the poll interval exceeds the five minutes of the NOOP timer
    MaxFaults, \* bound: failures of the network and the server, and crashes
    None       \* no message

ASSUME ImapAssumption ==
    /\ IsFiniteSet(Msgs) /\ None \notin Msgs
    /\ Cap \in Nat \ {0} /\ LongPoll \in BOOLEAN /\ MaxFaults \in Nat

VARIABLES
    owner,   \* what the owner of the client has done with it
    conn,    \* the connection of c.client
    box,     \* the mailbox: the flags of each message
    at,      \* where pollForEmails and checkForNewEmails are
    msg,     \* the message received from the channel last
    set,     \* seqSet: the messages of the FETCH
    fetch,   \* the FETCH: requested, answered by the server, or returned (and the channel closed)
    wire,    \* messages the server sent that are not yet in the channel
    chan,    \* messages in the channel
    handed,  \* history: how often a message was given to the handler
    lost,    \* history: messages that a failure took on their way
    faults   \* history: number of failures

poll == <<at, msg>>
transfer == <<set, fetch, wire, chan>>
history == <<handed, lost, faults>>
vars == <<owner, conn, box, poll, transfer, history>>

Unread == {m \in Msgs : box[m] = "unread"}
MarkRead(S) == box' = [m \in Msgs |-> IF m \in S THEN "read" ELSE box[m]]

Init ==
    /\ owner = "new" /\ conn = "none" /\ box = [m \in Msgs |-> "absent"]
    /\ at = "off" /\ msg = None
    /\ set = {} /\ fetch = "none" /\ wire = {} /\ chan = {}
    /\ handed = [m \in Msgs |-> 0] /\ lost = {} /\ faults = 0

Goto(l) == at' = l /\ UNCHANGED msg
Fault == faults < MaxFaults /\ faults' = faults + 1 /\ UNCHANGED <<handed, lost>>
Sound == UNCHANGED history

-----------------------------------------------------------------------------
(* The owner: Pipeline.Start and Pipeline.Stop. *)

\* Start connects and logs in; an error of either is returned.
Start ==
    /\ owner = "new"
    /\ \/ owner' = "up" /\ conn' = "open" /\ Goto("select") /\ Sound
       \/ owner' = "failed" /\ UNCHANGED <<conn, poll>> /\ Fault
    /\ UNCHANGED <<box, transfer>>

\* Stop closes stopChan, then waits for the goroutine.
Stop ==
    /\ owner = "up" /\ owner' = "stopping"
    /\ UNCHANGED <<conn, box, poll, transfer, history>>

\* Mutation of Stopped: the client logs out without waiting.
StoppedAtOnce ==
    /\ owner = "stopping" /\ owner' = "down" /\ conn' = "none"
    /\ UNCHANGED <<box, poll, transfer, history>>

\* The goroutine has ended: Stop logs out and returns.
Stopped ==
    /\ owner = "stopping" /\ at = "ended"
    /\ owner' = "down" /\ conn' = "none"
    /\ UNCHANGED <<box, poll, transfer, history>>

-----------------------------------------------------------------------------
(* The goroutine pollForEmails. *)

\* The ticker of the poll interval.
Wake ==
    /\ at = "wait" /\ Goto("select")
    /\ UNCHANGED <<owner, conn, box, transfer, history>>

\* Mutation of Quit: the goroutine wants to empty the mailbox first.
QuitWhenEmpty ==
    /\ at = "wait" /\ owner = "stopping" /\ Unread = {} /\ Goto("ended")
    /\ UNCHANGED <<owner, conn, box, transfer, history>>

\* stopChan is closed.
Quit ==
    /\ at = "wait" /\ owner = "stopping" /\ Goto("ended")
    /\ UNCHANGED <<owner, conn, box, transfer, history>>

\* The NOOP of the five-minute timer.  The loop starts the timer anew every time, so that it
\* never fires when the ticker does earlier.  On an error the client reconnects, if it can.
KeepAlive ==
    /\ at = "wait" /\ LongPoll /\ conn # "open"
    /\ conn' = "open" /\ Sound
    /\ UNCHANGED <<owner, box, poll, transfer>>

\* Mutation of Select: a session that the server ended is not replaced.
SelectOnce ==
    /\ at = "select"
    /\ Goto(IF conn = "open" /\ \E m \in Msgs : box[m] # "absent" THEN "search" ELSE "wait")
    /\ UNCHANGED <<owner, conn, box, transfer, history>>

\* Select; only ErrNotLoggedIn makes the client reconnect and try again.
Select ==
    /\ at = "select"
    /\ \/ /\ conn \in {"open", "bye"} /\ conn' = "open" /\ Sound
          /\ Goto(IF \E m \in Msgs : box[m] # "absent" THEN "search" ELSE "wait")
       \/ conn = "dead" /\ UNCHANGED conn /\ Goto("wait") /\ Sound
       \/ conn = "bye" /\ conn' \in {"open", "bye"} /\ Goto("wait") /\ Fault
       \/ conn = "open" /\ UNCHANGED conn /\ Goto("wait") /\ Fault
    /\ UNCHANGED <<owner, box, transfer>>

\* Search for the unread messages, and the start of the FETCH.
Search ==
    /\ at = "search"
    /\ \/ /\ conn = "open" /\ Unread # {} /\ Sound
          /\ set' = Unread /\ fetch' = "sent" /\ wire' = {} /\ chan' = {}
          /\ Goto("recv")
       \/ (conn # "open" \/ Unread = {}) /\ Goto("wait") /\ Sound /\ UNCHANGED transfer
       \/ conn = "open" /\ Fault /\ Goto("wait") /\ UNCHANGED transfer
    /\ UNCHANGED <<owner, conn, box>>

\* Mutation of Receive: the message stays in the channel.
ReceivePeeking ==
    /\ at = "recv"
    /\ \/ \E m \in chan : msg' = m /\ at' = "handle" /\ UNCHANGED transfer
       \/ chan = {} /\ fetch = "closed" /\ Goto("join") /\ UNCHANGED transfer
    /\ UNCHANGED <<owner, conn, box, history>>

\* Mutation of Receive: the loop ends when the channel is empty, closed or not.
ReceiveWhileThere ==
    /\ at = "recv"
    /\ \/ \E m \in chan : chan' = chan \ {m} /\ msg' = m /\ at' = "handle" /\ UNCHANGED <<set, fetch, wire>>
       \/ chan = {} /\ Goto("join") /\ UNCHANGED transfer
    /\ UNCHANGED <<owner, conn, box, history>>

\* The loop over the channel; a message without a body is skipped.
Receive ==
    /\ at = "recv"
    /\ \/ \E m \in chan :
             /\ chan' = chan \ {m} /\ UNCHANGED <<set, fetch, wire>>
             /\ \/ msg' = m /\ at' = "handle" /\ Sound
                \/ UNCHANGED poll /\ lost' = lost \cup {m} /\ UNCHANGED handed
                   /\ faults < MaxFaults /\ faults' = faults + 1
       \/ chan = {} /\ fetch = "closed" /\ Goto("join") /\ UNCHANGED transfer /\ Sound
    /\ UNCHANGED <<owner, conn, box>>

\* The handler runs to its end; only its success is followed by a STORE.
Handle ==
    /\ at = "handle"
    /\ handed' = [handed EXCEPT ![msg] = @ + 1] /\ UNCHANGED <<lost, faults>>
    /\ (Goto("store") \/ Goto("recv"))
    /\ UNCHANGED <<owner, conn, box, transfer>>

\* Mutation of Store: whatever is unread by now is marked.
StoreUnread ==
    /\ at = "store" /\ wire = {} /\ Goto("recv")
    /\ MarkRead(IF conn = "open" THEN Unread ELSE {})
    /\ UNCHANGED <<owner, conn, transfer, history>>

\* Store marks the whole sequence set; an error is logged.  Its response comes after the
\* messages of the FETCH, so the client must have put all of them into the channel by then.
Store ==
    /\ at = "store" /\ wire = {} /\ Goto("recv")
    /\ \/ MarkRead(IF conn = "open" THEN set ELSE {}) /\ Sound
       \/ UNCHANGED box /\ Fault
    /\ UNCHANGED <<owner, conn, transfer>>

\* The result of the FETCH is read from the channel done.
Join ==
    /\ at = "join" /\ Goto("wait")
    /\ set' = {} /\ fetch' = "none" /\ UNCHANGED <<wire, chan>>
    /\ UNCHANGED <<owner, conn, box, history>>

Poller == Select \/ Search \/ Receive \/ Handle \/ Store \/ Join

-----------------------------------------------------------------------------
(* The server, the network, and the reader goroutine of the library. *)

\* A message arrives.
Arrive(m) ==
    /\ box[m] = "absent" /\ box' = [box EXCEPT ![m] = "unread"]
    /\ UNCHANGED <<owner, conn, poll, transfer, history>>

\* Mutation of Serve: the server leaves the flags alone, as it would with BODY.PEEK[].
ServePeeking ==
    /\ fetch = "sent" /\ conn = "open"
    /\ fetch' = "served" /\ wire' = set /\ UNCHANGED <<set, chan>>
    /\ UNCHANGED <<owner, conn, box, poll, history>>

\* The server answers the FETCH and sets \Seen.
Serve ==
    /\ fetch = "sent" /\ conn = "open"
    /\ fetch' = "served" /\ wire' = set /\ UNCHANGED <<set, chan>>
    /\ MarkRead(set)
    /\ UNCHANGED <<owner, conn, poll, history>>

\* The reader puts a message into the channel, when there is room.
Push ==
    /\ Cardinality(chan) < Cap
    /\ \E m \in wire : wire' = wire \ {m} /\ chan' = chan \cup {m}
    /\ UNCHANGED <<owner, conn, box, poll, set, fetch, history>>

\* Fetch returns and closes the channel: all is read, or the connection is gone.
FetchEnds ==
    /\ (fetch = "served" \/ (fetch = "sent" /\ conn # "open"))
    /\ wire = {} /\ fetch' = "closed"
    /\ UNCHANGED <<owner, conn, box, poll, set, wire, chan, history>>

\* The server says BYE, or the connection breaks.  What the client has not read is lost; a
\* message that waits for room in the channel has been read.
Disconnect ==
    /\ conn = "open" /\ conn' \in {"bye", "dead"}
    /\ \E read \in SUBSET wire :
          /\ (wire # {} /\ Cardinality(chan) = Cap) => read # {}
          /\ wire' = read /\ lost' = lost \cup (wire \ read)
    /\ faults < MaxFaults /\ faults' = faults + 1
    /\ UNCHANGED <<owner, box, poll, set, fetch, chan, handed>>

\* The process stops and is started again.
Crash ==
    /\ owner # "new" /\ owner' = "new" /\ conn' = "none"
    /\ at' = "off" /\ msg' = None
    /\ set' = {} /\ fetch' = "none" /\ wire' = {} /\ chan' = {}
    /\ lost' = lost \cup wire \cup chan \cup (IF at = "handle" THEN {msg} ELSE {})
    /\ faults < MaxFaults /\ faults' = faults + 1
    /\ UNCHANGED <<box, handed>>

Next ==
    \/ Start \/ Stop \/ Stopped
    \/ Wake \/ Quit \/ KeepAlive \/ Poller
    \/ (\E m \in Msgs : Arrive(m)) \/ Serve \/ Push \/ FetchEnds \/ Disconnect \/ Crash

Spec == Init /\ [][Next]_vars

\* Goroutines run, the handler returns, and a server that is there answers.  The select of
\* pollForEmails picks among the channels that are ready at random, so it does not overlook a
\* closed stopChan for ever.
FairSpec ==
    /\ Spec
    /\ WF_vars(Poller) /\ WF_vars(Wake) /\ SF_vars(Quit) /\ WF_vars(Stopped)
    /\ WF_vars(Serve) /\ WF_vars(Push) /\ WF_vars(FetchEnds)

-----------------------------------------------------------------------------

\* Every variable has its type, the goroutines of a FETCH exist only while one is under way, and
\* the channel never holds more than its capacity.
TypeOK ==
    /\ owner \in {"new", "up", "failed", "stopping", "down"}
    /\ conn \in {"none", "open", "bye", "dead"}
    /\ box \in [Msgs -> {"absent", "unread", "read"}]
    /\ at \in {"off", "wait", "select", "search", "recv", "handle", "store", "join", "ended"}
    /\ msg \in Msgs \cup {None} /\ (at \in {"handle", "store"} => msg # None)
    /\ set \subseteq Msgs /\ wire \subseteq set /\ chan \subseteq set \ wire
    /\ fetch \in {"none", "sent", "served", "closed"}
    /\ ((fetch = "none") <=> at \notin {"recv", "handle", "store", "join"})
    /\ (wire # {} => fetch = "served") /\ Cardinality(chan) <= Cap
    /\ handed \in [Msgs -> Nat] /\ lost \subseteq Msgs /\ faults \in Nat

\* No message is handed over twice, over any number of polls, reconnections and restarts,
\* although a message whose handling failed is not marked by the client.
HandedOnce == \A m \in Msgs : handed[m] <= 1

\* A message that is marked read, and so will never be fetched again, was handed over or is on
\* its way to the handler, unless a failure took it on that way.
NoSilentLoss ==
    \A m \in Msgs : box[m] = "read" =>
        \/ handed[m] > 0 \/ m \in lost \cup wire \cup chan
        \/ at = "handle" /\ msg = m

\* The STORE waits for room in the channel that the same goroutine would have to make.
Hung == at = "store" /\ wire # {} /\ Cardinality(chan) = Cap

\* A poll hangs only when it finds two messages more than the channel holds.
HangNeedsBacklog == Hung => Cardinality(set) >= Cap + 2

\* When Stop has returned, no goroutine of the client is left, so no handler runs any more.
QuietAfterStop == owner = "down" => at = "ended" /\ fetch = "none" /\ conn = "none"

\* The comment of Stop: it "stops the IMAP client".
StopReturns == owner = "stopping" ~> owner # "stopping"

\* Stop returns, whatever fails on the way, unless the poll it waits for hangs.
StopReturnsUnlessHung == owner = "stopping" ~> (owner # "stopping" \/ Hung)

\* An unread message reaches the handler unless a failure takes it or a poll hangs: a session
\* that the server ends is replaced at the next poll, and only a broken connection is not.
MailIsHanded ==
    \A m \in Msgs : (box[m] = "unread" /\ owner = "up") ~>
        (handed[m] > 0 \/ m \in lost \/ owner # "up" \/ conn = "dead" \/ Hung)
=============================================================================
