----------------------------- MODULE BlockList -----------------------------
(***************************************************************************)
(* BlockListServiceDefault: IsBlocked, BlockContent, UnblockContent and    *)
(* BatchBlockFromScanResults on the table abuse_blocklist.  Requests run   *)
(* concurrently (HTTP handlers of administrators, the goroutine that polls *)
(* for mails), nothing locks a hash, and each database call is a           *)
(* transaction of its own; so each is a step of its own, and may fail.     *)
(***************************************************************************)
EXTENDS Naturals, Sequences, FiniteSets, Functions

CONSTANTS
    Procs,   \* requests that may be under way at one time
    Hashes,  \* content hashes
    MaxBatch,\* bound of the model: the failed results in one call of BatchBlockFromScanResults
    None     \* no request, no hash, no answer

\* ExpiresAt: nil (permanent), a date to come, or a date that has passed.
Lives == {"never", "later", "past"}
Ops == {"check", "block", "unblock"}
Row == [life : Lives, raced : BOOLEAN]
Request == [at : {"next", "lookup", "sweep", "insert", "find", "delete"},
            op : Ops, life : Lives, hash : Hashes \cup {None}, todo : Seq(Hashes),
            asked : SUBSET Hashes]

\* What a request is made of: one hash, or a batch of scan results, which may name a hash twice.
Batches == UNION {[1 .. n -> Hashes] : n \in 1 .. MaxBatch}

ASSUME BlockListAssumption ==
    IsFiniteSet(Procs) /\ MaxBatch \in Nat \ {0} /\ None \notin Hashes /\ None \notin Request

VARIABLES
    rows,    \* rows[h]: the rows of hash h that are not soft-deleted, by id; raced is history:
             \* another request had a row of h, or was about to remove all, when this one was written
    req,     \* req[p]: the request under way, and where it is; asked is history: all its hashes
    gone,    \* history: gone[p]: the hashes of p's last request whose rows were removed during it,
             \* and which it has not written since
    answer   \* the answer that the last step gave to its caller, if it gave one

vars == <<rows, req, gone, answer>>

Init ==
    /\ rows = [h \in Hashes |-> <<>>]
    /\ req = [p \in Procs |-> None]
    /\ gone = [p \in Procs |-> {}]
    /\ answer = None

At(p, l) == req[p] # None /\ req[p].at = l
Busy(l, h) == {p \in Procs : At(p, l) /\ req[p].hash = h}

Goto(p, l) == req' = [req EXCEPT ![p].at = l] /\ answer' = None
Return(p, a) == req' = [req EXCEPT ![p] = None] /\ answer' = [to |-> p, is |-> a]

\* BatchBlockFromScanResults goes on with its next hash; a request for one hash ends.
Proceed(p, a) == IF req[p].todo = <<>> THEN Return(p, a) ELSE Goto(p, "next")

\* Mutation of First: the newest row is found.
Latest(h) == rows[h][Len(rows[h])]

\* GetByProperty reads the row with the least id.
First(h) == rows[h][1]

\* The rows of h are removed while requests for it are under way.
Forget(h) == gone' =
    [p \in Procs |-> IF req[p] # None /\ h \in req[p].asked THEN gone[p] \cup {h} ELSE gone[p]]

\* Mutation of RemoveAll: the row that was found is removed, not every one.
RemoveFirst(h) == rows' = [rows EXCEPT ![h] = IF @ = <<>> THEN @ ELSE Tail(@)] /\ Forget(h)

\* UnblockContent: DeleteByProperty removes every row of the hash.
RemoveAll(h) == rows' = [rows EXCEPT ![h] = <<>>] /\ Forget(h)

-----------------------------------------------------------------------------

\* A request arrives: a hash to check, block or unblock, or a batch to block for ever.
Ask(p, o, hs, l) ==
    /\ req[p] = None
    /\ Len(hs) > 1 => o = "block" /\ l = "never"
    /\ req' = [req EXCEPT ![p] = [at |-> "next", op |-> o, life |-> l, hash |-> None, todo |-> hs,
                                  asked |-> Range(hs)]]
    /\ gone' = [gone EXCEPT ![p] = {}]
    /\ answer' = None
    /\ UNCHANGED rows

\* The next hash of the request; unblockContent of the administration API looks it up itself.
Take(p) ==
    /\ At(p, "next")
    /\ req' = [req EXCEPT ![p].hash = Head(req[p].todo), ![p].todo = Tail(@),
                          ![p].at = IF req[p].op = "unblock" THEN "find" ELSE "lookup"]
    /\ answer' = None
    /\ UNCHANGED <<rows, gone>>

\* The content is not blocked: that answers a check, and lets BlockContent insert.
Free(p) == IF req[p].op = "check" THEN Return(p, "free") ELSE Goto(p, "insert")

\* IsBlocked, for itself or as the first half of BlockContent.
Lookup(p) ==
    /\ At(p, "lookup")
    /\ LET h == req[p].hash IN
       \/ rows[h] = <<>> /\ Free(p)
       \/ rows[h] # <<>> /\ First(h).life # "past" /\ Proceed(p, "blocked")
       \/ rows[h] # <<>> /\ First(h).life = "past" /\ Goto(p, "sweep")
       \/ Return(p, "error")
    /\ UNCHANGED <<rows, gone>>

\* Mutations of Sweep: nothing is removed; an error of the removal is ignored.
SweepNothing(p) == At(p, "sweep") /\ Free(p) /\ UNCHANGED <<rows, gone>>
SweepIgnoringError(p) ==
    /\ At(p, "sweep") /\ Free(p)
    /\ RemoveAll(req[p].hash) \/ UNCHANGED <<rows, gone>>

\* IsBlocked calls UnblockContent because the row it read is expired; when the
\* removal fails, the content counts as blocked.
Sweep(p) ==
    /\ At(p, "sweep")
    /\ \/ RemoveAll(req[p].hash) /\ Free(p)
       \/ Return(p, IF req[p].op = "check" THEN "kept" ELSE "error") /\ UNCHANGED <<rows, gone>>

\* db.Create of the row.
Write(p) ==
    LET h == req[p].hash
    IN  /\ rows' = [rows EXCEPT ![h] = Append(@,
               [life |-> req[p].life, raced |-> @ # <<>> \/ Busy("sweep", h) # {}])]
        /\ gone' = [gone EXCEPT ![p] = @ \ {h}]

\* Mutation of Insert: the batch logs a hash that it could not block, and goes on.
InsertOrLog(p) ==
    /\ At(p, "insert")
    /\ Write(p) \/ UNCHANGED <<rows, gone>>
    /\ Proceed(p, "blocked")

\* The second half of BlockContent; an error ends the batch.
Insert(p) ==
    /\ At(p, "insert")
    /\ \/ Write(p) /\ Proceed(p, "blocked")
       \/ Return(p, "error") /\ UNCHANGED <<rows, gone>>

\* unblockContent: GetBlockedContent first.
Find(p) ==
    /\ At(p, "find")
    /\ \/ rows[req[p].hash] = <<>> /\ Return(p, "unknown")
       \/ rows[req[p].hash] # <<>> /\ Goto(p, "delete")
       \/ Return(p, "error")
    /\ UNCHANGED <<rows, gone>>

\* unblockContent: then UnblockContent.
Delete(p) ==
    /\ At(p, "delete")
    /\ \/ RemoveAll(req[p].hash) /\ Return(p, "unblocked")
       \/ Return(p, "error") /\ UNCHANGED <<rows, gone>>

\* Time passes: a temporary block reaches its date.
Lapse(h, i) ==
    /\ rows[h][i].life = "later"
    /\ rows' = [rows EXCEPT ![h][i].life = "past"]
    /\ answer' = None
    /\ UNCHANGED <<req, gone>>

Next ==
    \/ \E p \in Procs :
          \/ \E o \in Ops, hs \in Batches, l \in Lives : Ask(p, o, hs, l)
          \/ Take(p) \/ Lookup(p) \/ Sweep(p) \/ Insert(p) \/ Find(p) \/ Delete(p)
    \/ \E h \in Hashes : \E i \in DOMAIN rows[h] : Lapse(h, i)

Spec == Init /\ [][Next]_vars

-----------------------------------------------------------------------------

\* Every variable has its type, and a request that goes to its next hash still has one.
TypeOK ==
    /\ rows \in [Hashes -> Seq(Row)]
    /\ req \in [Procs -> Request \cup {None}]
    /\ gone \in [Procs -> SUBSET Hashes]
    /\ answer = None \/ answer \in [to : Procs, is : {"free", "blocked", "kept", "unknown",
                                                      "unblocked", "error"}]
    /\ \A p \in Procs : req[p] # None =>
          IF req[p].at = "next" THEN req[p].todo # <<>> ELSE req[p].hash \in Hashes

\* A batch answers with success only when every one of its hashes has a row -- one that it found
\* in force, or wrote -- or had one that another request removed in the meantime.  It may name a
\* hash twice, and stops at the first call that fails.
BatchBlocksAll ==
    [][\A p \in Procs :
          (req[p] # None /\ req[p].op = "block" /\ req'[p] = None /\ answer'.is = "blocked") =>
             \A h \in req[p].asked : rows'[h] # <<>> \/ h \in gone'[p]]_vars

\* Check-then-insert is not atomic, so a hash may have several rows; but never more than there
\* are requests that can be under way at one time, so that one at a time makes one row.
BoundedDuplicates ==
    \A h \in Hashes : Len(rows[h]) + Cardinality(Busy("insert", h)) <= Cardinality(Procs)

\* A check that answers "free" leaves no row of the hash, and one that answers "blocked" leaves
\* a block in force -- whatever other requests did between its two database calls.
AnswersMatchTable ==
    [][\A p \in Procs : (req[p] # None /\ req[p].op = "check" /\ req'[p] = None) =>
          LET h == req[p].hash
          IN  /\ answer'.is = "free" => rows'[h] = <<>>
              /\ answer'.is = "blocked" => \E i \in DOMAIN rows'[h] : rows'[h][i].life # "past"]_vars

\* The permanent blocks of h that no other request raced with.
Lone(h) == {i \in DOMAIN rows[h] : rows[h][i] = [life |-> "never", raced |-> FALSE]}

\* A permanent block ends only because somebody unblocks it -- or because the request that
\* wrote it overlapped another one that wrote or swept the same hash.
PermanentLostOnlyInRace ==
    [][\A h \in Hashes : (Lone(h) # {} /\ Lone(h)' = {}) => Busy("delete", h) # {}]_vars

\* However many rows a hash has, to its users it is one register: the block in force is the
\* first row, and no later row ever takes its place.
Register == INSTANCE BlockRegister
    WITH state <- [h \in Hashes |-> IF rows[h] = <<>> THEN "open" ELSE rows[h][1].life]
ActsAsRegister == Register!Spec

\* The comment of BlockList.ExpiresAt: "When block expires (nil = permanent)".
PermanentStays ==
    [][\A h \in Hashes :
          ((\E i \in DOMAIN rows[h] : rows[h][i].life = "never") /\ rows'[h] = <<>>)
              => Busy("delete", h) # {}]_vars
=============================================================================
