-------------------------- MODULE BlockListProofs --------------------------
(***************************************************************************)
(* Proofs about BlockList, for every set of hashes and every finite number *)
(* of concurrent requests.                                                 *)
(***************************************************************************)
EXTENDS BlockList, FiniteSetTheorems, TLAPS

-----------------------------------------------------------------------------
(* Types. *)

LEMMA InitTypes == Init => TypeOK
    BY BlockListAssumption DEF Init, TypeOK, Row, Request

\* A request that moves on keeps what it is about, and one that returns is gone; the other
\* requests stay where they are.
LEMMA GotoShape ==
    ASSUME TypeOK, NEW p \in Procs, req[p] # None, NEW l \in {"next", "lookup", "sweep", "insert", "find", "delete"},
           Goto(p, l)
    PROVE  /\ req' \in [Procs -> Request \cup {None}] /\ answer' = None
           /\ \A q \in Procs \ {p} : req'[q] = req[q]
           /\ req'[p] \in Request /\ req'[p].at = l /\ req'[p].hash = req[p].hash /\ req'[p].todo = req[p].todo
           /\ req'[p].op = req[p].op /\ req'[p].life = req[p].life /\ req'[p].asked = req[p].asked
<1>1. req[p] \in Request /\ p \in DOMAIN req
    BY DEF TypeOK
<1>2. [req[p] EXCEPT !.at = l] \in Request
    BY <1>1 DEF Request
<1>3. req' = [req EXCEPT ![p] = [req[p] EXCEPT !.at = l]]
    BY DEF Goto
<1> QED BY <1>1, <1>2, <1>3 DEF TypeOK, Request, Goto

LEMMA ReturnShape ==
    ASSUME TypeOK, NEW p \in Procs, NEW a, Return(p, a)
    PROVE  /\ req' \in [Procs -> Request \cup {None}] /\ answer' = [to |-> p, is |-> a]
           /\ \A q \in Procs \ {p} : req'[q] = req[q]
           /\ req'[p] = None
    BY DEF TypeOK, Return

\* A list that is not empty is its head and its tail.
LEMMA HeadTail ==
    ASSUME NEW S, NEW s \in Seq(S), s # <<>>
    PROVE  Head(s) \in S /\ Tail(s) \in Seq(S) /\ Range(s) = {Head(s)} \cup Range(Tail(s))
<1>1. Head(s) \in S /\ Tail(s) \in Seq(S) /\ Len(Tail(s)) = Len(s) - 1 /\ Len(s) \in Nat \ {0}
    OBVIOUS
<1>2. \A i \in DOMAIN Tail(s) : Tail(s)[i] = s[i + 1] /\ i + 1 \in DOMAIN s
    BY <1>1
<1>3. \A i \in DOMAIN s \ {1} : i - 1 \in DOMAIN Tail(s) /\ Tail(s)[i - 1] = s[i]
    BY <1>1
<1>4. 1 \in DOMAIN s /\ Head(s) = s[1]
    BY <1>1
<1>5. Range(s) \subseteq {Head(s)} \cup Range(Tail(s))
    BY <1>3, <1>4 DEF Range
<1>6. {Head(s)} \cup Range(Tail(s)) \subseteq Range(s)
    BY <1>2, <1>4 DEF Range
<1> QED BY <1>1, <1>5, <1>6

\* A request that takes its next hash works on the head of its list and keeps the tail.
LEMMA TakeShape ==
    ASSUME TypeOK, NEW p \in Procs, Take(p)
    PROVE  /\ req' \in [Procs -> Request \cup {None}] /\ answer' = None /\ rows' = rows /\ gone' = gone
           /\ \A q \in Procs \ {p} : req'[q] = req[q]
           /\ req'[p] \in Request /\ req'[p].at \in {"find", "lookup"}
           /\ req'[p].hash = Head(req[p].todo) /\ req'[p].todo = Tail(req[p].todo) /\ req'[p].asked = req[p].asked
           /\ req'[p].op = req[p].op /\ (req'[p].at = "find" => req[p].op = "unblock")
           /\ req[p].todo # <<>> /\ req[p].todo \in Seq(Hashes) /\ Head(req[p].todo) \in Hashes
<1> DEFINE r == [req[p] EXCEPT !.hash = Head(req[p].todo), !.todo = Tail(@),
                               !.at = IF req[p].op = "unblock" THEN "find" ELSE "lookup"]
<1>1. req[p] \in Request /\ p \in DOMAIN req /\ req[p].todo # <<>> /\ req[p].todo \in Seq(Hashes)
    BY DEF Take, At, TypeOK, Request
<1>2. Head(req[p].todo) \in Hashes /\ Tail(req[p].todo) \in Seq(Hashes)
    BY <1>1, HeadTail
<1>3. /\ r \in Request /\ r.at \in {"find", "lookup"} /\ r.hash = Head(req[p].todo) /\ r.todo = Tail(req[p].todo)
      /\ r.asked = req[p].asked /\ r.op = req[p].op /\ (r.at = "find" => req[p].op = "unblock")
    BY <1>1, <1>2 DEF Request
<1>4. req' = [req EXCEPT ![p] = r]
    BY <1>1 DEF Take, TypeOK
<1>5. answer' = None /\ rows' = rows /\ gone' = gone
    BY DEF Take
<1> HIDE DEF r
<1>6. /\ req' \in [Procs -> Request \cup {None}] /\ req'[p] = r
      /\ \A q \in Procs \ {p} : req'[q] = req[q]
    BY <1>3, <1>4 DEF TypeOK
<1> QED BY <1>1, <1>2, <1>3, <1>5, <1>6

\* What one step does to the rows of each hash: it keeps them, removes them all, appends one, or
\* lets one lapse.
Kept(h) == rows'[h] = rows[h]
Emptied(h) == rows'[h] = <<>>
Grown(h, row) == rows'[h] = Append(rows[h], row)
Lapsed(h, i) == rows'[h] = [rows[h] EXCEPT ![i].life = "past"]

\* The two writes, on the rows of one hash.
LEMMA AppendRow ==
    ASSUME NEW s \in Seq(Row), NEW row \in Row
    PROVE  /\ Append(s, row) \in Seq(Row) /\ Len(Append(s, row)) = Len(s) + 1
           /\ DOMAIN Append(s, row) = DOMAIN s \cup {Len(s) + 1}
           /\ \A i \in DOMAIN s : Append(s, row)[i] = s[i]
           /\ Append(s, row)[Len(s) + 1] = row
           /\ Append(s, row) # <<>>
    OBVIOUS

LEMMA LapseRow ==
    ASSUME NEW s \in Seq(Row), NEW i \in DOMAIN s
    PROVE  LET t == [s EXCEPT ![i].life = "past"]
           IN  /\ t \in Seq(Row) /\ Len(t) = Len(s) /\ DOMAIN t = DOMAIN s
               /\ \A j \in DOMAIN s \ {i} : t[j] = s[j]
               /\ t[i].life = "past" /\ t[i].raced = s[i].raced
               /\ t # <<>>
<1>1. s[i] \in Row
    OBVIOUS
<1>2. [s[i] EXCEPT !.life = "past"] \in Row
    BY <1>1 DEF Row, Lives
<1> QED BY <1>1, <1>2 DEF Row

\* RemoveAll on the table.
LEMMA RemoveShape ==
    ASSUME TypeOK, NEW h \in Hashes, RemoveAll(h)
    PROVE  /\ rows' \in [Hashes -> Seq(Row)] /\ Emptied(h)
           /\ \A g \in Hashes \ {h} : Kept(g)
           /\ gone' \in [Procs -> SUBSET Hashes]
           /\ \A q \in Procs : gone[q] \subseteq gone'[q] /\ (req[q] # None /\ h \in req[q].asked => h \in gone'[q])
    BY DEF TypeOK, RemoveAll, Forget, Emptied, Kept

LEMMA InsertShape ==
    ASSUME TypeOK, NEW p \in Procs, At(p, "insert"), NEW h, h = req[p].hash, NEW b \in BOOLEAN,
           rows' = [rows EXCEPT ![h] = Append(@, [life |-> req[p].life, raced |-> b])]
    PROVE  /\ h \in Hashes /\ rows' \in [Hashes -> Seq(Row)]
           /\ [life |-> req[p].life, raced |-> b] \in Row
           /\ Grown(h, [life |-> req[p].life, raced |-> b])
           /\ \A g \in Hashes \ {h} : Kept(g)
<1>1. h \in Hashes /\ req[p].life \in Lives
    BY DEF TypeOK, At, Request
<1>2. [life |-> req[p].life, raced |-> b] \in Row
    BY <1>1 DEF Row
<1> QED BY <1>1, <1>2, AppendRow DEF TypeOK, Grown, Kept

LEMMA LapseShape ==
    ASSUME TypeOK, NEW h \in Hashes, NEW i \in DOMAIN rows[h], Lapse(h, i)
    PROVE  /\ rows' \in [Hashes -> Seq(Row)] /\ Lapsed(h, i)
           /\ \A g \in Hashes \ {h} : Kept(g)
<1>1. rows[h] \in Seq(Row)
    BY DEF TypeOK
<1>2. [rows[h] EXCEPT ![i].life = "past"] \in Seq(Row)
    BY <1>1, LapseRow
<1>3. rows' = [rows EXCEPT ![h] = [rows[h] EXCEPT ![i].life = "past"]]
    BY DEF Lapse
<1> QED BY <1>2, <1>3 DEF TypeOK, Lapsed, Kept

\* What a request is made of is a list of hashes that is not empty.
LEMMA BatchShape ==
    ASSUME NEW hs \in Batches
    PROVE  hs \in Seq(Hashes) /\ hs # <<>> /\ Range(hs) \subseteq Hashes
<1>1. PICK n \in 1 .. MaxBatch : hs \in [1 .. n -> Hashes]
    BY DEF Batches
<1>2. n \in Nat \ {0}
    BY BlockListAssumption
<1>3. 1 \in DOMAIN hs /\ DOMAIN hs = 1 .. n /\ Range(hs) \subseteq Hashes
    BY <1>1, <1>2 DEF Range
<1>4. hs \in Seq(Hashes)
    BY <1>1, <1>2
<1>5. hs # <<>>
    BY <1>3, <1>4
<1> QED BY <1>3, <1>4, <1>5

LEMMA StepTypes == TypeOK /\ [Next]_vars => TypeOK'
<1> SUFFICES ASSUME TypeOK, [Next]_vars PROVE TypeOK'
    OBVIOUS
<1> DEFINE Answers == {"free", "blocked", "kept", "unknown", "unblocked", "error"}
           Tables == rows \in [Hashes -> Seq(Row)] /\ gone \in [Procs -> SUBSET Hashes]
<1>1. ASSUME NEW p \in Procs, req[p] # None, Tables', NEW a \in Answers, Return(p, a)
      PROVE  TypeOK'
  <2>1. req' \in [Procs -> Request \cup {None}] /\ req'[p] = None /\ \A q \in Procs \ {p} : req'[q] = req[q]
      BY <1>1, ReturnShape
  <2>2. answer' \in [to : Procs, is : Answers]
      BY <1>1, ReturnShape
  <2> QED BY <1>1, <2>1, <2>2 DEF TypeOK
<1>2. ASSUME NEW p \in Procs, req[p] # None, req[p].at # "next", Tables',
             NEW l \in {"lookup", "sweep", "insert", "find", "delete"}, Goto(p, l)
      PROVE  TypeOK'
  <2>1. /\ req' \in [Procs -> Request \cup {None}] /\ answer' = None
        /\ \A q \in Procs \ {p} : req'[q] = req[q]
        /\ req'[p].at = l /\ req'[p].hash = req[p].hash /\ req'[p].todo = req[p].todo
      BY <1>2, GotoShape
  <2> QED BY <1>2, <2>1 DEF TypeOK
<1>3. ASSUME NEW p \in Procs, req[p] # None, req[p].at # "next", Tables',
             NEW a \in Answers, Proceed(p, a)
      PROVE  TypeOK'
  <2>1. CASE req[p].todo = <<>>
      BY <1>1, <1>3, <2>1 DEF Proceed
  <2>2. CASE req[p].todo # <<>>
    <3>1. /\ req' \in [Procs -> Request \cup {None}] /\ answer' = None
          /\ \A q \in Procs \ {p} : req'[q] = req[q]
          /\ req'[p].at = "next" /\ req'[p].todo = req[p].todo
        BY <1>3, <2>2, GotoShape DEF Proceed
    <3> QED BY <1>3, <2>2, <3>1 DEF TypeOK
  <2> QED BY <2>1, <2>2
<1>4. Tables
    BY DEF TypeOK
<1>5. ASSUME NEW p \in Procs, NEW o \in Ops, NEW hs \in Batches, NEW l \in Lives, Ask(p, o, hs, l)
      PROVE  TypeOK'
  <2> DEFINE r == [at |-> "next", op |-> o, life |-> l, hash |-> None, todo |-> hs, asked |-> Range(hs)]
  <2>1. hs \in Seq(Hashes) /\ hs # <<>> /\ Range(hs) \subseteq Hashes
      BY BatchShape
  <2>2. r \in Request /\ r.todo # <<>> /\ r.at = "next"
      BY <2>1 DEF Request
  <2>3. req' = [req EXCEPT ![p] = r]
      BY <1>5 DEF Ask
  <2> HIDE DEF r
  <2>4. rows' = rows /\ answer' = None /\ gone' = [gone EXCEPT ![p] = {}]
      BY <1>5 DEF Ask
  <2>5. gone' \in [Procs -> SUBSET Hashes]
      BY <2>4 DEF TypeOK
  <2>6. /\ req' \in [Procs -> Request \cup {None}] /\ req'[p] = r
        /\ \A q \in Procs \ {p} : req'[q] = req[q]
      BY <2>2, <2>3 DEF TypeOK
  <2> QED BY <2>2, <2>4, <2>5, <2>6 DEF TypeOK
<1>6. ASSUME NEW p \in Procs, Take(p) PROVE TypeOK'
    BY <1>6, TakeShape DEF TypeOK
<1>7. ASSUME NEW p \in Procs, Lookup(p) PROVE TypeOK'
  <2>1. req[p] # None /\ req[p].at = "lookup" /\ Tables'
      BY <1>4, <1>7 DEF Lookup, At
  <2>2. \/ Return(p, "free") \/ Goto(p, "insert") \/ Proceed(p, "blocked") \/ Goto(p, "sweep") \/ Return(p, "error")
      BY <1>7 DEF Lookup, Free
  <2> QED BY <1>1, <1>2, <1>3, <2>1, <2>2
<1>8. ASSUME NEW p \in Procs, Sweep(p) PROVE TypeOK'
  <2>1. req[p] # None /\ req[p].at = "sweep" /\ req[p].hash \in Hashes
      BY <1>8 DEF Sweep, At, TypeOK
  <2>2. Tables'
      BY <1>4, <1>8, <2>1, RemoveShape DEF Sweep
  <2>3. Return(p, "free") \/ Goto(p, "insert") \/ Return(p, "kept") \/ Return(p, "error")
      BY <1>8 DEF Sweep, Free
  <2> QED BY <1>1, <1>2, <2>1, <2>2, <2>3
<1>9. ASSUME NEW p \in Procs, Insert(p) PROVE TypeOK'
  <2>1. req[p] # None /\ req[p].at = "insert"
      BY <1>9 DEF Insert, At
  <2>2. Tables'
      BY <1>4, <1>9, <2>1, InsertShape DEF Insert, Write
  <2>3. Proceed(p, "blocked") \/ Return(p, "error")
      BY <1>9 DEF Insert
  <2> QED BY <1>1, <1>3, <2>1, <2>2, <2>3
<1>10. ASSUME NEW p \in Procs, Find(p) PROVE TypeOK'
  <2>1. req[p] # None /\ req[p].at = "find" /\ Tables'
      BY <1>4, <1>10 DEF Find, At
  <2>2. Return(p, "unknown") \/ Goto(p, "delete") \/ Return(p, "error")
      BY <1>10 DEF Find
  <2> QED BY <1>1, <1>2, <2>1, <2>2
<1>11. ASSUME NEW p \in Procs, Delete(p) PROVE TypeOK'
  <2>1. req[p] # None /\ req[p].at = "delete" /\ req[p].hash \in Hashes
      BY <1>11 DEF Delete, At, TypeOK
  <2>2. Tables'
      BY <1>4, <1>11, <2>1, RemoveShape DEF Delete
  <2>3. Return(p, "unblocked") \/ Return(p, "error")
      BY <1>11 DEF Delete
  <2> QED BY <1>1, <2>1, <2>2, <2>3
<1>12. ASSUME NEW h \in Hashes, NEW i \in DOMAIN rows[h], Lapse(h, i) PROVE TypeOK'
    BY <1>12, LapseShape DEF TypeOK, Lapse
<1>13. CASE UNCHANGED vars
    BY <1>13 DEF vars, TypeOK
<1> QED BY <1>5, <1>6, <1>7, <1>8, <1>9, <1>10, <1>11, <1>12, <1>13 DEF Next

\* The table and the requests keep their types, however long a batch is and however often it
\* names a hash, and a request that goes to its next hash has one.
THEOREM TypeCorrect == Spec => []TypeOK
    BY InitTypes, StepTypes, PTL DEF Spec

-----------------------------------------------------------------------------
(* What one step does to one hash. *)

\* Who works on hash h at the two places that the proofs follow.
Inserting(h) == Busy("insert", h)
Sweeping(h) == Busy("sweep", h)

Rests(h) == Kept(h) /\ Inserting(h)' \subseteq Inserting(h) /\ Sweeping(h)' \subseteq Sweeping(h)
FindsNone(h) == Kept(h) /\ rows[h] = <<>> /\ Sweeping(h)' \subseteq Sweeping(h)
FindsExpired(h) ==
    /\ Kept(h) /\ rows[h] # <<>> /\ First(h).life = "past" /\ Inserting(h)' \subseteq Inserting(h)
Removes(h) ==
    /\ Emptied(h) /\ Sweeping(h)' \subseteq Sweeping(h)
    /\ Sweeping(h) # {} \/ Busy("delete", h) # {}
Inserts(h) ==
    /\ \E row \in Row : Grown(h, row) /\ row.raced = (rows[h] # <<>> \/ Sweeping(h) # {})
    /\ Sweeping(h)' \subseteq Sweeping(h)
    /\ \E p \in Inserting(h) : Inserting(h)' \subseteq Inserting(h) \ {p}
Lapses(h) ==
    /\ \E i \in DOMAIN rows[h] : rows[h][i].life = "later" /\ Lapsed(h, i)
    /\ Inserting(h)' \subseteq Inserting(h) /\ Sweeping(h)' \subseteq Sweeping(h)

\* A request that moves on arrives where it goes and nowhere else; one that returns is nowhere.
LEMMA GotoBusy ==
    ASSUME TypeOK, NEW p \in Procs, req[p] # None,
           NEW l \in {"next", "lookup", "sweep", "insert", "find", "delete"}, Goto(p, l),
           NEW k \in {"insert", "sweep"}, NEW h \in Hashes
    PROVE  /\ Busy(k, h)' \subseteq Busy(k, h) \cup {p}
           /\ (l # k \/ req[p].hash # h) => Busy(k, h)' \subseteq Busy(k, h) \ {p}
    BY GotoShape DEF Busy, At

LEMMA ReturnBusy ==
    ASSUME TypeOK, NEW p \in Procs, NEW a, Return(p, a), NEW k, NEW h \in Hashes
    PROVE  Busy(k, h)' \subseteq Busy(k, h) \ {p}
    BY ReturnShape DEF Busy, At

LEMMA ProceedBusy ==
    ASSUME TypeOK, NEW p \in Procs, req[p] # None, NEW a, Proceed(p, a),
           NEW k \in {"insert", "sweep"}, NEW h \in Hashes
    PROVE  Busy(k, h)' \subseteq Busy(k, h) \ {p}
    BY GotoBusy, ReturnBusy DEF Proceed

LEMMA AskBusy ==
    ASSUME TypeOK, NEW p \in Procs, NEW o \in Ops, NEW hs \in Batches, NEW l \in Lives,
           Ask(p, o, hs, l), NEW h \in Hashes
    PROVE  Rests(h)
<1>1. /\ req'[p].at = "next" /\ \A q \in Procs \ {p} : req'[q] = req[q]
      /\ rows' = rows
    BY DEF Ask, TypeOK
<1> QED BY <1>1 DEF Rests, Kept, Inserting, Sweeping, Busy, At

LEMMA TakeBusy ==
    ASSUME TypeOK, NEW p \in Procs, Take(p), NEW h \in Hashes
    PROVE  Rests(h)
    BY TakeShape DEF Rests, Kept, Inserting, Sweeping, Busy, At

LEMMA LookupBusy ==
    ASSUME TypeOK, NEW p \in Procs, Lookup(p), NEW h \in Hashes
    PROVE  Rests(h) \/ FindsNone(h) \/ FindsExpired(h)
<1>1. req[p] # None /\ req[p].at = "lookup" /\ rows' = rows
    BY DEF Lookup, At
<1>2. ASSUME NEW a, Return(p, a) \/ Proceed(p, a) PROVE Rests(h)
    BY <1>1, <1>2, ReturnBusy, ProceedBusy DEF Rests, Kept, Inserting, Sweeping
<1>3. ASSUME NEW l \in {"insert", "sweep"}, Goto(p, l), req[p].hash # h PROVE Rests(h)
    BY <1>1, <1>3, GotoBusy DEF Rests, Kept, Inserting, Sweeping
<1>4. ASSUME Goto(p, "insert"), rows[h] = <<>> PROVE FindsNone(h)
    BY <1>1, <1>4, GotoBusy DEF FindsNone, Kept, Sweeping
<1>5. ASSUME Goto(p, "sweep"), rows[h] # <<>>, First(h).life = "past" PROVE FindsExpired(h)
    BY <1>1, <1>5, GotoBusy DEF FindsExpired, Kept, Inserting
<1>6. \/ \E a : Return(p, a) \/ Proceed(p, a)
      \/ Goto(p, "insert") /\ rows[req[p].hash] = <<>>
      \/ Goto(p, "sweep") /\ rows[req[p].hash] # <<>> /\ First(req[p].hash).life = "past"
    BY DEF Lookup, Free
<1> QED BY <1>2, <1>3, <1>4, <1>5, <1>6

LEMMA SweepBusy ==
    ASSUME TypeOK, NEW p \in Procs, Sweep(p), NEW h \in Hashes
    PROVE  Rests(h) \/ Removes(h)
<1>1. req[p] # None /\ req[p].at = "sweep" /\ req[p].hash \in Hashes
    BY DEF Sweep, At, TypeOK
<1>2. ASSUME NEW a, Return(p, a), Kept(h) PROVE Rests(h)
    BY <1>2, ReturnBusy DEF Rests, Inserting, Sweeping
<1>3. ASSUME NEW a, Return(p, a) \/ Goto(p, "insert"), RemoveAll(req[p].hash) PROVE Rests(h) \/ Removes(h)
  <2>1. Sweeping(h)' \subseteq Sweeping(h)
      BY <1>1, <1>3, ReturnBusy, GotoBusy DEF Sweeping
  <2>2. CASE req[p].hash = h
    <3>1. p \in Sweeping(h) /\ Emptied(h)
        BY <1>1, <1>3, <2>2, RemoveShape DEF Sweeping, Busy, At
    <3> QED BY <2>1, <3>1 DEF Removes
  <2>3. CASE req[p].hash # h
    <3>1. Kept(h) /\ Inserting(h)' \subseteq Inserting(h)
        BY <1>1, <1>3, <2>3, RemoveShape, ReturnBusy, GotoBusy DEF Inserting
    <3> QED BY <2>1, <3>1 DEF Rests
  <2> QED BY <2>2, <2>3
<1>4. \/ \E a : (Return(p, a) \/ Goto(p, "insert")) /\ RemoveAll(req[p].hash)
      \/ \E a : Return(p, a) /\ rows' = rows
    BY DEF Sweep, Free
<1> QED BY <1>2, <1>3, <1>4 DEF Kept

LEMMA InsertBusy ==
    ASSUME TypeOK, NEW p \in Procs, Insert(p), NEW h \in Hashes
    PROVE  Rests(h) \/ Inserts(h)
<1>1. req[p] # None /\ At(p, "insert") /\ req[p].hash \in Hashes
    BY DEF Insert, At, TypeOK
<1>2. ASSUME NEW a, Return(p, a) \/ Proceed(p, a), Kept(h) PROVE Rests(h)
    BY <1>1, <1>2, ReturnBusy, ProceedBusy DEF Rests, Inserting, Sweeping
<1> DEFINE g == req[p].hash
           b == rows[g] # <<>> \/ Busy("sweep", g) # {}
           new == [life |-> req[p].life, raced |-> b]
<1>3. ASSUME rows' = [rows EXCEPT ![g] = Append(@, new)], Proceed(p, "blocked")
      PROVE  Rests(h) \/ Inserts(h)
  <2>1. b \in BOOLEAN
      OBVIOUS
  <2>2. new \in Row /\ Grown(g, new) /\ \A f \in Hashes \ {g} : Kept(f)
      BY <1>1, <1>3, <2>1, InsertShape
  <2>3. CASE g = h
    <3>1. p \in Inserting(h) /\ Inserting(h)' \subseteq Inserting(h) \ {p} /\ Sweeping(h)' \subseteq Sweeping(h)
        BY <1>1, <1>3, <2>3, ProceedBusy DEF Inserting, Sweeping, Busy, At
    <3>2. new.raced = (rows[h] # <<>> \/ Sweeping(h) # {})
        BY <2>3 DEF Sweeping
    <3> HIDE DEF new
    <3> QED BY <2>2, <2>3, <3>1, <3>2 DEF Inserts
  <2>4. CASE g # h
      BY <1>2, <1>3, <2>2, <2>4
  <2> QED BY <2>3, <2>4
<1>4. \/ rows' = [rows EXCEPT ![g] = Append(@, new)] /\ Proceed(p, "blocked")
      \/ Return(p, "error") /\ rows' = rows
    BY DEF Insert, Write
<1> QED BY <1>2, <1>3, <1>4 DEF Kept

LEMMA FindBusy ==
    ASSUME TypeOK, NEW p \in Procs, Find(p), NEW h \in Hashes
    PROVE  Rests(h)
    BY ReturnBusy, GotoBusy DEF Find, At, Rests, Kept, Inserting, Sweeping

LEMMA DeleteBusy ==
    ASSUME TypeOK, NEW p \in Procs, Delete(p), NEW h \in Hashes
    PROVE  Rests(h) \/ Removes(h)
<1>1. req[p] # None /\ req[p].at = "delete" /\ req[p].hash \in Hashes
    BY DEF Delete, At, TypeOK
<1>2. PICK a : Return(p, a) /\ (RemoveAll(req[p].hash) \/ rows' = rows)
    BY DEF Delete
<1>3. Sweeping(h)' \subseteq Sweeping(h) /\ Inserting(h)' \subseteq Inserting(h)
    BY <1>2, ReturnBusy DEF Sweeping, Inserting
<1>4. CASE RemoveAll(req[p].hash) /\ req[p].hash = h
  <2>1. p \in Busy("delete", h) /\ Emptied(h)
      BY <1>1, <1>4, RemoveShape DEF Busy, At
  <2> QED BY <1>3, <2>1 DEF Removes
<1>5. CASE RemoveAll(req[p].hash) /\ req[p].hash # h
    BY <1>1, <1>3, <1>5, RemoveShape DEF Rests
<1> QED BY <1>2, <1>3, <1>4, <1>5 DEF Rests, Kept

LEMMA LapseBusy ==
    ASSUME TypeOK, NEW g \in Hashes, NEW i \in DOMAIN rows[g], Lapse(g, i), NEW h \in Hashes
    PROVE  Rests(h) \/ Lapses(h)
<1>1. Inserting(h)' = Inserting(h) /\ Sweeping(h)' = Sweeping(h)
    BY DEF Lapse, Inserting, Sweeping, Busy, At
<1>2. rows[g][i].life = "later" /\ Lapsed(g, i) /\ \A f \in Hashes \ {g} : Kept(f)
    BY LapseShape DEF Lapse
<1> QED BY <1>1, <1>2 DEF Rests, Lapses

LEMMA StepOnHash ==
    ASSUME TypeOK, [Next]_vars, NEW h \in Hashes
    PROVE  Rests(h) \/ FindsNone(h) \/ FindsExpired(h) \/ Removes(h) \/ Inserts(h) \/ Lapses(h)
<1>1. CASE UNCHANGED vars
    BY <1>1 DEF vars, Rests, Kept, Inserting, Sweeping, Busy, At
<1> QED BY <1>1, AskBusy, TakeBusy, LookupBusy, SweepBusy, InsertBusy, FindBusy, DeleteBusy, LapseBusy DEF Next

-----------------------------------------------------------------------------
(* Duplicates. *)

Bounded(h) == Len(rows[h]) + Cardinality(Inserting(h)) <= Cardinality(Procs)

\* Requests are finitely many, so those at one place can be counted.
LEMMA CountBusy ==
    ASSUME NEW S \in SUBSET Procs, NEW T \in SUBSET S
    PROVE  /\ Cardinality(S) \in Nat /\ Cardinality(T) \in Nat /\ Cardinality(T) <= Cardinality(S)
           /\ \A p \in S : T \subseteq S \ {p} => Cardinality(T) + 1 <= Cardinality(S)
<1>1. IsFiniteSet(S) /\ IsFiniteSet(T)
    BY BlockListAssumption, FS_Subset
<1>2. /\ Cardinality(S) \in Nat /\ Cardinality(T) \in Nat /\ Cardinality(T) <= Cardinality(S)
    BY <1>1, FS_Subset, FS_CardinalityType
<1>3. ASSUME NEW p \in S, T \subseteq S \ {p} PROVE Cardinality(T) + 1 <= Cardinality(S)
  <2>1. IsFiniteSet(S \ {p}) /\ Cardinality(S \ {p}) = Cardinality(S) - 1
      BY <1>1, FS_RemoveElement
  <2>2. Cardinality(T) <= Cardinality(S \ {p})
      BY <1>3, <2>1, FS_Subset
  <2> QED BY <1>2, <2>1, <2>2
<1> QED BY <1>2, <1>3

LEMMA InitBounded == Init => BoundedDuplicates
<1> SUFFICES ASSUME Init, NEW h \in Hashes PROVE Bounded(h)
    BY DEF BoundedDuplicates, Bounded, Inserting
<1>1. rows[h] = <<>> /\ Inserting(h) = {}
    BY DEF Init, Inserting, Busy, At
<1> QED BY <1>1, FS_EmptySet, CountBusy DEF Bounded

LEMMA StepBounded ==
    ASSUME TypeOK, [Next]_vars, NEW h \in Hashes, Bounded(h)
    PROVE  Bounded(h)'
<1> DEFINE B == Inserting(h)
           C == Inserting(h)'
<1>1. rows[h] \in Seq(Row) /\ B \in SUBSET Procs /\ C \in SUBSET Procs
    BY DEF TypeOK, Inserting, Busy
<1>2. Len(rows[h]) \in Nat
    BY <1>1
<1>3. ASSUME rows'[h] = <<>> PROVE Bounded(h)'
  <2>1. Cardinality(C) <= Cardinality(Procs) /\ Cardinality(C) \in Nat /\ Len(rows'[h]) = 0
      BY <1>1, <1>3, CountBusy
  <2> HIDE DEF C
  <2> QED BY <2>1 DEF Bounded, C
<1>4. ASSUME Len(rows'[h]) = Len(rows[h]), C \subseteq B PROVE Bounded(h)'
  <2>1. Cardinality(C) <= Cardinality(B) /\ Cardinality(C) \in Nat /\ Cardinality(B) \in Nat
        /\ Cardinality(Procs) \in Nat
      BY <1>1, <1>4, CountBusy
  <2> HIDE DEF B, C
  <2> QED BY <1>2, <1>4, <2>1 DEF Bounded, B, C
<1>5. ASSUME NEW p \in B, C \subseteq B \ {p}, Len(rows'[h]) = Len(rows[h]) + 1 PROVE Bounded(h)'
  <2>1. Cardinality(C) + 1 <= Cardinality(B) /\ Cardinality(C) \in Nat /\ Cardinality(B) \in Nat
        /\ Cardinality(Procs) \in Nat
      BY <1>1, <1>5, CountBusy
  <2> HIDE DEF B, C
  <2> QED BY <1>2, <1>5, <2>1 DEF Bounded, B, C
<1>6. CASE Rests(h) \/ FindsExpired(h)
    BY <1>4, <1>6 DEF Rests, FindsExpired, Kept
<1>7. CASE FindsNone(h) \/ Removes(h)
    BY <1>3, <1>7 DEF FindsNone, Removes, Kept, Emptied
<1>8. CASE Inserts(h)
    BY <1>1, <1>5, <1>8, AppendRow DEF Inserts, Grown
<1>9. CASE Lapses(h)
    BY <1>1, <1>4, <1>9, LapseRow DEF Lapses, Lapsed
<1> QED BY <1>6, <1>7, <1>8, <1>9, StepOnHash

\* A hash never has more rows than there are requests that can be under way at one time,
\* counting those that are about to insert one: the race of check and insert does not pile up.
THEOREM DuplicatesCorrect == Spec => []BoundedDuplicates
<1>1. TypeOK /\ BoundedDuplicates /\ [Next]_vars => BoundedDuplicates'
  <2> SUFFICES ASSUME TypeOK, BoundedDuplicates, [Next]_vars, NEW h \in Hashes PROVE Bounded(h)'
      BY DEF BoundedDuplicates, Bounded, Inserting
  <2>1. Bounded(h)
      BY DEF BoundedDuplicates, Bounded, Inserting
  <2> QED BY <2>1, StepBounded
<1> QED BY <1>1, InitBounded, TypeCorrect, PTL DEF Spec

-----------------------------------------------------------------------------
(* Permanent blocks. *)

\* A row that was written without a race is the first of its hash, and while a hash has a
\* permanent one of these, no request is about to sweep the hash.
Guarded(h) ==
    /\ \A i \in DOMAIN rows[h] : ~rows[h][i].raced => i = 1
    /\ Lone(h) # {} => Sweeping(h) = {}

PermanentInv == TypeOK /\ \A h \in Hashes : Guarded(h)

LEMMA StepGuarded ==
    ASSUME TypeOK, [Next]_vars, NEW h \in Hashes, Guarded(h)
    PROVE  /\ Guarded(h)'
           /\ Lone(h) # {} /\ Lone(h)' = {} => Busy("delete", h) # {}
<1>1. rows[h] \in Seq(Row)
    BY DEF TypeOK
<1>2. CASE Rests(h)
    BY <1>2 DEF Rests, Kept, Guarded, Lone
<1>3. CASE FindsNone(h)
    BY <1>3 DEF FindsNone, Kept, Guarded, Lone
<1>4. CASE FindsExpired(h)
  <2>1. Lone(h) = {}
    <3> SUFFICES ASSUME NEW i \in Lone(h) PROVE FALSE
        OBVIOUS
    <3>1. rows[h][i] = [life |-> "never", raced |-> FALSE] /\ i = 1
        BY DEF Lone, Guarded
    <3> QED BY <1>4, <3>1 DEF FindsExpired, First
  <2> QED BY <1>4, <2>1 DEF FindsExpired, Kept, Guarded, Lone
<1>5. CASE Removes(h)
    BY <1>5 DEF Removes, Emptied, Guarded, Lone
<1>6. CASE Inserts(h)
  <2>1. PICK row \in Row : Grown(h, row) /\ row.raced = (rows[h] # <<>> \/ Sweeping(h) # {})
      BY <1>6 DEF Inserts
  <2>2. /\ DOMAIN rows'[h] = DOMAIN rows[h] \cup {Len(rows[h]) + 1}
        /\ \A i \in DOMAIN rows[h] : rows'[h][i] = rows[h][i]
        /\ rows'[h][Len(rows[h]) + 1] = row
      BY <1>1, <2>1, AppendRow DEF Grown
  <2>3. Sweeping(h)' \subseteq Sweeping(h)
      BY <1>6 DEF Inserts
  <2>4. Lone(h) \subseteq Lone(h)'
      BY <2>2 DEF Lone
  <2>5. ~row.raced => rows[h] = <<>> /\ Sweeping(h) = {} /\ Len(rows[h]) + 1 = 1
    <3>1. ASSUME ~row.raced PROVE rows[h] = <<>> /\ Sweeping(h) = {}
        BY <2>1, <3>1, Zenon
    <3>2. rows[h] = <<>> => Len(rows[h]) + 1 = 1
        OBVIOUS
    <3> QED BY <3>1, <3>2
  <2>6. \A i \in DOMAIN rows'[h] : ~rows'[h][i].raced => i = 1
      BY <2>2, <2>5 DEF Guarded
  <2>7. Lone(h)' # {} => Sweeping(h) = {}
    <3> SUFFICES ASSUME NEW i \in Lone(h)' PROVE Sweeping(h) = {}
        OBVIOUS
    <3>1. i \in DOMAIN rows'[h] /\ rows'[h][i] = [life |-> "never", raced |-> FALSE]
        BY DEF Lone
    <3>2. CASE i \in DOMAIN rows[h]
        BY <2>2, <3>1, <3>2 DEF Lone, Guarded
    <3>3. CASE i = Len(rows[h]) + 1
        BY <2>2, <2>5, <3>1, <3>3
    <3> QED BY <2>2, <3>1, <3>2, <3>3
  <2> QED BY <2>3, <2>4, <2>6, <2>7 DEF Guarded
<1>7. CASE Lapses(h)
  <2>1. PICK i \in DOMAIN rows[h] : rows[h][i].life = "later" /\ Lapsed(h, i)
      BY <1>7 DEF Lapses
  <2>2. /\ DOMAIN rows'[h] = DOMAIN rows[h]
        /\ \A j \in DOMAIN rows[h] \ {i} : rows'[h][j] = rows[h][j]
        /\ rows'[h][i].life = "past" /\ rows'[h][i].raced = rows[h][i].raced
      BY <1>1, <2>1, LapseRow DEF Lapsed
  <2>3. Sweeping(h)' \subseteq Sweeping(h)
      BY <1>7 DEF Lapses
  <2>4. Lone(h)' = Lone(h)
      BY <2>1, <2>2 DEF Lone
  <2>5. \A j \in DOMAIN rows'[h] : ~rows'[h][j].raced => j = 1
      BY <2>2 DEF Guarded
  <2> QED BY <2>3, <2>4, <2>5 DEF Guarded
<1> QED BY <1>2, <1>3, <1>4, <1>5, <1>6, <1>7, StepOnHash

LEMMA InitGuarded == Init => PermanentInv
    BY InitTypes DEF Init, PermanentInv, Guarded, Lone

LEMMA StepPermanent ==
    PermanentInv /\ [Next]_vars =>
        /\ PermanentInv'
        /\ \A h \in Hashes : (Lone(h) # {} /\ Lone(h)' = {}) => Busy("delete", h) # {}
<1> SUFFICES ASSUME PermanentInv, [Next]_vars
             PROVE  /\ PermanentInv'
                    /\ \A h \in Hashes : (Lone(h) # {} /\ Lone(h)' = {}) => Busy("delete", h) # {}
    OBVIOUS
<1>1. TypeOK /\ TypeOK'
    BY StepTypes DEF PermanentInv
<1>2. ASSUME NEW h \in Hashes
      PROVE  Guarded(h)' /\ ((Lone(h) # {} /\ Lone(h)' = {}) => Busy("delete", h) # {})
    BY <1>1, <1>2, StepGuarded DEF PermanentInv
<1> QED BY <1>1, <1>2 DEF PermanentInv

\* A permanent block that was written while no other request had a row of its hash, or was about
\* to remove them, ends only in the step of a request that unblocks the hash.
THEOREM PermanentCorrect == Spec => PermanentLostOnlyInRace
<1>1. Spec => []PermanentInv
    BY InitGuarded, StepPermanent, PTL DEF Spec
<1>2. PermanentInv /\ [Next]_vars =>
         [\A h \in Hashes : (Lone(h) # {} /\ Lone(h)' = {}) => Busy("delete", h) # {}]_vars
    BY StepPermanent
<1> QED BY <1>1, <1>2, PTL DEF Spec, PermanentLostOnlyInRace

-----------------------------------------------------------------------------
(* Answers. *)

\* A check never gets to the steps that write for somebody else.
Checks == \A p \in Procs :
    (req[p] # None /\ req[p].op = "check") => req[p].at \in {"next", "lookup", "sweep"}

AnswerInv == TypeOK /\ Checks

\* What p answers when it ends a check, and that nobody else's step ends it.
Answered(p) ==
    LET h == req[p].hash
    IN  /\ answer'.is = "free" => rows'[h] = <<>>
        /\ answer'.is = "blocked" => \E i \in DOMAIN rows'[h] : rows'[h][i].life # "past"

Ends(p) == req[p] # None /\ req[p].op = "check" /\ req'[p] = None

LEMMA InitAnswer == Init => AnswerInv
    BY InitTypes DEF Init, AnswerInv, Checks

LEMMA GotoChecks ==
    ASSUME AnswerInv, NEW p \in Procs, req[p] # None,
           NEW l \in {"next", "lookup", "sweep", "insert", "find", "delete"}, Goto(p, l),
           l \in {"insert", "find", "delete"} => req[p].op # "check"
    PROVE  Checks' /\ \A q \in Procs : ~Ends(q)
<1>1. TypeOK
    BY DEF AnswerInv
<1>2. /\ \A q \in Procs \ {p} : req'[q] = req[q]
      /\ req'[p] \in Request /\ req'[p].at = l /\ req'[p].op = req[p].op
    BY <1>1, GotoShape
<1>3. req'[p] # None
    BY <1>2, BlockListAssumption
<1> QED BY <1>2, <1>3 DEF AnswerInv, Checks, Ends

LEMMA ReturnChecks ==
    ASSUME AnswerInv, NEW p \in Procs, NEW a, Return(p, a)
    PROVE  Checks' /\ answer'.is = a /\ \A q \in Procs \ {p} : ~Ends(q)
    BY ReturnShape DEF AnswerInv, Checks, Ends

LEMMA ProceedChecks ==
    ASSUME AnswerInv, NEW p \in Procs, req[p] # None, NEW a, Proceed(p, a)
    PROVE  Checks' /\ \A q \in Procs : Ends(q) => q = p /\ answer'.is = a
    BY GotoChecks, ReturnChecks DEF Proceed

LEMMA StepAnswer ==
    ASSUME AnswerInv, [Next]_vars
    PROVE  Checks' /\ \A q \in Procs : Ends(q) => Answered(q)
<1> DEFINE Goal == Checks' /\ \A q \in Procs : Ends(q) => Answered(q)
<1>1. TypeOK /\ Checks
    BY DEF AnswerInv
<1>2. ASSUME NEW p \in Procs, NEW o \in Ops, NEW hs \in Batches, NEW l \in Lives, Ask(p, o, hs, l)
      PROVE  Goal
  <2>1. /\ req[p] = None /\ req'[p].at = "next" /\ \A q \in Procs \ {p} : req'[q] = req[q]
      BY <1>1, <1>2 DEF Ask, TypeOK
  <2> QED BY <1>1, <2>1 DEF Checks, Ends
<1>3. ASSUME NEW p \in Procs, Take(p) PROVE Goal
  <2>1. /\ req[p] # None /\ req[p].op \in Ops /\ req[p] \in Request
        /\ \A q \in Procs \ {p} : req'[q] = req[q]
        /\ req'[p] \in Request /\ req'[p].at \in {"find", "lookup"} /\ req'[p].op = req[p].op
        /\ (req'[p].at = "find" => req[p].op = "unblock")
    <3>1. req[p] # None /\ req[p] \in Request
        BY <1>1, <1>3 DEF Take, At, TypeOK
    <3> QED BY <1>1, <1>3, <3>1, TakeShape DEF Request
  <2>2. req'[p] # None
      BY <2>1, BlockListAssumption
  <2> QED BY <1>1, <2>1, <2>2 DEF Checks, Ends
<1>4. ASSUME NEW p \in Procs, Lookup(p) PROVE Goal
  <2> DEFINE h == req[p].hash
  <2>1. req[p] # None /\ req[p].at = "lookup" /\ rows' = rows /\ rows[h] \in Seq(Row)
      BY <1>1, <1>4 DEF Lookup, At, TypeOK
  <2>2. ASSUME rows[h] = <<>>, Return(p, "free") PROVE Goal
      BY <2>1, <2>2, ReturnChecks DEF Answered
  <2>3. ASSUME rows[h] = <<>>, req[p].op # "check", Goto(p, "insert") PROVE Goal
      BY <2>1, <2>3, GotoChecks
  <2>4. ASSUME rows[h] # <<>>, First(h).life # "past", Proceed(p, "blocked") PROVE Goal
    <3>1. 1 \in DOMAIN rows'[h] /\ rows'[h][1].life # "past"
        BY <2>1, <2>4 DEF First
    <3> QED BY <2>1, <2>4, <3>1, ProceedChecks DEF Answered
  <2>5. ASSUME Goto(p, "sweep") PROVE Goal
      BY <2>1, <2>5, GotoChecks
  <2>6. ASSUME Return(p, "error") PROVE Goal
      BY <2>6, ReturnChecks DEF Answered
  <2> QED BY <1>4, <2>2, <2>3, <2>4, <2>5, <2>6 DEF Lookup, Free
<1>5. ASSUME NEW p \in Procs, Sweep(p) PROVE Goal
  <2>1. req[p] # None /\ req[p].at = "sweep" /\ req[p].hash \in Hashes
      BY <1>1, <1>5 DEF Sweep, At, TypeOK
  <2>2. ASSUME RemoveAll(req[p].hash), Return(p, "free") PROVE Goal
      BY <1>1, <2>1, <2>2, RemoveShape, ReturnChecks DEF Answered, Emptied
  <2>3. ASSUME req[p].op # "check", Goto(p, "insert") PROVE Goal
      BY <2>1, <2>3, GotoChecks
  <2>4. ASSUME NEW a \in {"kept", "error"}, Return(p, a) PROVE Goal
      BY <2>4, ReturnChecks DEF Answered
  <2> QED BY <1>5, <2>2, <2>3, <2>4 DEF Sweep, Free
<1>6. ASSUME NEW p \in Procs, Insert(p) \/ Find(p) \/ Delete(p) PROVE Goal
  <2>1. req[p] # None /\ req[p].op # "check"
      BY <1>1, <1>6 DEF Insert, Find, Delete, At, Checks
  <2>2. ~Ends(p)
      BY <2>1 DEF Ends
  <2>3. ASSUME NEW a, Proceed(p, a) \/ Return(p, a) PROVE Goal
      BY <2>1, <2>2, <2>3, ProceedChecks, ReturnChecks
  <2>4. ASSUME Goto(p, "delete") PROVE Goal
      BY <2>1, <2>4, GotoChecks
  <2> QED BY <1>6, <2>3, <2>4 DEF Insert, Find, Delete
<1>7. ASSUME req' = req PROVE Goal
    BY <1>1, <1>7 DEF Checks, Ends
<1> QED BY <1>2, <1>3, <1>4, <1>5, <1>6, <1>7 DEF Next, Lapse, vars

\* A check that answers "free" leaves the hash without a row, and one that answers "blocked"
\* leaves it with a block in force, whatever happened between its calls.
THEOREM AnswersCorrect == Spec => AnswersMatchTable
<1>1. AnswerInv /\ [Next]_vars => AnswerInv'
    BY StepTypes, StepAnswer DEF AnswerInv
<1>2. Spec => []AnswerInv
    BY <1>1, InitAnswer, PTL DEF Spec
<1>3. AnswerInv /\ [Next]_vars => \A q \in Procs : Ends(q) => Answered(q)
    BY StepAnswer
<1>4. (\A q \in Procs : Ends(q) => Answered(q)) =>
        [\A p \in Procs : (req[p] # None /\ req[p].op = "check" /\ req'[p] = None) =>
            LET h == req[p].hash
            IN  /\ answer'.is = "free" => rows'[h] = <<>>
                /\ answer'.is = "blocked" => \E i \in DOMAIN rows'[h] : rows'[h][i].life # "past"]_vars
    BY DEF Ends, Answered
<1> QED BY <1>2, <1>3, <1>4, PTL DEF Spec, AnswersMatchTable

-----------------------------------------------------------------------------
(* Batches. *)

\* The hashes of request r that it has not done with yet.
Left(r) == Range(r.todo) \cup (IF r.at = "next" THEN {} ELSE {r.hash})

\* What p has done with has a row, or had one that was removed.
Settled(p, h) == rows[h] # <<>> \/ h \in gone[p]
Blocks(p) == \A h \in req[p].asked : h \in Left(req[p]) \/ Settled(p, h)

BatchInv == TypeOK /\ \A p \in Procs : (req[p] # None /\ req[p].op = "block") => Blocks(p)

LEMMA InitBatch == Init => BatchInv
    BY InitTypes DEF Init, BatchInv

\* What is settled stays so as long as the request lasts.
LEMMA StaysSettled ==
    ASSUME TypeOK, [Next]_vars, NEW q \in Procs, req[q] # None, NEW h \in req[q].asked, Settled(q, h)
    PROVE  Settled(q, h)'
<1>1. h \in Hashes /\ rows[h] \in Seq(Row) /\ gone \in [Procs -> SUBSET Hashes]
    BY DEF TypeOK, Request
<1>2. ASSUME rows' = rows, gone' = gone PROVE Settled(q, h)'
    BY <1>2 DEF Settled
<1>3. ASSUME NEW g \in Hashes, RemoveAll(g) PROVE Settled(q, h)'
  <2>1. Emptied(g) /\ \A f \in Hashes \ {g} : Kept(f)
      BY <1>3, RemoveShape
  <2>2. gone[q] \subseteq gone'[q] /\ (g \in req[q].asked => g \in gone'[q])
      BY <1>3, RemoveShape
  <2>3. CASE h = g
      BY <2>2, <2>3 DEF Settled
  <2>4. CASE h # g
    <3>1. rows'[h] = rows[h]
        BY <1>1, <2>1, <2>4 DEF Kept
    <3> QED BY <2>2, <3>1 DEF Settled
  <2> QED BY <2>3, <2>4
<1>4. ASSUME NEW p \in Procs, NEW o \in Ops, NEW hs \in Batches, NEW l \in Lives, Ask(p, o, hs, l)
      PROVE  Settled(q, h)'
  <2>1. p # q /\ rows' = rows /\ gone' = [gone EXCEPT ![p] = {}]
      BY <1>4 DEF Ask
  <2>2. gone'[q] = gone[q]
      BY <1>1, <2>1
  <2> QED BY <2>1, <2>2 DEF Settled
<1>5. ASSUME NEW p \in Procs, Insert(p) PROVE Settled(q, h)'
  <2>1. At(p, "insert") /\ req[p].hash \in Hashes
      BY <1>5 DEF Insert, At, TypeOK
  <2>2. CASE Write(p)
    <3>1. Rests(h) \/ Inserts(h)
        BY <1>1, <1>5, InsertBusy
    <3>2. rows[h] # <<>> => rows'[h] # <<>>
        BY <1>1, <3>1, AppendRow DEF Rests, Kept, Inserts, Grown
    <3>3. CASE h = req[p].hash
      <4>1. rows'[h] = Append(rows[h], [life |-> req[p].life, raced |-> rows[h] # <<>> \/ Busy("sweep", h) # {}])
          BY <1>1, <2>2, <3>3 DEF Write, TypeOK
      <4> QED BY <1>1, <4>1 DEF Settled
    <3>4. CASE h # req[p].hash
      <4>1. h \in gone[q] => h \in gone'[q]
          BY <1>1, <2>2, <3>4 DEF Write
      <4> QED BY <3>2, <4>1 DEF Settled
    <3> QED BY <3>3, <3>4
  <2>3. CASE rows' = rows /\ gone' = gone
      BY <1>2, <2>3
  <2> QED BY <1>5, <2>2, <2>3 DEF Insert
<1>6. ASSUME NEW g \in Hashes, NEW i \in DOMAIN rows[g], Lapse(g, i) PROVE Settled(q, h)'
  <2>1. gone' = gone /\ (h # g => rows'[h] = rows[h])
      BY <1>1, <1>6, LapseShape DEF Lapse, Kept
  <2>2. h = g => rows'[h] # <<>>
    <3>1. rows[g] \in Seq(Row) /\ Lapsed(g, i)
        BY <1>6, LapseShape DEF TypeOK
    <3> QED BY <3>1, LapseRow DEF Lapsed
  <2> QED BY <2>1, <2>2 DEF Settled
<1>7. ASSUME NEW p \in Procs, Sweep(p) \/ Delete(p) PROVE Settled(q, h)'
  <2>1. req[p].hash \in Hashes
      BY <1>7 DEF Sweep, Delete, At, TypeOK
  <2>2. RemoveAll(req[p].hash) \/ (rows' = rows /\ gone' = gone)
      BY <1>7 DEF Sweep, Delete
  <2> QED BY <1>2, <1>3, <2>1, <2>2
<1>8. ASSUME NEW p \in Procs, Take(p) \/ Lookup(p) \/ Find(p) PROVE Settled(q, h)'
    BY <1>2, <1>8 DEF Take, Lookup, Find
<1>9. CASE UNCHANGED vars
    BY <1>2, <1>9 DEF vars
<1> QED BY <1>4, <1>5, <1>6, <1>7, <1>8, <1>9 DEF Next

\* What a batch that ends with success leaves behind.
Succeeds(p) ==
    req[p] # None /\ req[p].op = "block" /\ req'[p] = None /\ answer'.is = "blocked"
AllBlocked(p) == \A h \in req[p].asked : rows'[h] # <<>> \/ h \in gone'[p]

\* The request that takes a step keeps the invariant, when it goes on with the same hash, when
\* it has settled that hash, and when it gives up.
LEMMA GotoBlocks ==
    ASSUME BatchInv, [Next]_vars, NEW p \in Procs, req[p] # None, req[p].at # "next",
           NEW l \in {"lookup", "sweep", "insert", "find", "delete"}, Goto(p, l)
    PROVE  (req'[p].op = "block" => Blocks(p)') /\ ~Succeeds(p)
<1>1. TypeOK
    BY DEF BatchInv
<1>2. /\ req'[p] \in Request /\ req'[p].at = l /\ req'[p].hash = req[p].hash /\ req'[p].todo = req[p].todo
      /\ req'[p].op = req[p].op /\ req'[p].asked = req[p].asked
    BY <1>1, GotoShape
<1>3. req'[p] # None
    BY <1>2, BlockListAssumption
<1>4. Left(req'[p]) = Left(req[p])
    BY <1>2 DEF Left
<1>5. ASSUME req'[p].op = "block", NEW h \in req'[p].asked PROVE h \in Left(req'[p]) \/ Settled(p, h)'
  <2>1. h \in req[p].asked /\ (h \in Left(req[p]) \/ Settled(p, h))
      BY <1>2, <1>5 DEF BatchInv, Blocks
  <2> QED BY <1>1, <1>4, <2>1, StaysSettled
<1> QED BY <1>3, <1>5 DEF Blocks, Succeeds

LEMMA ProceedBlocks ==
    ASSUME BatchInv, [Next]_vars, NEW p \in Procs, req[p] # None, req[p].at # "next",
           NEW a, Proceed(p, a), NEW g, g = req[p].hash, Settled(p, g)'
    PROVE  /\ (req'[p] # None /\ req'[p].op = "block") => Blocks(p)'
           /\ Succeeds(p) => AllBlocked(p)
<1>1. TypeOK
    BY DEF BatchInv
<1>2. ASSUME req[p].op = "block", NEW h \in req[p].asked
      PROVE  h \in Range(req[p].todo) \/ Settled(p, h)'
  <2>1. h \in Left(req[p]) \/ Settled(p, h)
      BY <1>2 DEF BatchInv, Blocks
  <2> QED BY <1>1, <2>1, StaysSettled DEF Left
<1>3. CASE req[p].todo = <<>>
  <2>1. req'[p] = None /\ Range(req[p].todo) = {}
      BY <1>1, <1>3, ReturnShape DEF Proceed, Range
  <2> QED BY <1>2, <2>1 DEF AllBlocked, Succeeds, Settled
<1>4. CASE req[p].todo # <<>>
  <2>1. /\ req'[p] \in Request /\ req'[p].at = "next" /\ req'[p].todo = req[p].todo
        /\ req'[p].op = req[p].op /\ req'[p].asked = req[p].asked
      BY <1>1, <1>4, GotoShape DEF Proceed
  <2>2. req'[p] # None
      BY <2>1, BlockListAssumption
  <2>3. Left(req'[p]) = Range(req[p].todo)
      BY <2>1 DEF Left
  <2> QED BY <1>2, <2>1, <2>2, <2>3 DEF Blocks, Succeeds
<1> QED BY <1>3, <1>4

LEMMA StepBatch ==
    ASSUME BatchInv, [Next]_vars, NEW q \in Procs
    PROVE  /\ (req'[q] # None /\ req'[q].op = "block") => Blocks(q)'
           /\ Succeeds(q) => AllBlocked(q)
<1> DEFINE Goal == /\ (req'[q] # None /\ req'[q].op = "block") => Blocks(q)'
                   /\ Succeeds(q) => AllBlocked(q)
<1>1. TypeOK
    BY DEF BatchInv
<1>2. ASSUME req'[q] = req[q] PROVE Goal
  <2>1. ASSUME req[q] # None, req[q].op = "block", NEW h \in req[q].asked
        PROVE  h \in Left(req[q]) \/ Settled(q, h)'
    <3>1. h \in Left(req[q]) \/ Settled(q, h)
        BY <2>1 DEF BatchInv, Blocks
    <3> QED BY <1>1, <2>1, <3>1, StaysSettled
  <2> QED BY <1>2, <2>1 DEF Blocks, Succeeds
<1>3. ASSUME NEW a, a # "blocked", Return(q, a) PROVE Goal
  <2>1. req'[q] = None /\ answer'.is # "blocked"
      BY <1>1, <1>3, ReturnShape
  <2> QED BY <2>1 DEF Succeeds
<1>4. ASSUME NEW o \in Ops, NEW hs \in Batches, NEW l \in Lives, Ask(q, o, hs, l) PROVE Goal
  <2>1. req[q] = None /\ req'[q].at = "next" /\ req'[q].todo = hs /\ req'[q].asked = Range(hs)
      BY <1>1, <1>4 DEF Ask, TypeOK
  <2> QED BY <2>1 DEF Blocks, Left, Succeeds
<1>5. ASSUME Take(q) PROVE Goal
  <2>1. /\ req[q] # None /\ req[q].at = "next" /\ req'[q] \in Request /\ req'[q].at \in {"find", "lookup"}
        /\ req'[q].hash = Head(req[q].todo) /\ req'[q].todo = Tail(req[q].todo)
        /\ req'[q].asked = req[q].asked /\ req'[q].op = req[q].op
        /\ req[q].todo # <<>> /\ req[q].todo \in Seq(Hashes)
      BY <1>1, <1>5, TakeShape DEF Take, At
  <2>2. Left(req'[q]) = Left(req[q])
    <3>1. Left(req[q]) = Range(req[q].todo)
        BY <2>1 DEF Left
    <3>2. Left(req'[q]) = Range(Tail(req[q].todo)) \cup {Head(req[q].todo)}
        BY <2>1 DEF Left
    <3> QED BY <2>1, <3>1, <3>2, HeadTail
  <2>3. req'[q] # None
      BY <2>1, BlockListAssumption
  <2>4. ASSUME req[q].op = "block", NEW h \in req[q].asked PROVE h \in Left(req[q]) \/ Settled(q, h)'
    <3>1. h \in Left(req[q]) \/ Settled(q, h)
        BY <2>1, <2>4 DEF BatchInv, Blocks
    <3> QED BY <1>1, <2>1, <3>1, StaysSettled
  <2> QED BY <2>1, <2>2, <2>3, <2>4 DEF Blocks, Succeeds
<1>6. ASSUME Lookup(q) PROVE Goal
  <2>1. req[q] # None /\ req[q].at = "lookup" /\ rows' = rows
      BY <1>6 DEF Lookup, At
  <2>2. ASSUME rows[req[q].hash] # <<>>, Proceed(q, "blocked") PROVE Goal
    <3>1. PICK g : g = req[q].hash
        OBVIOUS
    <3>2. Settled(q, g)'
        BY <2>1, <2>2, <3>1 DEF Settled
    <3> QED BY <2>1, <2>2, <3>1, <3>2, ProceedBlocks
  <2>3. ASSUME NEW l \in {"sweep", "insert"}, Goto(q, l) PROVE Goal
      BY <2>1, <2>3, GotoBlocks, GotoShape, <1>1
  <2> QED BY <1>3, <1>6, <2>2, <2>3 DEF Lookup, Free
<1>7. ASSUME Sweep(q) PROVE Goal
  <2>1. req[q] # None /\ req[q].at = "sweep"
      BY <1>7 DEF Sweep, At
  <2>2. ASSUME Goto(q, "insert") PROVE Goal
      BY <2>1, <2>2, GotoBlocks
  <2>3. Return(q, "free") \/ Goto(q, "insert") \/ Return(q, "kept") \/ Return(q, "error")
      BY <1>7 DEF Sweep, Free
  <2> QED BY <1>3, <2>2, <2>3
<1>8. ASSUME Insert(q) PROVE Goal
  <2>1. req[q] # None /\ At(q, "insert") /\ req[q].at = "insert" /\ req[q].hash \in Hashes
      BY <1>1, <1>8 DEF Insert, At, TypeOK
  <2>2. ASSUME Write(q), Proceed(q, "blocked") PROVE Goal
    <3> PICK h : h = req[q].hash
        OBVIOUS
    <3>1. rows[h] \in Seq(Row) /\ (rows[h] # <<>> \/ Busy("sweep", h) # {}) \in BOOLEAN
        BY <1>1, <2>1 DEF TypeOK
    <3>2. \E row \in Row : Grown(h, row)
        BY <1>1, <2>1, <2>2, <3>1, InsertShape DEF Write
    <3>3. rows'[h] # <<>>
        BY <3>1, <3>2, AppendRow DEF Grown
    <3>4. Settled(q, h)'
        BY <2>1, <3>3 DEF Settled
    <3> QED BY <2>1, <2>2, <3>4, ProceedBlocks
  <2> QED BY <1>3, <1>8, <2>2 DEF Insert
<1>9. ASSUME Find(q) \/ Delete(q) PROVE Goal
  <2>1. req[q] # None /\ req[q].at # "next"
      BY <1>9 DEF Find, Delete, At
  <2>2. ASSUME Goto(q, "delete") PROVE Goal
      BY <2>1, <2>2, GotoBlocks
  <2> QED BY <1>3, <1>9, <2>2 DEF Find, Delete
<1>10. ASSUME NEW p \in Procs \ {q},
              \/ \E o \in Ops, hs \in Batches, l \in Lives : Ask(p, o, hs, l)
              \/ Take(p) \/ Lookup(p) \/ Sweep(p) \/ Insert(p) \/ Find(p) \/ Delete(p)
       PROVE  Goal
  <2>1. req'[q] = req[q]
    <3>1. CASE \E l : Goto(p, l)
        BY <1>1, <1>10, <3>1 DEF Goto, TypeOK
    <3>2. CASE \E a : Return(p, a)
        BY <1>1, <1>10, <3>2 DEF Return, TypeOK
    <3>3. CASE Take(p)
        BY <1>1, <1>10, <3>3, TakeShape
    <3>4. CASE \E o \in Ops, hs \in Batches, l \in Lives : Ask(p, o, hs, l)
        BY <1>1, <1>10, <3>4 DEF Ask, TypeOK
    <3>5. (Lookup(p) \/ Sweep(p) \/ Insert(p) \/ Find(p) \/ Delete(p)) =>
             (\E l : Goto(p, l)) \/ (\E a : Return(p, a))
        BY DEF Lookup, Sweep, Insert, Find, Delete, Free, Proceed
    <3> QED BY <1>10, <3>1, <3>2, <3>3, <3>4, <3>5
  <2> QED BY <1>2, <2>1
<1>11. ASSUME req' = req PROVE Goal
    BY <1>2, <1>11
<1> QED BY <1>4, <1>5, <1>6, <1>7, <1>8, <1>9, <1>10, <1>11 DEF Next, Lapse, vars

\* A batch that answers with success has a row for every one of its hashes, however often it
\* names one, save those that another request removed while the batch was under way.
THEOREM BatchCorrect == Spec => BatchBlocksAll
<1>1. BatchInv /\ [Next]_vars => BatchInv'
    BY StepTypes, StepBatch DEF BatchInv
<1>2. Spec => []BatchInv
    BY <1>1, InitBatch, PTL DEF Spec
<1>3. BatchInv /\ [Next]_vars =>
        [\A p \in Procs :
            (req[p] # None /\ req[p].op = "block" /\ req'[p] = None /\ answer'.is = "blocked") =>
               \A h \in req[p].asked : rows'[h] # <<>> \/ h \in gone'[p]]_vars
    BY StepBatch DEF Succeeds, AllBlocked
<1> QED BY <1>2, <1>3, PTL DEF Spec, BatchBlocksAll

-----------------------------------------------------------------------------
(* The refinement of BlockRegister. *)

\* The state of the register, as ActsAsRegister maps it.
Mapped(h) == IF rows[h] = <<>> THEN "open" ELSE rows[h][1].life
RegisterState == [h \in Hashes |-> Mapped(h)]

\* One step touches the rows of one hash.
LEMMA OneHash ==
    ASSUME TypeOK, [Next]_vars
    PROVE  \/ \A h \in Hashes : Kept(h)
           \/ \E h \in Hashes : \A g \in Hashes \ {h} : Kept(g)
<1>1. ASSUME rows' = rows PROVE \A h \in Hashes : Kept(h)
    BY <1>1 DEF Kept
<1>2. ASSUME NEW p \in Procs, Sweep(p) \/ Delete(p), ~(rows' = rows)
      PROVE  \E h \in Hashes : \A g \in Hashes \ {h} : Kept(g)
  <2>1. req[p].hash \in Hashes /\ RemoveAll(req[p].hash)
      BY <1>2 DEF Sweep, Delete, At, TypeOK
  <2> QED BY <2>1, RemoveShape
<1>3. ASSUME NEW p \in Procs, Insert(p), ~(rows' = rows)
      PROVE  \E h \in Hashes : \A g \in Hashes \ {h} : Kept(g)
  <2>1. req[p].hash \in Hashes
      BY <1>3 DEF Insert, At, TypeOK
  <2>2. \A g \in Hashes \ {req[p].hash} : Kept(g)
      BY <1>3, <2>1 DEF Insert, Write, TypeOK, Kept
  <2> QED BY <2>1, <2>2
<1>4. ASSUME NEW g \in Hashes, NEW i \in DOMAIN rows[g], Lapse(g, i)
      PROVE  \E h \in Hashes : \A f \in Hashes \ {h} : Kept(f)
    BY <1>4, LapseShape
<1>5. ASSUME NEW p \in Procs, Take(p) \/ Lookup(p) \/ Find(p) PROVE rows' = rows
    BY <1>5 DEF Take, Lookup, Find
<1> QED BY <1>1, <1>2, <1>3, <1>4, <1>5 DEF Next, Ask, vars

\* Each change of the rows of a hash is a step of its register, or none.
LEMMA StepOfHash ==
    ASSUME TypeOK, [Next]_vars, NEW h \in Hashes
    PROVE  \/ Mapped(h)' = Mapped(h)
           \/ Mapped(h) = "open" /\ Mapped(h)' \in Lives
           \/ Mapped(h) = "later" /\ Mapped(h)' = "past"
           \/ Mapped(h) # "open" /\ Mapped(h)' = "open"
<1>1. rows[h] \in Seq(Row)
    BY DEF TypeOK
<1>2. CASE Rests(h) \/ FindsNone(h) \/ FindsExpired(h)
    BY <1>2 DEF Rests, FindsNone, FindsExpired, Kept, Mapped
<1>3. CASE Removes(h)
  <2>1. Mapped(h)' = "open"
      BY <1>3 DEF Removes, Emptied, Mapped
  <2> QED BY <2>1
<1>4. CASE Inserts(h)
  <2>1. PICK row \in Row : Grown(h, row)
      BY <1>4 DEF Inserts
  <2>2. /\ DOMAIN rows'[h] = DOMAIN rows[h] \cup {Len(rows[h]) + 1}
        /\ \A i \in DOMAIN rows[h] : rows'[h][i] = rows[h][i]
        /\ rows'[h][Len(rows[h]) + 1] = row /\ rows'[h] # <<>>
      BY <1>1, <2>1, AppendRow DEF Grown
  <2>3. CASE rows[h] = <<>>
    <3>1. Len(rows[h]) + 1 = 1
        BY <2>3
    <3> QED BY <2>2, <2>3, <3>1 DEF Mapped, Row
  <2>4. CASE rows[h] # <<>>
    <3>1. 1 \in DOMAIN rows[h]
        BY <1>1, <2>4
    <3> QED BY <2>2, <2>4, <3>1 DEF Mapped
  <2> QED BY <2>3, <2>4
<1>5. CASE Lapses(h)
  <2>1. PICK i \in DOMAIN rows[h] : rows[h][i].life = "later" /\ Lapsed(h, i)
      BY <1>5 DEF Lapses
  <2>2. /\ rows'[h] # <<>> /\ rows[h] # <<>> /\ 1 \in DOMAIN rows[h]
        /\ \A j \in DOMAIN rows[h] \ {i} : rows'[h][j] = rows[h][j]
        /\ rows'[h][i].life = "past"
      BY <1>1, <2>1, LapseRow DEF Lapsed
  <2> QED BY <2>1, <2>2 DEF Mapped
<1> QED BY <1>2, <1>3, <1>4, <1>5, StepOnHash

LEMMA StepOfRegister == TypeOK /\ [Next]_vars => [Register!Next]_RegisterState
<1> SUFFICES ASSUME TypeOK, [Next]_vars, ~(RegisterState' = RegisterState) PROVE Register!Next
    OBVIOUS
<1>1. PICK h \in Hashes : \A g \in Hashes \ {h} : Kept(g)
  <2>1. (\A g \in Hashes : Kept(g)) => RegisterState' = RegisterState
      BY DEF Kept, Mapped, RegisterState
  <2> QED BY <2>1, OneHash
<1>2. \A g \in Hashes \ {h} : Mapped(g)' = Mapped(g)
    BY <1>1 DEF Kept, Mapped
<1>3. Mapped(h)' # Mapped(h)
    BY <1>2 DEF RegisterState
<1>4. RegisterState' = [RegisterState EXCEPT ![h] = Mapped(h)']
    BY <1>2 DEF RegisterState
<1>5. RegisterState[h] = Mapped(h)
    BY DEF RegisterState
<1>6. CASE Mapped(h) = "open" /\ Mapped(h)' \in Lives
  <2>1. PICK life \in Lives : life = Mapped(h)'
      BY <1>6
  <2>2. Register!Block(h, life)
      BY <1>4, <1>5, <1>6, <2>1 DEF Register!Block, RegisterState, Mapped
  <2>3. life \in Register!States \ {"open"}
      BY <2>1 DEF Lives, Register!States
  <2> QED BY <2>2, <2>3 DEF Register!Next
<1>7. CASE Mapped(h) = "later" /\ Mapped(h)' = "past"
  <2>1. Register!Lapse(h)
      BY <1>4, <1>5, <1>7 DEF Register!Lapse, RegisterState, Mapped
  <2> QED BY <2>1 DEF Register!Next
<1>8. CASE Mapped(h) # "open" /\ Mapped(h)' = "open"
  <2>1. Register!Clear(h)
      BY <1>4, <1>5, <1>8 DEF Register!Clear, RegisterState, Mapped
  <2> QED BY <2>1 DEF Register!Next
<1> QED BY <1>3, <1>6, <1>7, <1>8, StepOfHash

\* The block list as coded implements one register per hash, whatever the number of its rows and
\* of the requests that work on it.
THEOREM ActsAsRegisterCorrect == Spec => ActsAsRegister
<1>1. Init => Register!Init
    BY DEF Init, Register!Init
<1>2. TypeOK /\ [Next]_vars => [Register!Next]_RegisterState
    BY StepOfRegister
<1> QED BY <1>1, <1>2, TypeCorrect, PTL DEF Spec, ActsAsRegister, Register!Spec, RegisterState, Mapped
=============================================================================
