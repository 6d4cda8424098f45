--------------------------- MODULE ReadersProofs ---------------------------
(***************************************************************************)
(* Proofs about components that read: that the type which Triage gives a   *)
(* mail does not depend on the order of a map, by how much the figures of  *)
(* Analytics may contradict each other, and that Providers detects one of  *)
(* the smallest number, for every dictionary, range, number of cases and   *)
(* changes, and registry.                                                  *)
(***************************************************************************)
EXTENDS Triage, Analytics, Providers, FiniteSetTheorems, WellFoundedInduction, TLAPS

-----------------------------------------------------------------------------
(* Sums.  A fold over a finite set is a function on its subsets, which     *)
(* takes one element after the other out of them.                          *)

LEMMA Least ==
    ASSUME NEW T, T \subseteq Nat, T # {}
    PROVE  \E x \in T : \A y \in T : x <= y
<1>1. PICK x \in T : \A y \in T : <<y, x>> \notin OpToRel(<, Nat)
    BY WFMin, NatLessThanWellFounded, Zenon
<1>2. \A y \in T : ~(y < x)
    BY <1>1, Zenon DEF OpToRel
<1> QED BY <1>2

\* Of the subsets that are bad one has no bad subset with one element less.
LEMMA SmallestSet ==
    ASSUME NEW S, IsFiniteSet(S), NEW B, B \subseteq SUBSET S, B # {}
    PROVE  \E s \in B : \A x \in s : s \ {x} \notin B
<1> DEFINE sizes == {Cardinality(s) : s \in B}
<1>1. \A s \in B : IsFiniteSet(s) /\ Cardinality(s) \in Nat
    BY FS_Subset, FS_CardinalityType
<1>2. PICK k \in sizes : \A l \in sizes : k <= l
  <2>1. sizes \subseteq Nat /\ sizes # {}
      BY <1>1
  <2> HIDE DEF sizes
  <2> QED BY <2>1, Least
<1>3. PICK s \in B : Cardinality(s) = k
    BY <1>2
<1>4. ASSUME NEW x \in s, s \ {x} \in B PROVE FALSE
  <2>1. Cardinality(s \ {x}) = k - 1 /\ k \in Nat
      BY <1>1, <1>3, FS_RemoveElement
  <2>2. k <= Cardinality(s \ {x})
      BY <1>2, <1>4
  <2> QED BY <2>1, <2>2
<1> QED BY <1>4

\* The sum of g over a subset s, if h gives it for those with one element less: pick[s] is taken out.
Plus(g, pick, h, s) == IF s = {} THEN 0 ELSE g[pick[s]] + h[s \ {pick[s]}]

Sums(S, g, pick, h) == h = [s \in SUBSET S |-> Plus(g, pick, h, s)]

\* There is such a function.
LEMMA SumsExist ==
    ASSUME NEW S, IsFiniteSet(S), NEW g, NEW pick, \A s \in SUBSET S : s # {} => pick[s] \in s
    PROVE  \E h : Sums(S, g, pick, h)
<1> DEFINE Small(k) == {s \in SUBSET S : Cardinality(s) <= k}
           Known(k) == \E h : h = [s \in Small(k) |-> Plus(g, pick, h, s)]
           Bad == {k \in Nat : ~Known(k)}
<1>1. \A s \in SUBSET S : IsFiniteSet(s) /\ Cardinality(s) \in Nat /\ Cardinality(s) <= Cardinality(S)
    BY FS_Subset, FS_CardinalityType
<1>2. Bad = {}
  <2>1. SUFFICES ASSUME Bad # {} PROVE FALSE
      OBVIOUS
  <2>2. PICK k \in Bad : \A l \in Bad : k <= l
      BY <2>1, Least
  <2>3. k \in Nat /\ ~Known(k)
      BY <2>2
  <2>4. CASE k = 0
    <3>1. PICK h : h = [s \in Small(k) |-> 0]
        OBVIOUS
    <3>2. \A s \in Small(k) : s = {}
        BY <1>1, <2>4, FS_EmptySet
    <3>3. \A s \in Small(k) : Plus(g, pick, h, s) = 0
        BY <3>2 DEF Plus
    <3>4. h = [s \in Small(k) |-> Plus(g, pick, h, s)]
        BY <3>1, <3>3
    <3> QED BY <2>3, <3>4
  <2>5. CASE k # 0
    <3>1. k - 1 \in Nat /\ k - 1 \notin Bad
      <4>1. k - 1 \in Nat /\ ~(k <= k - 1)
          BY <2>3, <2>5
      <4> HIDE DEF Bad
      <4> QED BY <2>2, <4>1
    <3>2. PICK h : h = [s \in Small(k - 1) |-> Plus(g, pick, h, s)]
        BY <3>1
    <3>3. PICK e : e = [s \in Small(k) |-> Plus(g, pick, h, s)]
        OBVIOUS
    <3>4. ASSUME NEW s \in Small(k - 1) PROVE e[s] = h[s]
      <4>1. s \in Small(k)
          BY <1>1, <2>3
      <4>2. e[s] = Plus(g, pick, h, s)
          BY <3>3, <4>1
      <4>3. h[s] = Plus(g, pick, h, s)
          BY <3>2
      <4> QED BY <4>2, <4>3
    <3>5. ASSUME NEW s \in Small(k) PROVE Plus(g, pick, e, s) = Plus(g, pick, h, s)
      <4>1. CASE s = {}
          BY <4>1 DEF Plus
      <4>2. CASE s # {}
        <5>1. IsFiniteSet(s) /\ Cardinality(s) \in Nat /\ Cardinality(s) <= k /\ pick[s] \in s
            BY <1>1, <4>2
        <5>2. Cardinality(s \ {pick[s]}) = Cardinality(s) - 1
            BY <5>1, FS_RemoveElement
        <5>3. s \ {pick[s]} \in Small(k - 1)
            BY <2>3, <5>1, <5>2
        <5>4. e[s \ {pick[s]}] = h[s \ {pick[s]}]
            BY <3>4, <5>3
        <5> QED BY <4>2, <5>4 DEF Plus
      <4> QED BY <4>1, <4>2
    <3>6. e = [s \in Small(k) |-> Plus(g, pick, e, s)]
        BY <3>3, <3>5
    <3> QED BY <2>3, <3>6
  <2> QED BY <2>4, <2>5
<1>3. Cardinality(S) \in Nat
    BY FS_CardinalityType
<1>4. Known(Cardinality(S))
    BY <1>2, <1>3
<1>5. Small(Cardinality(S)) = SUBSET S
    BY <1>1
<1> QED BY <1>4, <1>5 DEF Sums

\* A sum of naturals is a natural, and that of nothings is nothing.
LEMMA SumsType ==
    ASSUME NEW S, IsFiniteSet(S), NEW g \in [S -> Nat], NEW pick, \A s \in SUBSET S : s # {} => pick[s] \in s,
           NEW h, Sums(S, g, pick, h)
    PROVE  /\ h[S] \in Nat
           /\ (\A x \in S : g[x] = 0) => h[S] = 0
<1> DEFINE Bad == {s \in SUBSET S : ~(h[s] \in Nat /\ ((\A x \in S : g[x] = 0) => h[s] = 0))}
<1>1. SUFFICES ASSUME Bad # {} PROVE FALSE
    OBVIOUS
<1>2. PICK s \in Bad : \A x \in s : s \ {x} \notin Bad
    BY <1>1, SmallestSet
<1>3. s \in SUBSET S /\ h[s] = Plus(g, pick, h, s)
    BY <1>2 DEF Sums
<1>4. CASE s = {}
    BY <1>2, <1>3, <1>4 DEF Plus
<1>5. CASE s # {}
  <2>1. PICK x : x = pick[s]
      OBVIOUS
  <2>2. x \in s /\ x \in S /\ s \ {x} \in SUBSET S
      BY <1>3, <1>5, <2>1
  <2>3. h[s \ {x}] \in Nat /\ ((\A y \in S : g[y] = 0) => h[s \ {x}] = 0)
      BY <1>2, <2>2
  <2>4. h[s] = g[x] + h[s \ {x}] /\ g[x] \in Nat
      BY <1>3, <1>5, <2>1, <2>2 DEF Plus
  <2>5. h[s] \in Nat /\ ((\A y \in S : g[y] = 0) => h[s] = 0)
      BY <2>2, <2>3, <2>4
  <2> QED BY <1>2, <2>5
<1> QED BY <1>4, <1>5

\* The rows of each key add up to the rows.
LEMMA SumsParts ==
    ASSUME NEW S, IsFiniteSet(S), NEW W, IsFiniteSet(W), NEW key \in [W -> S],
           NEW g, g = [x \in S |-> Cardinality({w \in W : key[w] = x})],
           NEW pick, \A s \in SUBSET S : s # {} => pick[s] \in s, NEW h, Sums(S, g, pick, h)
    PROVE  h[S] = Cardinality(W)
<1> DEFINE Of(s) == {w \in W : key[w] \in s}
           Bad == {s \in SUBSET S : h[s] # Cardinality(Of(s))}
<1>1. \A s : IsFiniteSet(Of(s)) /\ Cardinality(Of(s)) \in Nat
    BY FS_Subset, FS_CardinalityType
<1>2. Bad = {}
  <2>1. SUFFICES ASSUME Bad # {} PROVE FALSE
      OBVIOUS
  <2>2. PICK s \in Bad : \A x \in s : s \ {x} \notin Bad
      BY <2>1, SmallestSet
  <2>3. s \in SUBSET S /\ h[s] = Plus(g, pick, h, s) /\ h[s] # Cardinality(Of(s))
      BY <2>2 DEF Sums
  <2>4. CASE s = {}
    <3>1. Of(s) = {}
        BY <2>4
    <3> QED BY <2>3, <2>4, <3>1, FS_EmptySet DEF Plus
  <2>5. CASE s # {}
    <3>1. PICK x : x = pick[s]
        OBVIOUS
    <3>2. x \in s /\ x \in S /\ s \ {x} \in SUBSET S
        BY <2>3, <2>5, <3>1
    <3>3. h[s \ {x}] = Cardinality(Of(s \ {x}))
        BY <2>2, <3>2
    <3>4. h[s] = g[x] + h[s \ {x}]
        BY <2>3, <2>5, <3>1 DEF Plus
    <3>5. g[x] = Cardinality(Of({x}))
      <4>1. Of({x}) = {w \in W : key[w] = x}
          OBVIOUS
      <4> QED BY <3>2, <4>1
    <3>6. Of(s) = Of({x}) \cup Of(s \ {x}) /\ Of({x}) \cap Of(s \ {x}) = {}
        BY <3>2
    <3>7. Cardinality(Of(s)) = Cardinality(Of({x})) + Cardinality(Of(s \ {x}))
      <4>1. PICK a, b, c : a = Of({x}) /\ b = Of(s \ {x}) /\ c = Of(s)
          OBVIOUS
      <4>2. /\ IsFiniteSet(a) /\ IsFiniteSet(b) /\ Cardinality(a) \in Nat /\ Cardinality(b) \in Nat
            /\ c = a \cup b /\ a \cap b = {}
          BY <1>1, <3>6, <4>1
      <4>3. Cardinality(a \cup b) = Cardinality(a) + Cardinality(b) - Cardinality(a \cap b)
          BY <4>2, FS_Union
      <4>4. Cardinality(a \cap b) = 0
          BY <4>2, FS_EmptySet
      <4>5. Cardinality(c) = Cardinality(a) + Cardinality(b)
          BY <4>2, <4>3, <4>4
      <4> QED BY <4>1, <4>5
    <3> QED BY <2>3, <3>3, <3>4, <3>5, <3>7
  <2> QED BY <2>4, <2>5
<1>3. Of(S) = W
    OBVIOUS
<1> QED BY <1>2, <1>3

\* The element that the folds of the library take out.
Picked(S) == [s \in SUBSET S |-> CHOOSE x \in s : TRUE]

LEMMA PickedIsIn ==
    ASSUME NEW S
    PROVE  \A s \in SUBSET S : s # {} => Picked(S)[s] \in s
BY DEF Picked

\* Sum is such a sum.
LEMMA SumIsSum ==
    ASSUME NEW S, IsFiniteSet(S), NEW g, DOMAIN g = S
    PROVE  \E h : Sums(S, g, Picked(S), h) /\ Sum(g) = h[S]
<1> DEFINE h == CHOOSE h : h = [s \in SUBSET S |->
                        IF s = {} THEN 0 ELSE g[CHOOSE x \in s : TRUE] + h[s \ {CHOOSE x \in s : TRUE}]]
           Body(e) == [s \in SUBSET S |->
                        IF s = {} THEN 0 ELSE g[CHOOSE x \in s : TRUE] + e[s \ {CHOOSE x \in s : TRUE}]]
<1>1. Sum(g) = h[S]
    BY Zenon DEF Sum, FoldFunction, FoldFunctionOnSet, MapThenFoldSet
<1>2. ASSUME NEW e PROVE Sums(S, g, Picked(S), e) <=> e = Body(e)
  <2>1. \A s \in SUBSET S : Plus(g, Picked(S), e, s) =
                IF s = {} THEN 0 ELSE g[CHOOSE x \in s : TRUE] + e[s \ {CHOOSE x \in s : TRUE}]
      BY DEF Plus, Picked
  <2>2. [s \in SUBSET S |-> Plus(g, Picked(S), e, s)] = Body(e)
      BY <2>1
  <2> QED BY <2>2 DEF Sums
<1>3. PICK e : Sums(S, g, Picked(S), e)
    BY SumsExist, PickedIsIn
<1>4. e = Body(e)
    BY <1>2, <1>3, ZenonT(40)
<1>5. h = Body(h)
  <2>1. \E f : f = [s \in SUBSET S |->
                        IF s = {} THEN 0 ELSE g[CHOOSE x \in s : TRUE] + f[s \ {CHOOSE x \in s : TRUE}]]
      BY <1>4
  <2> QED BY <2>1, Zenon
<1> HIDE DEF h
<1>6. Sums(S, g, Picked(S), h)
    BY <1>2, <1>5
<1> QED BY <1>1, <1>6

-----------------------------------------------------------------------------
(* Triage. *)

\* A mail has as many points as its words weigh, which is a natural.
LEMMA PointsType ==
    ASSUME NEW t \in Scored, NEW m \in Mails
    PROVE  Points(t, Content(m)) \in Nat
<1> DEFINE words == Content(m)
           S == Places(words)
           g == [i \in S |-> Weight[t][words[i]]]
           h == CHOOSE h : h = [s \in SUBSET S |-> IF s = {} THEN 0
                        ELSE Weight[t][words[CHOOSE x \in s : TRUE]] + h[s \ {CHOOSE x \in s : TRUE}]]
           Body(e) == [s \in SUBSET S |-> IF s = {} THEN 0
                        ELSE Weight[t][words[CHOOSE x \in s : TRUE]] + e[s \ {CHOOSE x \in s : TRUE}]]
<1>1. words \in Seq(Words)
    BY TriageAssumption DEF Content
<1> HIDE DEF words
<1>2. S \subseteq DOMAIN words
    BY DEF Places
<1>3. IsFiniteSet(S)
  <2>1. DOMAIN words = 1..Len(words) /\ Len(words) \in Nat
      BY <1>1
  <2>2. IsFiniteSet(DOMAIN words)
      BY <2>1, FS_Interval
  <2> QED BY <1>2, <2>2, FS_Subset
<1>4. Points(t, words) = h[S]
    BY Zenon DEF Points, MapThenSumSet, MapThenFoldSet
<1> HIDE DEF S
<1>5. g \in [S -> Nat]
  <2>1. ASSUME NEW i \in S PROVE Weight[t][words[i]] \in Nat
    <3>1. words[i] \in Words
        BY <1>1, <1>2
    <3> QED BY <3>1, TriageAssumption
  <2> QED BY <2>1
<1>6. ASSUME NEW e PROVE Sums(S, g, Picked(S), e) <=> e = Body(e)
  <2>1. \A s \in SUBSET S : Plus(g, Picked(S), e, s) = IF s = {} THEN 0
                ELSE Weight[t][words[CHOOSE x \in s : TRUE]] + e[s \ {CHOOSE x \in s : TRUE}]
      BY DEF Plus, Picked
  <2>2. [s \in SUBSET S |-> Plus(g, Picked(S), e, s)] = Body(e)
      BY <2>1
  <2> QED BY <2>2 DEF Sums
<1>7. PICK e : Sums(S, g, Picked(S), e)
    BY <1>3, SumsExist, PickedIsIn
<1>8. e = Body(e)
    BY <1>6, <1>7
<1>9. h = Body(h)
    BY <1>8, Zenon
<1> HIDE DEF h, g
<1>10. Sums(S, g, Picked(S), h)
    BY <1>6, <1>9
<1>11. h[S] \in Nat
    BY <1>3, <1>5, <1>10, SumsType, PickedIsIn
<1> QED BY <1>4, <1>11 DEF words

\* Nothing is of low priority.
LEMMA NothingIsLow ==
    ASSUME scores \in [Scored -> Nat], \A t \in Scored : scores[t] = 0
    PROVE  Priority = "low"
<1> DEFINE Body(e) == [s \in SUBSET Scored |-> IF s = {} THEN 0
                        ELSE scores[CHOOSE x \in s : TRUE] + e[s \ {CHOOSE x \in s : TRUE}]]
           h == CHOOSE h : h = [s \in SUBSET Scored |-> IF s = {} THEN 0
                        ELSE scores[CHOOSE x \in s : TRUE] + h[s \ {CHOOSE x \in s : TRUE}]]
<1>1. MapThenSumSet(LAMBDA t : scores[t], Scored) = h[Scored]
    BY Zenon DEF MapThenSumSet, MapThenFoldSet
<1>2. IsFiniteSet(Scored)
  <2>1. Scored \subseteq 0..100
      BY DEF Scored, Types, Other
  <2>2. 0 \in Int /\ 100 \in Int
      OBVIOUS
  <2>3. IsFiniteSet(0..100)
      BY <2>2, FS_Interval, Zenon
  <2> QED BY <2>1, <2>3, FS_Subset
<1>3. ASSUME NEW e PROVE Sums(Scored, scores, Picked(Scored), e) <=> e = Body(e)
  <2>1. \A s \in SUBSET Scored : Plus(scores, Picked(Scored), e, s) = IF s = {} THEN 0
                ELSE scores[CHOOSE x \in s : TRUE] + e[s \ {CHOOSE x \in s : TRUE}]
      BY DEF Plus, Picked
  <2>2. [s \in SUBSET Scored |-> Plus(scores, Picked(Scored), e, s)] = Body(e)
      BY <2>1
  <2> QED BY <2>2 DEF Sums
<1>4. PICK e : Sums(Scored, scores, Picked(Scored), e)
    BY <1>2, SumsExist, PickedIsIn
<1>5. e = Body(e)
    BY <1>3, <1>4
<1>6. h = Body(h)
    BY <1>5, ZenonT(40)
<1> HIDE DEF h
<1>7. Sums(Scored, scores, Picked(Scored), h)
    BY <1>3, <1>6
<1>8. h[Scored] = 0
    BY <1>2, <1>7, SumsType, PickedIsIn
<1>9. MapThenSumSet(LAMBDA t : scores[t], Scored) = 0
    BY <1>1, <1>8
<1> QED BY <1>9 DEF Priority

\* The type found so far is above every type that was visited, and is "other" only with no score.
TopInv ==
    /\ stage \in {"idle", "types", "done"} /\ left \subseteq Scored /\ scores \in [Scored -> Nat]
    /\ top.score \in Nat
    /\ \/ top.type = Other /\ top.score = 0
       \/ top.type \in Scored /\ top.score = scores[top.type]
    /\ stage = "idle" => top.type = Other /\ top.score = 0
    /\ stage # "idle" =>
          \A t \in Scored \ left :
              scores[t] < top.score \/ (scores[t] = top.score /\ t <= top.type)

TriageInv == TopInv /\ TypeIsOrderFree

LEMMA ScoredTypes ==
    /\ Scored = {100, 90, 80, 70, 60, 50, 30} /\ Scored \subseteq Nat /\ Other = 10
    /\ Scored \ Violations = {30}
BY DEF Scored, Types, Other, Violations

LEMMA InitTriage == ASSUME TriageInit PROVE TriageInv
<1>1. stage = "idle" /\ left = {} /\ scores \in [Scored -> Nat] /\ top.type = Other /\ top.score = 0
    BY DEF TriageInit, Zero
<1> QED BY <1>1 DEF TriageInv, TopInv, TypeIsOrderFree

LEMMA StepScore == ASSUME TriageInv, Score PROVE TriageInv'
<1>1. /\ stage = "idle" /\ stage' = "types" /\ read' \in Mails /\ left' = Scored /\ top' = top
      /\ scores' = [t \in Scored |-> Points(t, Content(read'))]
    BY DEF Score
<1>2. top.type = Other /\ top.score = 0
    BY <1>1 DEF TriageInv, TopInv
<1>3. \A t \in Scored : Points(t, Content(read')) \in Nat
    BY <1>1, PointsType
<1>4. scores' \in [Scored -> Nat]
    BY <1>1, <1>3
<1>5. TopInv'
    BY <1>1, <1>2, <1>4 DEF TopInv
<1> QED BY <1>1, <1>5 DEF TriageInv, TypeIsOrderFree

LEMMA StepVisit == ASSUME TriageInv, Visit PROVE TriageInv'
<1>1. PICK t \in left : /\ left' = left \ {t}
                         /\ top' = IF Higher(t) THEN [type |-> t, score |-> scores[t]] ELSE top
    BY DEF Visit
<1>2. stage = "types" /\ UNCHANGED <<stage, scores>> /\ TopInv
    BY DEF Visit, TriageInv
<1>3. t \in Scored /\ scores[t] \in Nat /\ top.score \in Nat /\ top.type \in Nat
    BY <1>2, ScoredTypes DEF TopInv
<1>4. \A u \in Scored : scores[u] \in Nat /\ u \in Nat
    BY <1>2, ScoredTypes DEF TopInv
<1>5. CASE Higher(t)
  <2>1. top'.type = t /\ top'.score = scores[t]
      BY <1>1, <1>5
  <2>2. ASSUME NEW u \in Scored \ left'
        PROVE  scores[u] < scores[t] \/ (scores[u] = scores[t] /\ u <= t)
    <3>1. u = t \/ u \in Scored \ left
        BY <1>1, <2>2
    <3>2. CASE u = t
        BY <1>3, <1>4, <3>2
    <3>3. CASE u \in Scored \ left
      <4>1. scores[u] < top.score \/ (scores[u] = top.score /\ u <= top.type)
          BY <1>2, <3>3 DEF TopInv
      <4>2. scores[t] > top.score \/ (scores[t] = top.score /\ t > top.type)
          BY <1>5 DEF Higher
      <4>3. scores[u] \in Nat /\ u \in Nat /\ t \in Nat
          BY <1>3, <1>4, <2>2
      <4> QED BY <1>3, <4>1, <4>2, <4>3
    <3> QED BY <3>1, <3>2, <3>3
  <2>3. TopInv'
      BY <1>1, <1>2, <1>3, <2>1, <2>2 DEF TopInv
  <2> QED BY <1>2, <2>3 DEF TriageInv, TypeIsOrderFree
<1>6. CASE ~Higher(t)
  <2>1. top' = top
      BY <1>1, <1>6
  <2>2. scores[t] < top.score \/ (scores[t] = top.score /\ t <= top.type)
      BY <1>3, <1>4, <1>6 DEF Higher
  <2>3. \A u \in Scored \ left' : scores[u] < top.score \/ (scores[u] = top.score /\ u <= top.type)
      BY <1>1, <1>2, <2>2 DEF TopInv
  <2>4. TopInv'
      BY <1>1, <1>2, <2>1, <2>3 DEF TopInv
  <2> QED BY <1>2, <2>4 DEF TriageInv, TypeIsOrderFree
<1> QED BY <1>5, <1>6

LEMMA StepDecide == ASSUME TriageInv, Decide PROVE TriageInv'
<1>1. /\ stage = "types" /\ left = {} /\ stage' = "done" /\ UNCHANGED <<scores, left, top>>
      /\ verdict' = [type |-> top.type, priority |-> Priority, review |-> NeedsReview(top.type, Priority)]
    BY DEF Decide
<1>2. TopInv
    BY DEF TriageInv
<1>3. \A t \in Scored : scores[t] \in Nat /\ (scores[t] < top.score \/ (scores[t] = top.score /\ t <= top.type))
    BY <1>1, <1>2 DEF TopInv
<1>4. top.type \in Scored /\ top.score = scores[top.type]
    BY <1>2, <1>3, ScoredTypes DEF TopInv
<1>5. PICK p : p = Priority
    OBVIOUS
<1>6. verdict'.type = top.type /\ verdict'.priority = p /\ verdict'.review = NeedsReview(top.type, p)
    BY <1>1, <1>5
<1>7. (\A t \in Scored : scores[t] = 0) => top.type = 100 /\ p = "low"
  <2>1. SUFFICES ASSUME \A t \in Scored : scores[t] = 0 PROVE top.type = 100 /\ p = "low"
      OBVIOUS
  <2>2. top.type = 100
      BY <1>3, <1>4, <2>1, ScoredTypes
  <2>3. p = "low"
      BY <1>2, <1>5, <2>1, NothingIsLow DEF TopInv
  <2> QED BY <2>2, <2>3
<1>8. ~NeedsReview(top.type, p) => top.type = 30 /\ p # "high"
    BY <1>4, ScoredTypes DEF NeedsReview
<1>9. TypeIsOrderFree'
    BY <1>1, <1>3, <1>4, <1>6, <1>7, <1>8 DEF TypeIsOrderFree
<1>10. TopInv'
    BY <1>1, <1>2 DEF TopInv
<1> QED BY <1>9, <1>10 DEF TriageInv

\* Whatever the order in which the map of the scores is visited, a mail gets the most urgent of
\* the types with the highest score, never "other", and without any score "illegal or harmful
\* content" of low priority; one that nobody looks at is spam of at most medium priority
\* (determineHighestCaseType, DeterminePriority, NeedsReview).
THEOREM TypeCorrect == TriageSpec => []TypeIsOrderFree
<1>1. TriageInit => TriageInv
    BY InitTriage
<1>2. TriageInv /\ [TriageNext]_triage => TriageInv'
  <2> SUFFICES ASSUME TriageInv, [TriageNext]_triage PROVE TriageInv'
      OBVIOUS
  <2>1. CASE UNCHANGED triage
      BY <2>1 DEF triage, TriageInv, TopInv, TypeIsOrderFree
  <2> QED BY <2>1, StepScore, StepVisit, StepDecide DEF TriageNext
<1>3. TriageInv => TypeIsOrderFree
    BY DEF TriageInv
<1> QED BY <1>1, <1>2, <1>3, PTL DEF TriageSpec

-----------------------------------------------------------------------------
(* Analytics. *)

LEMMA SumType ==
    ASSUME NEW S, IsFiniteSet(S), NEW g \in [S -> Nat]
    PROVE  Sum(g) \in Nat
<1>1. PICK h : Sums(S, g, Picked(S), h) /\ Sum(g) = h[S]
    BY SumIsSum
<1> QED BY <1>1, SumsType, PickedIsIn

\* The numbers of the rows of each key add up to the number of rows.
LEMMA SumParts ==
    ASSUME NEW S, IsFiniteSet(S), NEW W, IsFiniteSet(W), NEW key \in [W -> S],
           NEW g, g = [x \in S |-> Cardinality({w \in W : key[w] = x})]
    PROVE  Sum(g) = Cardinality(W)
<1>1. DOMAIN g = S
    OBVIOUS
<1>2. PICK h : Sums(S, g, Picked(S), h) /\ Sum(g) = h[S]
    BY <1>1, SumIsSum
<1>3. \A s \in SUBSET S : s # {} => Picked(S)[s] \in s
    BY PickedIsIn
<1>4. h[S] = Cardinality(W)
    BY <1>2, <1>3, SumsParts
<1> QED BY <1>2, <1>4

\* The cases of the last thirty days, and the open ones among them.
Recent == {i \in DOMAIN rows : rows[i].age <= 30}
Opens == {i \in Recent : rows[i].status \in OpenStatuses}

\* What has been counted when count is next.
PastReason == {"resolved", "done"}
PastBlocks == {"reason"} \cup PastReason
PastSource == {"blocks"} \cup PastBlocks
PastType == {"source"} \cup PastSource
PastReview == {"type"} \cup PastType
PastStatus == {"review"} \cup PastReview
PastOpen == {"status"} \cup PastStatus
PastTotal == {"open"} \cup PastOpen

OpenFigures == [s \in OpenStatuses |-> figures.status[s]]

FigureTypes ==
    [total : Nat, open : Nat, review : Nat, resolved : Nat, blocks : Nat, status : [Statuses -> Nat],
     type : [Kinds -> Nat], source : [Sources -> Nat], reason : [Reasons -> Nat]]

AnalyticsType ==
    /\ rows \in Seq(Row) /\ bans \in Seq(Reasons) /\ changes \in Nat
    /\ count \in {"idle", "table", "failed", "total"} \cup PastTotal
    /\ count # "idle" => request \in Requests
    /\ figures \in FigureTypes

\* A figure and the one that it has to agree with: from when the first of them was counted it is
\* as many changes away from the rows, from when the other one was it is from that one.
AgreeInv ==
    /\ count \in PastTotal => figures.total <= Cardinality(Recent) /\ Cardinality(Recent) <= figures.total + changes
    /\ count = "status" => Near(Cardinality(Opens), figures.open)
    /\ count \in PastOpen => figures.open <= figures.total + changes
    /\ count \in PastStatus => /\ Near(Sum(figures.status), figures.total)
                               /\ Near(Sum(OpenFigures), figures.open)
    /\ count \in PastReview => figures.review <= figures.total + changes
    /\ count \in PastType => Near(Sum(figures.type), figures.total)
    /\ count \in PastSource => Near(Sum(figures.source), figures.total)
    /\ count = "reason" => Near(Len(bans), figures.blocks)
    /\ count \in PastReason => Near(Sum(figures.reason), figures.blocks)

\* A filter ends the count before the figures that it does not fit.
FilterInv ==
    /\ count \in PastStatus => request.column \in {"", "status"}
    /\ count \in PastType => request.column = ""

\* Tables are answered at once.
TableInv ==
    /\ count = "idle" => figures = NoFigures
    /\ count = "table" => request.for = "table"
    /\ count \in {"total"} \cup (PastTotal \ {"done"}) => request.for = "figures"
    /\ count = "done" /\ request.for = "table" => figures.total = Len(rows)

AnalyticsInv ==
    /\ AnalyticsType /\ TableInv /\ figures.resolved = 0
    /\ (count \notin {"idle", "table", "failed"} /\ request.for = "figures") => AgreeInv /\ FilterInv

LEMMA InvImpliesCounts == ASSUME AnalyticsInv PROVE CountsAgree
<1>1. SUFFICES ASSUME count = "done" PROVE CountsAgree
    BY DEF CountsAgree
<1>2. request.for \in {"figures", "table"}
    BY <1>1, AnalyticsAssumption DEF AnalyticsInv, AnalyticsType
<1>3. CASE request.for = "table"
    BY <1>1, <1>3 DEF AnalyticsInv, TableInv, CountsAgree
<1>4. CASE request.for = "figures"
  <2>1. AgreeInv /\ FilterInv /\ figures.resolved = 0
      BY <1>1, <1>4 DEF AnalyticsInv
  <2>2. /\ count \in PastTotal /\ count \in PastOpen /\ count \in PastStatus /\ count \in PastReview
        /\ count \in PastType /\ count \in PastSource /\ count \in PastReason
      BY <1>1 DEF PastTotal, PastOpen, PastStatus, PastReview, PastType, PastSource, PastBlocks, PastReason
  <2>3. /\ figures.total \in Nat
        /\ figures.total <= Cardinality(Recent) /\ Cardinality(Recent) <= figures.total + changes
      BY <2>1, <2>2 DEF AgreeInv, AnalyticsInv, AnalyticsType, FigureTypes
  <2>4. Cardinality(Recent) \in Nat
    <3>1. DOMAIN rows = 1..Len(rows) /\ Len(rows) \in Nat /\ Recent \subseteq DOMAIN rows
        BY DEF AnalyticsInv, AnalyticsType, Recent
    <3>2. IsFiniteSet(DOMAIN rows)
        BY <3>1, FS_Interval
    <3> QED BY <3>1, <3>2, FS_Subset, FS_CardinalityType
  <2>5. changes = 0 => figures.total = Cardinality(Recent)
      BY <2>3, <2>4
  <2> QED BY <1>1, <1>4, <2>1, <2>2, <2>5 DEF AgreeInv, FilterInv, CountsAgree, Recent, OpenFigures
<1> QED BY <1>2, <1>3, <1>4

LEMMA Sizes ==
    ASSUME AnalyticsType
    PROVE  /\ IsFiniteSet(Recent) /\ IsFiniteSet(Opens) /\ Cardinality(Recent) \in Nat /\ Cardinality(Opens) \in Nat
           /\ Cardinality(Opens) <= Cardinality(Recent)
<1>1. DOMAIN rows = 1..Len(rows) /\ Len(rows) \in Nat /\ Recent \subseteq DOMAIN rows /\ Opens \subseteq Recent
    BY DEF AnalyticsType, Recent, Opens
<1>2. IsFiniteSet(DOMAIN rows)
    BY <1>1, FS_Interval
<1>3. IsFiniteSet(Recent)
    BY <1>1, <1>2, FS_Subset
<1>4. IsFiniteSet(Opens) /\ Cardinality(Opens) <= Cardinality(Recent)
    BY <1>1, <1>3, FS_Subset
<1> QED BY <1>3, <1>4, FS_CardinalityType

\* The figures are numbers, and so are their sums.
LEMMA FigureSums ==
    ASSUME figures \in FigureTypes
    PROVE  /\ figures.total \in Nat /\ figures.open \in Nat /\ figures.review \in Nat /\ figures.blocks \in Nat
           /\ Sum(figures.status) \in Nat /\ Sum(OpenFigures) \in Nat
           /\ Sum(figures.type) \in Nat /\ Sum(figures.source) \in Nat /\ Sum(figures.reason) \in Nat
<1>1. /\ figures.total \in Nat /\ figures.open \in Nat /\ figures.review \in Nat /\ figures.blocks \in Nat
      /\ figures.status \in [Statuses -> Nat] /\ figures.type \in [Kinds -> Nat]
      /\ figures.source \in [Sources -> Nat] /\ figures.reason \in [Reasons -> Nat]
    BY DEF FigureTypes
<1>2. IsFiniteSet(OpenStatuses) /\ OpenFigures \in [OpenStatuses -> Nat]
    BY <1>1, AnalyticsAssumption, FS_Subset DEF OpenFigures
<1>3. Sum(OpenFigures) \in Nat
    BY <1>2, SumType
<1> QED BY <1>1, <1>3, AnalyticsAssumption, SumType

\* What is no further than the changes from a figure is so after one more.
LEMMA Drift ==
    ASSUME NEW a \in Nat, NEW b \in Nat, NEW bb \in Nat, NEW c \in Nat,
           b <= a + c, a <= b + c, b <= bb + 1, bb <= b + 1
    PROVE  a <= bb + (c + 1) /\ bb <= a + (c + 1)
OBVIOUS

LEMMA DriftUp ==
    ASSUME NEW a \in Nat, NEW b \in Nat, NEW bb \in Nat, NEW c \in Nat,
           b <= a + c, a <= b, b <= bb, bb <= b + 1
    PROVE  a <= bb /\ bb <= a + (c + 1)
OBVIOUS

\* A change moves the number of recent cases up by one at most, and the others by one at most.
LEMMA Changing ==
    ASSUME AnalyticsInv, AnalyticsType', Running, changes' = changes + 1, UNCHANGED <<request, count, figures>>,
           Cardinality(Recent) <= Cardinality(Recent'), Cardinality(Recent') <= Cardinality(Recent) + 1,
           Cardinality(Opens) <= Cardinality(Opens') + 1, Cardinality(Opens') <= Cardinality(Opens) + 1,
           Len(bans) <= Len(bans'), Len(bans') <= Len(bans) + 1
    PROVE  AnalyticsInv'
<1>1. count # "idle" /\ count # "done" /\ count # "failed"
    BY DEF Running
<1>2. TableInv' /\ figures'.resolved = 0
    BY <1>1 DEF AnalyticsInv, TableInv
<1>3. ASSUME count # "table", request.for = "figures" PROVE AgreeInv' /\ FilterInv'
  <2>1. AgreeInv /\ FilterInv /\ AnalyticsType
      BY <1>1, <1>3 DEF AnalyticsInv
  <2>2. /\ figures.total \in Nat /\ figures.open \in Nat /\ figures.review \in Nat /\ figures.blocks \in Nat
        /\ Sum(figures.status) \in Nat /\ Sum(OpenFigures) \in Nat
        /\ Sum(figures.type) \in Nat /\ Sum(figures.source) \in Nat /\ Sum(figures.reason) \in Nat
      BY <2>1, FigureSums DEF AnalyticsType
  <2>3. /\ Cardinality(Recent) \in Nat /\ Cardinality(Opens) \in Nat
        /\ Cardinality(Recent') \in Nat /\ Cardinality(Opens') \in Nat
    <3>1. Cardinality(Recent)' \in Nat /\ Cardinality(Opens)' \in Nat
      <4>1. (Cardinality(Recent) \in Nat /\ Cardinality(Opens) \in Nat)'
          BY Sizes, PTL
      <4> QED BY <4>1
    <3> QED BY <2>1, <3>1, Sizes
  <2>4. Len(bans) \in Nat /\ Len(bans') \in Nat /\ changes \in Nat
      BY <2>1 DEF AnalyticsType
  <2>5. /\ figures' = figures /\ count' = count /\ changes' = changes + 1 /\ request' = request
      OBVIOUS
  <2>8. OpenFigures' = OpenFigures
      BY <2>5 DEF OpenFigures
  <2>9. PICK r, rr, o, oo : /\ r = Cardinality(Recent) /\ rr = Cardinality(Recent')
                            /\ o = Cardinality(Opens) /\ oo = Cardinality(Opens')
      OBVIOUS
  <2>10. /\ r \in Nat /\ rr \in Nat /\ o \in Nat /\ oo \in Nat
         /\ r <= rr /\ rr <= r + 1 /\ o <= oo + 1 /\ oo <= o + 1
      BY <2>3, <2>9
  <2>6. AgreeInv'
    <3>1. (count \in PastTotal =>
              figures.total <= Cardinality(Recent) /\ Cardinality(Recent) <= figures.total + changes)'
      <4>1. SUFFICES ASSUME count \in PastTotal
                     PROVE  figures.total <= rr /\ rr <= figures.total + (changes + 1)
          BY <2>5, <2>9
      <4>2. figures.total <= r /\ r <= figures.total + changes
          BY <2>1, <2>9, <4>1 DEF AgreeInv
      <4> QED BY <2>2, <2>10, <2>4, <4>2, DriftUp
    <3>2. (count = "status" => Near(Cardinality(Opens), figures.open))'
      <4>1. SUFFICES ASSUME count = "status"
                     PROVE  oo <= figures.open + (changes + 1) /\ figures.open <= oo + (changes + 1)
          BY <2>5, <2>9 DEF Near
      <4>2. o <= figures.open + changes /\ figures.open <= o + changes
          BY <2>1, <2>9, <4>1 DEF AgreeInv, Near
      <4> QED BY <2>2, <2>10, <2>4, <4>2, Drift
    <3>3. (count \in PastOpen => figures.open <= figures.total + changes)'
        BY <2>1, <2>2, <2>4, <2>5, SMTT(40) DEF AgreeInv
    <3>4. (count \in PastStatus => /\ Near(Sum(figures.status), figures.total)
                                  /\ Near(Sum(OpenFigures), figures.open))'
      <4>1. PICK total, open : total = Sum(figures.status) /\ open = Sum(OpenFigures)
          OBVIOUS
      <4>2. Sum(OpenFigures)' = open
          BY <2>8, <4>1
      <4>3. Sum(figures.status)' = total
          BY <2>5, <4>1
      <4>4. SUFFICES ASSUME count \in PastStatus
                     PROVE  /\ total <= figures.total + (changes + 1) /\ figures.total <= total + (changes + 1)
                            /\ open <= figures.open + (changes + 1) /\ figures.open <= open + (changes + 1)
          BY <2>5, <4>2, <4>3 DEF Near
      <4>5. /\ total <= figures.total + changes /\ figures.total <= total + changes
            /\ open <= figures.open + changes /\ figures.open <= open + changes
          BY <2>1, <4>1, <4>4 DEF AgreeInv, Near
      <4>6. total \in Nat /\ open \in Nat
          BY <2>2, <4>1
      <4>7. total <= total + 1 /\ open <= open + 1
          BY <4>6
      <4> QED BY <2>2, <2>4, <4>5, <4>6, <4>7, Drift
    <3>5. (count \in PastReview => figures.review <= figures.total + changes)'
        BY <2>1, <2>2, <2>4, <2>5, SMTT(40) DEF AgreeInv
    <3>6. (count \in PastType => Near(Sum(figures.type), figures.total))'
        BY <2>1, <2>2, <2>4, <2>5, SMTT(40) DEF AgreeInv, Near
    <3>7. (count \in PastSource => Near(Sum(figures.source), figures.total))'
        BY <2>1, <2>2, <2>4, <2>5, SMTT(40) DEF AgreeInv, Near
    <3>8. (count = "reason" => Near(Len(bans), figures.blocks))'
        BY <2>1, <2>2, <2>4, <2>5, SMTT(40) DEF AgreeInv, Near
    <3>9. (count \in PastReason => Near(Sum(figures.reason), figures.blocks))'
        BY <2>1, <2>2, <2>4, <2>5, SMTT(40) DEF AgreeInv, Near
    <3> QED BY <3>1, <3>2, <3>3, <3>4, <3>5, <3>6, <3>7, <3>8, <3>9 DEF AgreeInv
  <2>7. FilterInv'
      BY <2>1, <2>5 DEF FilterInv
  <2> QED BY <2>6, <2>7
<1> QED BY <1>2, <1>3 DEF AnalyticsInv

LEMMA StepOpenCase == ASSUME AnalyticsInv, OpenCase PROVE AnalyticsInv'
<1>1. PICK c \in Row : c.age = 0 /\ rows' = Append(rows, c)
    BY DEF OpenCase
<1>2. Running /\ changes' = changes + 1 /\ UNCHANGED <<bans, request, count, figures>>
    BY DEF OpenCase, Changed
<1>3. AnalyticsType /\ rows \in Seq(Row) /\ Len(rows) \in Nat
    BY DEF AnalyticsInv, AnalyticsType
<1>4. PICK n : n = Len(rows) + 1
    OBVIOUS
<1>5. /\ rows' \in Seq(Row) /\ DOMAIN rows' = DOMAIN rows \cup {n} /\ rows'[n] = c
      /\ \A i \in DOMAIN rows : rows'[i] = rows[i] /\ i # n
    BY <1>1, <1>3, <1>4
<1>6. AnalyticsType'
    BY <1>2, <1>5 DEF AnalyticsInv, AnalyticsType
<1>7. Recent' = Recent \cup {n} /\ n \notin Recent
    BY <1>1, <1>5 DEF Recent
<1>8. Opens' = Opens \/ (Opens' = Opens \cup {n} /\ n \notin Opens)
    BY <1>5, <1>7 DEF Opens, Recent
<1>9. /\ IsFiniteSet(Recent) /\ IsFiniteSet(Opens) /\ Cardinality(Recent) \in Nat /\ Cardinality(Opens) \in Nat
    BY <1>3, Sizes
<1>10. Cardinality(Recent') = Cardinality(Recent) + 1
    BY <1>7, <1>9, FS_AddElement
<1>11. Cardinality(Opens') = Cardinality(Opens) \/ Cardinality(Opens') = Cardinality(Opens) + 1
    BY <1>8, <1>9, FS_AddElement
<1>12. Len(bans') = Len(bans) /\ Len(bans) \in Nat
    BY <1>2, <1>3 DEF AnalyticsType
<1> QED BY <1>2, <1>6, <1>9, <1>10, <1>11, <1>12, Changing

LEMMA StepChangeCase == ASSUME AnalyticsInv, ChangeCase PROVE AnalyticsInv'
<1>1. PICK j \in DOMAIN rows, s \in Statuses, k \in Kinds, b \in BOOLEAN :
            /\ <<s, k, b>> # <<rows[j].status, rows[j].type, rows[j].review>>
            /\ rows' = [rows EXCEPT ![j].status = s, ![j].type = k, ![j].review = b]
    BY DEF ChangeCase
<1>2. Running /\ changes' = changes + 1 /\ UNCHANGED <<bans, request, count, figures>>
    BY DEF ChangeCase, Changed
<1>3. AnalyticsType /\ rows \in Seq(Row) /\ rows[j] \in Row
    BY DEF AnalyticsInv, AnalyticsType
<1>4. PICK c : c = [rows[j] EXCEPT !.status = s, !.type = k, !.review = b]
    OBVIOUS
<1>5. c \in Row /\ c.age = rows[j].age
    BY <1>3, <1>4 DEF Row
<1>6. rows' = [rows EXCEPT ![j] = c]
    BY <1>1, <1>4
<1>7. /\ rows' \in Seq(Row) /\ DOMAIN rows' = DOMAIN rows /\ rows'[j] = c
      /\ \A i \in DOMAIN rows : i # j => rows'[i] = rows[i]
    BY <1>3, <1>5, <1>6
<1>8. AnalyticsType'
    BY <1>2, <1>7 DEF AnalyticsInv, AnalyticsType
<1>9. Recent' = Recent
    BY <1>5, <1>7 DEF Recent
<1>10. \/ Opens' = Opens \/ (Opens' = Opens \cup {j} /\ j \notin Opens)
       \/ (Opens = Opens' \cup {j} /\ j \notin Opens')
  <2>1. \A i \in DOMAIN rows : i # j => (i \in Opens' <=> i \in Opens)
      BY <1>7, <1>9 DEF Opens
  <2>2. Opens \subseteq DOMAIN rows /\ Opens' \subseteq DOMAIN rows
      BY <1>9 DEF Opens, Recent
  <2>3. \A i : i # j => (i \in Opens' <=> i \in Opens)
      BY <2>1, <2>2
  <2> QED BY <2>3
<1>11. /\ IsFiniteSet(Recent) /\ IsFiniteSet(Opens) /\ Cardinality(Recent) \in Nat /\ Cardinality(Opens) \in Nat
    BY <1>3, Sizes
<1>12. IsFiniteSet(Opens')
  <2>1. Opens' \subseteq Recent
      BY <1>9 DEF Opens
  <2> QED BY <1>11, <2>1, FS_Subset
<1>13. Cardinality(Opens') \in Nat
    BY <1>12, FS_CardinalityType
<1>14. \/ Cardinality(Opens') = Cardinality(Opens) \/ Cardinality(Opens') = Cardinality(Opens) + 1
       \/ Cardinality(Opens) = Cardinality(Opens') + 1
    BY <1>10, <1>11, <1>12, FS_AddElement
<1>15. Len(bans') = Len(bans) /\ Len(bans) \in Nat
    BY <1>2, <1>3 DEF AnalyticsType
<1> QED BY <1>2, <1>8, <1>9, <1>11, <1>13, <1>14, <1>15, Changing

LEMMA StepBan == ASSUME AnalyticsInv, Ban PROVE AnalyticsInv'
<1>1. PICK r \in Reasons : bans' = Append(bans, r)
    BY DEF Ban
<1>2. Running /\ changes' = changes + 1 /\ UNCHANGED <<rows, request, count, figures>>
    BY DEF Ban, Changed
<1>3. AnalyticsType /\ bans' \in Seq(Reasons) /\ Len(bans) \in Nat /\ Len(bans') = Len(bans) + 1
    BY <1>1 DEF AnalyticsInv, AnalyticsType
<1>4. AnalyticsType'
    BY <1>2, <1>3 DEF AnalyticsType
<1>5. Recent' = Recent /\ Opens' = Opens
    BY <1>2 DEF Recent, Opens
<1>6. Cardinality(Recent) \in Nat /\ Cardinality(Opens) \in Nat
    BY <1>3, Sizes
<1> QED BY <1>2, <1>3, <1>4, <1>5, <1>6, Changing

\* What is counted among the rows is counted by the place in the table.
LEMMA CountedPlaces ==
    ASSUME AnalyticsType
    PROVE  /\ Counted({c \in ToSet(rows) : c.status \in OpenStatuses}) = Cardinality(Opens)
           /\ Counted({c \in ToSet(rows) : c.review}) = Cardinality({i \in Recent : rows[i].review})
           /\ \A s : Counted({c \in ToSet(rows) : c.status = s}) = Cardinality({i \in Recent : rows[i].status = s})
           /\ \A k : Counted({c \in ToSet(rows) : c.type = k}) = Cardinality({i \in Recent : rows[i].type = k})
           /\ \A s : Counted({c \in ToSet(rows) : c.source = s}) = Cardinality({i \in Recent : rows[i].source = s})
<1>1. Window(request) = Recent /\ \A i \in Recent : rows[i] \in ToSet(rows)
    BY DEF Window, Recent, ToSet
<1>2. {i \in Recent : rows[i] \in {c \in ToSet(rows) : c.status \in OpenStatuses}} = Opens
    BY <1>1 DEF Opens
<1>3. {i \in Recent : rows[i] \in {c \in ToSet(rows) : c.review}} = {i \in Recent : rows[i].review}
    BY <1>1
<1>4. \A s : {i \in Recent : rows[i] \in {c \in ToSet(rows) : c.status = s}} = {i \in Recent : rows[i].status = s}
    BY <1>1
<1>5. \A k : {i \in Recent : rows[i] \in {c \in ToSet(rows) : c.type = k}} = {i \in Recent : rows[i].type = k}
    BY <1>1
<1>6. \A s : {i \in Recent : rows[i] \in {c \in ToSet(rows) : c.source = s}} = {i \in Recent : rows[i].source = s}
    BY <1>1
<1> QED BY <1>1, <1>2, <1>3, <1>4, <1>5, <1>6 DEF Counted

LEMMA Parts ==
    ASSUME NEW S, IsFiniteSet(S), NEW W, IsFiniteSet(W), NEW key \in [W -> S],
           NEW g, g = [x \in S |-> Cardinality({w \in W : key[w] = x})]
    PROVE  g \in [S -> Nat] /\ Sum(g) = Cardinality(W)
<1>1. \A x \in S : IsFiniteSet({w \in W : key[w] = x})
    BY FS_Subset
<1> QED BY <1>1, SumParts, FS_CardinalityType

\* What is counted by status, and of the open ones.
StatusFigure == [s \in Statuses |-> Counted({c \in ToSet(rows) : c.status = s})]
OpenPart == [s \in OpenStatuses |-> StatusFigure[s]]

\* What is counted by status, type and source.
LEMMA CountedParts ==
    ASSUME AnalyticsType
    PROVE  /\ StatusFigure \in [Statuses -> Nat]
           /\ Sum(StatusFigure) = Cardinality(Recent) /\ Sum(OpenPart) = Cardinality(Opens)
           /\ \A g : g = [k \in Kinds |-> Counted({c \in ToSet(rows) : c.type = k})] =>
                        g \in [Kinds -> Nat] /\ Sum(g) = Cardinality(Recent)
           /\ \A g : g = [s \in Sources |-> Counted({c \in ToSet(rows) : c.source = s})] =>
                        g \in [Sources -> Nat] /\ Sum(g) = Cardinality(Recent)
           /\ \A g : g = [r \in Reasons |-> Cardinality({i \in DOMAIN bans : bans[i] = r})] =>
                        g \in [Reasons -> Nat] /\ Sum(g) = Len(bans)
<1>1. /\ IsFiniteSet(Recent) /\ IsFiniteSet(Opens) /\ Opens \subseteq Recent
      /\ \A i \in Recent : rows[i] \in Row
    BY Sizes DEF Recent, Opens, AnalyticsType
<1>2. /\ IsFiniteSet(Statuses) /\ IsFiniteSet(Kinds) /\ IsFiniteSet(Sources) /\ IsFiniteSet(Reasons)
      /\ IsFiniteSet(OpenStatuses) /\ OpenStatuses \subseteq Statuses
    BY AnalyticsAssumption, FS_Subset
<1>3. /\ StatusFigure \in [Statuses -> Nat]
      /\ Sum(StatusFigure) = Cardinality(Recent) /\ Sum(OpenPart) = Cardinality(Opens)
  <2>10. PICK g, part : g = StatusFigure /\ part = OpenPart
      OBVIOUS
  <2>11. part = [s \in OpenStatuses |-> g[s]]
      BY <2>10 DEF OpenPart
  <2>1. PICK key : key = [i \in Recent |-> rows[i].status]
      OBVIOUS
  <2>2. key \in [Recent -> Statuses]
      BY <1>1, <2>1 DEF Row
  <2>3. g = [s \in Statuses |-> Cardinality({i \in Recent : key[i] = s})]
    <3>1. \A s : {i \in Recent : rows[i].status = s} = {i \in Recent : key[i] = s}
        BY <2>1
    <3>2. \A s : Counted({c \in ToSet(rows) : c.status = s}) = Cardinality({i \in Recent : key[i] = s})
        BY <3>1, CountedPlaces
    <3> QED BY <2>10, <3>2, Zenon DEF StatusFigure
  <2>4. PICK open : open = [i \in Opens |-> rows[i].status]
      OBVIOUS
  <2>5. open \in [Opens -> OpenStatuses]
      BY <2>4 DEF Opens
  <2>6. \A s \in OpenStatuses : {i \in Opens : open[i] = s} = {i \in Recent : key[i] = s}
      BY <2>1, <2>4 DEF Opens
  <2>7. part = [s \in OpenStatuses |-> Cardinality({i \in Opens : open[i] = s})]
      BY <1>2, <2>11, <2>3, <2>6
  <2>8. Sum(part) = Cardinality(Opens)
      BY <1>1, <1>2, <2>5, <2>7, Parts
  <2>9. g \in [Statuses -> Nat] /\ Sum(g) = Cardinality(Recent)
      BY <1>1, <1>2, <2>2, <2>3, Parts
  <2> QED BY <2>8, <2>9, <2>10
<1>4. ASSUME NEW g, g = [k \in Kinds |-> Counted({c \in ToSet(rows) : c.type = k})]
      PROVE  g \in [Kinds -> Nat] /\ Sum(g) = Cardinality(Recent)
  <2>1. PICK key : key = [i \in Recent |-> rows[i].type]
      OBVIOUS
  <2>2. key \in [Recent -> Kinds]
      BY <1>1, <2>1 DEF Row
  <2>3. g = [k \in Kinds |-> Cardinality({i \in Recent : key[i] = k})]
    <3>1. \A k : {i \in Recent : rows[i].type = k} = {i \in Recent : key[i] = k}
        BY <2>1
    <3> QED BY <1>4, <3>1, CountedPlaces
  <2> QED BY <1>1, <1>2, <2>2, <2>3, Parts
<1>5. ASSUME NEW g, g = [s \in Sources |-> Counted({c \in ToSet(rows) : c.source = s})]
      PROVE  g \in [Sources -> Nat] /\ Sum(g) = Cardinality(Recent)
  <2>1. PICK key : key = [i \in Recent |-> rows[i].source]
      OBVIOUS
  <2>2. key \in [Recent -> Sources]
      BY <1>1, <2>1 DEF Row
  <2>3. g = [s \in Sources |-> Cardinality({i \in Recent : key[i] = s})]
    <3>1. \A s : {i \in Recent : rows[i].source = s} = {i \in Recent : key[i] = s}
        BY <2>1
    <3> QED BY <1>5, <3>1, CountedPlaces
  <2> QED BY <1>1, <1>2, <2>2, <2>3, Parts
<1>6. ASSUME NEW g, g = [r \in Reasons |-> Cardinality({i \in DOMAIN bans : bans[i] = r})]
      PROVE  g \in [Reasons -> Nat] /\ Sum(g) = Len(bans)
  <2>1. bans \in [DOMAIN bans -> Reasons] /\ DOMAIN bans = 1..Len(bans) /\ Len(bans) \in Nat
      BY DEF AnalyticsType
  <2>2. IsFiniteSet(DOMAIN bans) /\ Cardinality(DOMAIN bans) = Len(bans)
      BY <2>1, FS_Interval
  <2>3. PICK places, key : places = DOMAIN bans /\ key = [i \in DOMAIN bans |-> bans[i]]
      OBVIOUS
  <2>4. key \in [places -> Reasons]
      BY <2>1, <2>3
  <2>5. IsFiniteSet(places) /\ IsFiniteSet(Reasons)
      BY <1>2, <2>2, <2>3
  <2>6. g = [r \in Reasons |-> Cardinality({i \in places : key[i] = r})]
    <3>1. \A r : {i \in DOMAIN bans : bans[i] = r} = {i \in places : key[i] = r}
        BY <2>3
    <3> QED BY <1>6, <3>1
  <2>7. g \in [Reasons -> Nat] /\ Sum(g) = Cardinality(places)
      BY <2>4, <2>5, <2>6, Parts
  <2> QED BY <2>2, <2>3, <2>7
<1> QED BY <1>3, <1>4, <1>5, <1>6

-----------------------------------------------------------------------------

LEMMA InitAnalytics == ASSUME AnalyticsInit PROVE AnalyticsInv
<1>1. /\ rows = <<>> /\ bans = <<>> /\ changes = 0 /\ count = "idle" /\ figures = NoFigures
    BY DEF AnalyticsInit
<1>2. NoFigures \in FigureTypes /\ NoFigures.resolved = 0
    BY DEF NoFigures, FigureTypes
<1>3. AnalyticsType
    BY <1>1, <1>2 DEF AnalyticsType
<1>4. TableInv
    BY <1>1 DEF TableInv, PastTotal, PastOpen, PastStatus, PastReview, PastType, PastSource, PastBlocks, PastReason
<1> QED BY <1>1, <1>2, <1>3, <1>4 DEF AnalyticsInv

LEMMA StepAsk == ASSUME AnalyticsInv, Ask PROVE AnalyticsInv'
<1>1. /\ count = "idle" /\ request' \in Requests /\ changes' = 0 /\ UNCHANGED <<rows, bans, figures>>
      /\ count' \in {"table", "failed", "total"}
      /\ count' = "table" => request'.for = "table"
      /\ count' = "total" => request'.for # "table"
    BY DEF Ask
<1>2. request'.for \in {"figures", "table"}
    BY <1>1, AnalyticsAssumption
<1>3. count' \notin PastTotal
    BY <1>1 DEF PastTotal, PastOpen, PastStatus, PastReview, PastType, PastSource, PastBlocks, PastReason
<1>4. AnalyticsType'
    BY <1>1 DEF AnalyticsInv, AnalyticsType
<1>5. TableInv' /\ figures'.resolved = 0
    BY <1>1, <1>2, <1>3 DEF AnalyticsInv, TableInv
<1>6. /\ count' \notin PastOpen /\ count' \notin PastStatus /\ count' \notin PastReview /\ count' \notin PastType
      /\ count' \notin PastSource /\ count' \notin PastReason
    BY <1>3 DEF PastTotal, PastOpen, PastStatus, PastReview, PastType, PastSource, PastBlocks, PastReason
<1>7. count' # "status" /\ count' # "reason"
    BY <1>1
<1>8. AgreeInv' /\ FilterInv'
    BY <1>3, <1>6, <1>7 DEF AgreeInv, FilterInv
<1> QED BY <1>4, <1>5, <1>8 DEF AnalyticsInv

LEMMA StepTabulate == ASSUME AnalyticsInv, Tabulate PROVE AnalyticsInv'
<1>1. /\ count = "table" /\ count' = "done" /\ figures' = [NoFigures EXCEPT !.total = Len(rows)]
      /\ UNCHANGED <<rows, bans, request, changes>>
    BY DEF Tabulate
<1>2. /\ rows \in Seq(Row) /\ bans \in Seq(Reasons) /\ changes \in Nat /\ request \in Requests
      /\ request.for = "table" /\ Len(rows) \in Nat
    BY <1>1 DEF AnalyticsInv, AnalyticsType, TableInv
<1>3. figures' \in FigureTypes /\ figures'.resolved = 0 /\ figures'.total = Len(rows)
    BY <1>1, <1>2 DEF NoFigures, FigureTypes
<1>4. AnalyticsType'
    BY <1>1, <1>2, <1>3
       DEF AnalyticsType, PastTotal, PastOpen, PastStatus, PastReview, PastType, PastSource, PastBlocks, PastReason
<1>5. TableInv'
    BY <1>1, <1>2, <1>3 DEF TableInv
<1> QED BY <1>1, <1>2, <1>3, <1>4, <1>5 DEF AnalyticsInv

LEMMA StepOpenedBefore == ASSUME AnalyticsInv, OpenedBefore PROVE AnalyticsInv'
<1>1. PICK c \in Row : rows' = Append(rows, c)
    BY DEF OpenedBefore
<1>2. count = "idle" /\ UNCHANGED <<bans, request, count, figures, changes>>
    BY DEF OpenedBefore
<1>3. rows' \in Seq(Row)
    BY <1>1 DEF AnalyticsInv, AnalyticsType
<1>4. AnalyticsType'
    BY <1>2, <1>3 DEF AnalyticsInv, AnalyticsType
<1>5. TableInv'
    BY <1>2 DEF AnalyticsInv, TableInv
<1> QED BY <1>2, <1>4, <1>5 DEF AnalyticsInv

\* What a figure that is counted has to leave behind.
LEMMA Counting ==
    ASSUME AnalyticsInv, count \in DOMAIN After, count' = After[count], UNCHANGED <<rows, bans, request, changes>>,
           request.for = "figures", figures' \in FigureTypes, figures'.resolved = 0,
           AgreeInv', request.column \in {""} \cup Columns(count) \/ count = "resolved"
    PROVE  AnalyticsInv'
<1>1. count \in {"total", "open", "status", "review", "type", "source", "blocks", "reason", "resolved"}
    BY DEF After
<1>2. /\ count = "total" => count' = "open"
      /\ count = "open" => count' = "status"
      /\ count = "status" => count' = "review"
      /\ count = "review" => count' = "type"
      /\ count = "type" => count' = "source"
      /\ count = "source" => count' = "blocks"
      /\ count = "blocks" => count' = "reason"
      /\ count = "reason" => count' = "resolved"
      /\ count = "resolved" => count' = "done"
  <2>1. /\ After["total"] = "open" /\ After["open"] = "status" /\ After["status"] = "review"
        /\ After["review"] = "type" /\ After["type"] = "source" /\ After["source"] = "blocks"
        /\ After["blocks"] = "reason" /\ After["reason"] = "resolved" /\ After["resolved"] = "done"
      BY DEF After
  <2> QED BY <2>1
<1>3. AnalyticsType'
    BY <1>1, <1>2 DEF AnalyticsInv, AnalyticsType, PastTotal, PastOpen, PastStatus, PastReview, PastType, PastSource, PastBlocks, PastReason
<1>4. TableInv'
    BY <1>1, <1>2 DEF TableInv, PastTotal, PastOpen, PastStatus, PastReview, PastType, PastSource, PastBlocks, PastReason
<1>5. FilterInv
    BY <1>1 DEF AnalyticsInv
<1>6. FilterInv'
  <2>1. count = "status" => request.column \in {"", "status"}
      BY DEF Columns
  <2>2. count = "type" => request.column \in {"", "type"}
      BY DEF Columns
  <2>3. count \in PastStatus => request.column \in {"", "status"}
      BY <1>5 DEF FilterInv
  <2>4. count \in PastType => request.column = ""
      BY <1>5 DEF FilterInv
  <2>5. count' \in PastStatus => count = "status" \/ count \in PastStatus
      BY <1>1, <1>2 DEF PastTotal, PastOpen, PastStatus, PastReview, PastType, PastSource, PastBlocks, PastReason
  <2>6. count' \in PastType => (count = "type" /\ count \in PastStatus) \/ count \in PastType
      BY <1>1, <1>2 DEF PastTotal, PastOpen, PastStatus, PastReview, PastType, PastSource, PastBlocks, PastReason
  <2>7. count' \in PastStatus => request.column \in {"", "status"}
      BY <2>1, <2>3, <2>5
  <2>8. count' \in PastType => request.column = ""
      BY <2>2, <2>3, <2>4, <2>6
  <2> QED BY <2>7, <2>8 DEF FilterInv
<1> QED BY <1>3, <1>4, <1>6 DEF AnalyticsInv

LEMMA StepCount == ASSUME AnalyticsInv, Count PROVE AnalyticsInv'
<1>1. count \in DOMAIN After /\ UNCHANGED <<rows, bans, request, changes>>
    BY DEF Count
<1>2. count \in {"total", "open", "status", "review", "type", "source", "blocks", "reason", "resolved"}
    BY <1>1 DEF After
<1>3. /\ AnalyticsType /\ request.for = "figures" /\ AgreeInv /\ FilterInv /\ figures.resolved = 0
      /\ figures \in FigureTypes /\ changes \in Nat
    BY <1>2 DEF AnalyticsInv, AnalyticsType, TableInv, PastTotal, PastOpen, PastStatus, PastReview, PastType, PastSource, PastBlocks, PastReason
<1>4. PICK r, o, b : r = Cardinality(Recent) /\ o = Cardinality(Opens) /\ b = Len(bans)
    OBVIOUS
<1>5. /\ r \in Nat /\ o \in Nat /\ b \in Nat /\ o <= r
      /\ Cardinality(Recent)' = r /\ Cardinality(Opens)' = o /\ Len(bans)' = b
  <2>1. Recent' = Recent
      BY <1>1 DEF Recent
  <2>2. Opens' = Opens
      BY <1>1, <2>1 DEF Opens
  <2> QED BY <1>1, <1>3, <1>4, <2>1, <2>2, Sizes DEF AnalyticsType
<1>6. /\ figures.total \in Nat /\ figures.open \in Nat /\ figures.review \in Nat /\ figures.blocks \in Nat
      /\ Sum(figures.status) \in Nat /\ Sum(OpenFigures) \in Nat
      /\ Sum(figures.type) \in Nat /\ Sum(figures.source) \in Nat /\ Sum(figures.reason) \in Nat
    BY <1>3, FigureSums
<1>7. CASE ~(count = "resolved" \/ request.column \in {""} \cup Columns(count))
  <2>1. count' = "failed" /\ figures' = figures
      BY <1>7 DEF Count
  <2>2. AnalyticsType'
      BY <1>1, <1>2, <2>1, <1>3 DEF AnalyticsType
  <2>3. TableInv'
      BY <2>1 DEF TableInv, PastTotal, PastOpen, PastStatus, PastReview, PastType, PastSource, PastBlocks, PastReason
  <2> QED BY <1>3, <2>1, <2>2, <2>3 DEF AnalyticsInv
<1>8. CASE count = "resolved" \/ request.column \in {""} \cup Columns(count)
  <2>1. CASE count = "total"
    <3>1. PICK v : v = Cardinality(Window(request))
        OBVIOUS
    <3>2. count' = "open" /\ figures' = [figures EXCEPT !.total = v]
        BY <1>1, <1>8, <2>1, <3>1 DEF Count, After
    <3>3. v = r
        BY <1>4, <3>1 DEF Window, Recent
    <3>4. figures' \in FigureTypes /\ figures'.resolved = 0
        BY <1>3, <1>5, <3>2, <3>3 DEF FigureTypes
    <3>5. /\ figures'.total = v /\ figures'.open = figures.open
          /\ figures'.review = figures.review /\ figures'.blocks = figures.blocks
          /\ figures'.status = figures.status /\ figures'.type = figures.type
          /\ figures'.source = figures.source /\ figures'.reason = figures.reason
        BY <1>3, <3>2 DEF FigureTypes
    <3>6. OpenFigures' = OpenFigures
        BY <3>5 DEF OpenFigures
    <3>7. AgreeInv'
        BY <1>1, <1>3, <1>4, <1>5, <1>6, <2>1, <3>2, <3>3, <3>5, <3>6, SMTT(30)
           DEF AgreeInv, Near, PastTotal, PastOpen, PastStatus, PastReview, PastType, PastSource,
               PastBlocks, PastReason
    <3> QED BY <1>1, <1>3, <1>8, <2>1, <3>2, <3>4, <3>7, Counting DEF After
  <2>2. CASE count = "open"
    <3>1. PICK v : v = Counted({c \in ToSet(rows) : c.status \in OpenStatuses})
        OBVIOUS
    <3>2. count' = "status" /\ figures' = [figures EXCEPT !.open = v]
        BY <1>1, <1>8, <2>2, <3>1 DEF Count, After
    <3>3. v = o
        BY <1>3, <1>4, <3>1, CountedPlaces
    <3>4. figures' \in FigureTypes /\ figures'.resolved = 0
        BY <1>3, <1>5, <3>2, <3>3 DEF FigureTypes
    <3>5. /\ figures'.total = figures.total /\ figures'.open = v
          /\ figures'.review = figures.review /\ figures'.blocks = figures.blocks
          /\ figures'.status = figures.status /\ figures'.type = figures.type
          /\ figures'.source = figures.source /\ figures'.reason = figures.reason
        BY <1>3, <3>2 DEF FigureTypes
    <3>6. OpenFigures' = OpenFigures
        BY <3>5 DEF OpenFigures
    <3>7. AgreeInv'
        BY <1>1, <1>3, <1>4, <1>5, <1>6, <2>2, <3>2, <3>3, <3>5, <3>6, SMTT(30)
           DEF AgreeInv, Near, PastTotal, PastOpen, PastStatus, PastReview, PastType, PastSource,
               PastBlocks, PastReason
    <3> QED BY <1>1, <1>3, <1>8, <2>2, <3>2, <3>4, <3>7, Counting DEF After
  <2>3. CASE count = "status"
    <3>1. PICK v : v = StatusFigure
        OBVIOUS
    <3>2. count' = "review" /\ figures' = [figures EXCEPT !.status = v]
        BY <1>1, <1>8, <2>3, <3>1 DEF Count, After, StatusFigure
    <3>3. v \in [Statuses -> Nat] /\ Sum(v) = r /\ Sum(OpenPart) = o
        BY <1>3, <1>4, <3>1, CountedParts
    <3>4. figures' \in FigureTypes /\ figures'.resolved = 0
        BY <1>3, <1>5, <3>2, <3>3 DEF FigureTypes
    <3>5. /\ figures'.total = figures.total /\ figures'.open = figures.open
          /\ figures'.review = figures.review /\ figures'.blocks = figures.blocks
          /\ figures'.status = v /\ figures'.type = figures.type
          /\ figures'.source = figures.source /\ figures'.reason = figures.reason
        BY <1>3, <3>2 DEF FigureTypes
    <3>6. OpenFigures' = OpenPart
        BY <3>1, <3>5 DEF OpenFigures, OpenPart
    <3>7. AgreeInv'
        BY <1>1, <1>3, <1>4, <1>5, <1>6, <2>3, <3>2, <3>3, <3>5, <3>6, SMTT(30)
           DEF AgreeInv, Near, PastTotal, PastOpen, PastStatus, PastReview, PastType, PastSource,
               PastBlocks, PastReason
    <3> QED BY <1>1, <1>3, <1>8, <2>3, <3>2, <3>4, <3>7, Counting DEF After
  <2>4. CASE count = "review"
    <3>1. PICK v : v = Counted({c \in ToSet(rows) : c.review})
        OBVIOUS
    <3>2. count' = "type" /\ figures' = [figures EXCEPT !.review = v]
        BY <1>1, <1>8, <2>4, <3>1 DEF Count, After
    <3>3. v \in Nat /\ v <= r
      <4>1. {i \in Recent : rows[i].review} \subseteq Recent /\ IsFiniteSet(Recent)
          BY <1>3, Sizes
      <4>2. v = Cardinality({i \in Recent : rows[i].review})
          BY <1>3, <3>1, CountedPlaces
      <4> QED BY <1>4, <4>1, <4>2, FS_Subset, FS_CardinalityType
    <3>4. figures' \in FigureTypes /\ figures'.resolved = 0
        BY <1>3, <1>5, <3>2, <3>3 DEF FigureTypes
    <3>5. /\ figures'.total = figures.total /\ figures'.open = figures.open
          /\ figures'.review = v /\ figures'.blocks = figures.blocks
          /\ figures'.status = figures.status /\ figures'.type = figures.type
          /\ figures'.source = figures.source /\ figures'.reason = figures.reason
        BY <1>3, <3>2 DEF FigureTypes
    <3>6. OpenFigures' = OpenFigures
        BY <3>5 DEF OpenFigures
    <3>8. v <= figures.total + changes
      <4>1. r <= figures.total + changes
          BY <1>3, <1>4, <2>4 DEF AgreeInv, PastTotal, PastOpen, PastStatus
      <4> QED BY <1>3, <1>5, <1>6, <3>3, <4>1
    <3>7. AgreeInv'
        BY <1>1, <1>3, <1>4, <1>5, <1>6, <2>4, <3>2, <3>5, <3>6, <3>8, SMTT(30)
           DEF AgreeInv, Near, PastTotal, PastOpen, PastStatus, PastReview, PastType, PastSource,
               PastBlocks, PastReason
    <3> QED BY <1>1, <1>3, <1>8, <2>4, <3>2, <3>4, <3>7, Counting DEF After
  <2>5. CASE count = "type"
    <3>1. PICK v : v = [k \in Kinds |-> Counted({c \in ToSet(rows) : c.type = k})]
        OBVIOUS
    <3>2. count' = "source" /\ figures' = [figures EXCEPT !.type = v]
        BY <1>1, <1>8, <2>5, <3>1 DEF Count, After
    <3>3. v \in [Kinds -> Nat] /\ Sum(v) = r
        BY <1>3, <1>4, <3>1, CountedParts
    <3>4. figures' \in FigureTypes /\ figures'.resolved = 0
        BY <1>3, <1>5, <3>2, <3>3 DEF FigureTypes
    <3>5. /\ figures'.total = figures.total /\ figures'.open = figures.open
          /\ figures'.review = figures.review /\ figures'.blocks = figures.blocks
          /\ figures'.status = figures.status /\ figures'.type = v
          /\ figures'.source = figures.source /\ figures'.reason = figures.reason
        BY <1>3, <3>2 DEF FigureTypes
    <3>6. OpenFigures' = OpenFigures
        BY <3>5 DEF OpenFigures
    <3>7. AgreeInv'
        BY <1>1, <1>3, <1>4, <1>5, <1>6, <2>5, <3>2, <3>3, <3>5, <3>6, SMTT(30)
           DEF AgreeInv, Near, PastTotal, PastOpen, PastStatus, PastReview, PastType, PastSource,
               PastBlocks, PastReason
    <3> QED BY <1>1, <1>3, <1>8, <2>5, <3>2, <3>4, <3>7, Counting DEF After
  <2>6. CASE count = "source"
    <3>1. PICK v : v = [s \in Sources |-> Counted({c \in ToSet(rows) : c.source = s})]
        OBVIOUS
    <3>2. count' = "blocks" /\ figures' = [figures EXCEPT !.source = v]
        BY <1>1, <1>8, <2>6, <3>1 DEF Count, After
    <3>3. v \in [Sources -> Nat] /\ Sum(v) = r
        BY <1>3, <1>4, <3>1, CountedParts
    <3>4. figures' \in FigureTypes /\ figures'.resolved = 0
        BY <1>3, <1>5, <3>2, <3>3 DEF FigureTypes
    <3>5. /\ figures'.total = figures.total /\ figures'.open = figures.open
          /\ figures'.review = figures.review /\ figures'.blocks = figures.blocks
          /\ figures'.status = figures.status /\ figures'.type = figures.type
          /\ figures'.source = v /\ figures'.reason = figures.reason
        BY <1>3, <3>2 DEF FigureTypes
    <3>6. OpenFigures' = OpenFigures
        BY <3>5 DEF OpenFigures
    <3>7. AgreeInv'
        BY <1>1, <1>3, <1>4, <1>5, <1>6, <2>6, <3>2, <3>3, <3>5, <3>6, SMTT(30)
           DEF AgreeInv, Near, PastTotal, PastOpen, PastStatus, PastReview, PastType, PastSource,
               PastBlocks, PastReason
    <3> QED BY <1>1, <1>3, <1>8, <2>6, <3>2, <3>4, <3>7, Counting DEF After
  <2>7. CASE count = "blocks"
    <3>1. PICK v : v = Len(bans)
        OBVIOUS
    <3>2. count' = "reason" /\ figures' = [figures EXCEPT !.blocks = v]
        BY <1>1, <1>8, <2>7, <3>1 DEF Count, After
    <3>3. v = b
        BY <1>4, <3>1
    <3>4. figures' \in FigureTypes /\ figures'.resolved = 0
        BY <1>3, <1>5, <3>2, <3>3 DEF FigureTypes
    <3>5. /\ figures'.total = figures.total /\ figures'.open = figures.open
          /\ figures'.review = figures.review /\ figures'.blocks = v
          /\ figures'.status = figures.status /\ figures'.type = figures.type
          /\ figures'.source = figures.source /\ figures'.reason = figures.reason
        BY <1>3, <3>2 DEF FigureTypes
    <3>6. OpenFigures' = OpenFigures
        BY <3>5 DEF OpenFigures
    <3>7. AgreeInv'
        BY <1>1, <1>3, <1>4, <1>5, <1>6, <2>7, <3>2, <3>3, <3>5, <3>6, SMTT(30)
           DEF AgreeInv, Near, PastTotal, PastOpen, PastStatus, PastReview, PastType, PastSource,
               PastBlocks, PastReason
    <3> QED BY <1>1, <1>3, <1>8, <2>7, <3>2, <3>4, <3>7, Counting DEF After
  <2>8. CASE count = "reason"
    <3>1. PICK v : v = [x \in Reasons |-> Cardinality({i \in DOMAIN bans : bans[i] = x})]
        OBVIOUS
    <3>2. count' = "resolved" /\ figures' = [figures EXCEPT !.reason = v]
        BY <1>1, <1>8, <2>8, <3>1 DEF Count, After
    <3>3. v \in [Reasons -> Nat] /\ Sum(v) = b
        BY <1>3, <1>4, <3>1, CountedParts
    <3>4. figures' \in FigureTypes /\ figures'.resolved = 0
        BY <1>3, <1>5, <3>2, <3>3 DEF FigureTypes
    <3>5. /\ figures'.total = figures.total /\ figures'.open = figures.open
          /\ figures'.review = figures.review /\ figures'.blocks = figures.blocks
          /\ figures'.status = figures.status /\ figures'.type = figures.type
          /\ figures'.source = figures.source /\ figures'.reason = v
        BY <1>3, <3>2 DEF FigureTypes
    <3>6. OpenFigures' = OpenFigures
        BY <3>5 DEF OpenFigures
    <3>7. AgreeInv'
        BY <1>1, <1>3, <1>4, <1>5, <1>6, <2>8, <3>2, <3>3, <3>5, <3>6, SMTT(30)
           DEF AgreeInv, Near, PastTotal, PastOpen, PastStatus, PastReview, PastType, PastSource,
               PastBlocks, PastReason
    <3> QED BY <1>1, <1>3, <1>8, <2>8, <3>2, <3>4, <3>7, Counting DEF After
  <2>9. CASE count = "resolved"
    <3>1. PICK v : v = Cardinality({i \in DOMAIN rows : rows[i].status \notin OpenStatuses /\ rows[i].age >= Never})
        OBVIOUS
    <3>2. count' = "done" /\ figures' = [figures EXCEPT !.resolved = v]
        BY <1>1, <1>8, <2>9, <3>1 DEF Count, After
    <3>3. v = 0
      <4>0. rows \in Seq(Row)
          BY <1>3 DEF AnalyticsType
      <4>1. ASSUME NEW i \in DOMAIN rows PROVE rows[i].age \in Ages
        <5>1. rows[i] \in Row
            BY <4>0
        <5> QED BY <5>1 DEF Row
      <4>2. ASSUME NEW i \in DOMAIN rows PROVE ~(rows[i].age >= Never)
        <5>1. PICK a \in Ages : a = rows[i].age
            BY <4>1
        <5>2. a \in Nat /\ Never \in Nat /\ a < Never
            BY AnalyticsAssumption
        <5>3. ~(a >= Never)
            BY <5>2
        <5> QED BY <5>1, <5>3
      <4>3. {i \in DOMAIN rows : rows[i].status \notin OpenStatuses /\ rows[i].age >= Never} = {}
          BY <4>2
      <4> QED BY <3>1, <4>3, FS_EmptySet
    <3>4. figures' \in FigureTypes /\ figures'.resolved = 0
        BY <1>3, <1>5, <3>2, <3>3 DEF FigureTypes
    <3>5. /\ figures'.total = figures.total /\ figures'.open = figures.open
          /\ figures'.review = figures.review /\ figures'.blocks = figures.blocks
          /\ figures'.status = figures.status /\ figures'.type = figures.type
          /\ figures'.source = figures.source /\ figures'.reason = figures.reason
        BY <1>3, <3>2 DEF FigureTypes
    <3>6. OpenFigures' = OpenFigures
        BY <3>5 DEF OpenFigures
    <3>7. AgreeInv'
        BY <1>1, <1>3, <1>4, <1>5, <1>6, <2>9, <3>2, <3>3, <3>5, <3>6, SMTT(30)
           DEF AgreeInv, Near, PastTotal, PastOpen, PastStatus, PastReview, PastType, PastSource,
               PastBlocks, PastReason
    <3> QED BY <1>1, <1>3, <1>8, <2>9, <3>2, <3>4, <3>7, Counting DEF After
  <2> QED BY <1>2, <2>1, <2>2, <2>3, <2>4, <2>5, <2>6, <2>7, <2>8, <2>9
<1> QED BY <1>7, <1>8

\* The figures of one answer of GetAnalytics contradict each other by no more cases or blocks than
\* changed while they were counted, whatever is asked for and however often anything changes.
THEOREM CountsCorrect == AnalyticsSpec => []CountsAgree
<1>1. AnalyticsInit => AnalyticsInv
    BY InitAnalytics
<1>2. AnalyticsInv /\ [AnalyticsNext]_analytics => AnalyticsInv'
  <2> SUFFICES ASSUME AnalyticsInv, [AnalyticsNext]_analytics PROVE AnalyticsInv'
      OBVIOUS
  <2>1. CASE UNCHANGED analytics
    <3>1. UNCHANGED <<rows, bans, request, count, figures, changes>>
        BY <2>1 DEF analytics
    <3>2. Recent' = Recent /\ Opens' = Opens /\ OpenFigures' = OpenFigures
        BY <3>1 DEF Recent, Opens, OpenFigures
    <3>3. AgreeInv' <=> AgreeInv
        BY <3>1, <3>2 DEF AgreeInv, Near
    <3> QED BY <3>1, <3>3 DEF AnalyticsInv, AnalyticsType, TableInv, FilterInv
  <2> QED BY <2>1, StepAsk, StepTabulate, StepCount, StepOpenedBefore, StepOpenCase, StepChangeCase, StepBan
             DEF AnalyticsNext
<1>3. AnalyticsInv => CountsAgree
    BY InvImpliesCounts
<1> QED BY <1>1, <1>2, <1>3, PTL DEF AnalyticsSpec

-----------------------------------------------------------------------------
(* Recursion. *)

\* What holds of nothing, and of each step after the one before, holds of all steps.
LEMMA StepByStep ==
    ASSUME NEW N \in Nat, NEW S, 0 \in S, \A m \in 1..N : m - 1 \in S => m \in S
    PROVE  \A m \in 0..N : m \in S
<1> DEFINE Bad == {m \in 0..N : m \notin S}
<1>1. SUFFICES ASSUME Bad # {} PROVE FALSE
    OBVIOUS
<1>2. Bad \subseteq Nat
    OBVIOUS
<1>3. PICK m \in Bad : \A l \in Bad : m <= l
    BY <1>1, <1>2, Least
<1>4. m \in 1..N /\ m - 1 \in 0..N /\ ~(m <= m - 1)
    BY <1>3
<1>5. m - 1 \in S
    BY <1>3, <1>4
<1> QED BY <1>3, <1>4, <1>5

\* A recursion of N steps, and that it has a solution.
Solution(V, N, first, next, h) ==
    h \in [0..N -> V] /\ h[0] = first /\ \A m \in 1..N : h[m] = next[<<m, h[m - 1]>>]

LEMMA Recursion ==
    ASSUME NEW V, NEW N \in Nat, NEW first \in V, NEW next \in [(1..N) \X V -> V]
    PROVE  \E h : Solution(V, N, first, next, h)
<1> DEFINE Solves(h, n) == h[0] = first /\ \A m \in 1..n : h[m] = next[<<m, h[m - 1]>>]
           S == {n \in 0..N : \E h \in [0..n -> V] : Solves(h, n)}
<1>1. 0 \in S
  <2> DEFINE h == [m \in 0..0 |-> first]
  <2>1. h \in [0..0 -> V] /\ h[0] = first
      OBVIOUS
  <2>2. \A m \in 1..0 : FALSE
      OBVIOUS
  <2>3. Solves(h, 0)
      BY <2>1, <2>2
  <2>4. \E g \in [0..0 -> V] : Solves(g, 0)
    <3> HIDE DEF h
    <3> QED BY <2>1, <2>3
  <2>5. 0 \in 0..N
      OBVIOUS
  <2> HIDE DEF Solves
  <2> QED BY <2>4, <2>5
<1>2. ASSUME NEW n \in 1..N, n - 1 \in S PROVE n \in S
  <2>1. PICK g \in [0..(n - 1) -> V] : Solves(g, n - 1)
      BY <1>2
  <2>2. PICK last \in V : last = next[<<n, g[n - 1]>>]
    <3>1. n - 1 \in 0..(n - 1)
        OBVIOUS
    <3>2. <<n, g[n - 1]>> \in (1..N) \X V
        BY <3>1
    <3> QED BY <3>2
  <2> DEFINE h == [m \in 0..n |-> IF m = n THEN last ELSE g[m]]
  <2>3. \A m \in 0..n : m # n => m \in 0..(n - 1)
      OBVIOUS
  <2>4. h \in [0..n -> V]
      BY <2>3
  <2>5. h[0] = first
      BY <2>1
  <2>6. ASSUME NEW m \in 1..n PROVE h[m] = next[<<m, h[m - 1]>>]
    <3>1. m - 1 \in 0..n /\ m - 1 # n /\ m \in 0..n
        OBVIOUS
    <3>2. h[m - 1] = g[m - 1]
        BY <3>1
    <3>3. CASE m = n
        BY <2>2, <3>1, <3>2, <3>3
    <3>4. CASE m # n
      <4>1. m \in 1..(n - 1) /\ h[m] = g[m]
          BY <3>1, <3>4
      <4> QED BY <2>1, <3>2, <4>1
    <3> QED BY <3>3, <3>4
  <2> HIDE DEF h
  <2>7. Solves(h, n)
      BY <2>5, <2>6
  <2> QED BY <1>2, <2>4, <2>7
<1> HIDE DEF Solves
<1>3. N \in S
  <2>1. \A m \in 0..N : m \in S
    <3> HIDE DEF S
    <3> QED BY <1>1, <1>2, StepByStep
  <2> QED BY <2>1
<1> QED BY <1>3 DEF Solves, Solution

-----------------------------------------------------------------------------
(* Providers: the exchange sort. *)

\* Sequences of n providers.
Rank(P) == \A p \in P : p.priority \in Int

\* From place i on, t has what s has; before it they are the same.
SameFrom(i, n, s, t) ==
    /\ \A k \in 1..n : k < i => t[k] = s[k]
    /\ \A k \in i..n : \E l \in i..n : t[k] = s[l]
    /\ \A k \in i..n : \E l \in i..n : s[k] = t[l]

\* An exchange of places i and j leaves a smaller number at i than there was, and than is at j.
Exchanges(P, n, i, j, s, t) ==
    /\ t \in [1..n -> P] /\ SameFrom(i, n, s, t)
    /\ t[i].priority <= t[j].priority /\ t[i].priority <= s[i].priority
    /\ \A k \in 1..n : k # i /\ k # j => t[k] = s[k]

LEMMA Exchanged ==
    ASSUME NEW P, Rank(P), NEW n \in Nat, NEW s \in [1..n -> P], NEW i \in 1..n, NEW j \in 1..n, i < j
    PROVE  Exchanges(P, n, i, j, s, Exchange(s, i, j))
<1>1. PICK t : t = Exchange(s, i, j)
    OBVIOUS
<1>2. s[i] \in P /\ s[j] \in P /\ s[i].priority \in Int /\ s[j].priority \in Int
    BY DEF Rank
<1>3. CASE s[j].priority < s[i].priority
  <2>1. t = [s EXCEPT ![i] = s[j], ![j] = s[i]]
      BY <1>1, <1>3 DEF Exchange, Sooner
  <2>2. t \in [1..n -> P] /\ t[i] = s[j] /\ t[j] = s[i] /\ \A k \in 1..n : k # i /\ k # j => t[k] = s[k]
      BY <1>2, <2>1
  <2>3. i \in i..n /\ j \in i..n /\ \A k \in i..n : k \in 1..n
      OBVIOUS
  <2>4. SameFrom(i, n, s, t)
    <3>1. \A k \in 1..n : k < i => t[k] = s[k]
        BY <2>2
    <3>2. \A k \in i..n : (\E l \in i..n : t[k] = s[l]) /\ (\E l \in i..n : s[k] = t[l])
        BY <2>2, <2>3
    <3> QED BY <3>1, <3>2 DEF SameFrom
  <2> QED BY <1>1, <1>2, <1>3, <2>2, <2>4 DEF Exchanges
<1>4. CASE ~(s[j].priority < s[i].priority)
  <2>1. t = s
      BY <1>1, <1>4 DEF Exchange, Sooner
  <2>2. SameFrom(i, n, s, t)
      BY <2>1 DEF SameFrom
  <2> QED BY <1>1, <1>2, <1>4, <2>1, <2>2 DEF Exchanges
<1> QED BY <1>3, <1>4

LEMMA SameFromSame ==
    ASSUME NEW i, NEW n, NEW s, NEW t, NEW u, SameFrom(i, n, s, t), SameFrom(i, n, t, u)
    PROVE  SameFrom(i, n, s, u)
<1>1. \A k \in 1..n : k < i => u[k] = s[k]
    BY DEF SameFrom
<1>2. ASSUME NEW k \in i..n PROVE (\E l \in i..n : u[k] = s[l]) /\ (\E l \in i..n : s[k] = u[l])
  <2>1. PICK l \in i..n : u[k] = t[l]
      BY DEF SameFrom
  <2>2. PICK m \in i..n : s[k] = t[m]
      BY DEF SameFrom
  <2>3. PICK b \in i..n : u[k] = s[b]
    <3>1. PICK a \in i..n : t[l] = s[a]
        BY <2>1 DEF SameFrom
    <3> QED BY <2>1, <3>1
  <2>4. PICK a \in i..n : t[m] = u[a]
      BY <2>2 DEF SameFrom
  <2> QED BY <2>2, <2>3, <2>4
<1> QED BY <1>1, <1>2 DEF SameFrom

\* After a pass place i has a smallest number of those from i on.
LEMMA PassSorts ==
    ASSUME NEW P, Rank(P), NEW n \in Nat, NEW s \in [1..n -> P], NEW i \in 1..n
    PROVE  /\ Pass(s, i) \in [1..n -> P] /\ SameFrom(i, n, s, Pass(s, i))
           /\ \A k \in i..n : Pass(s, i)[i].priority <= Pass(s, i)[k].priority
<1>1. PICK N \in Nat : N = n - i
    OBVIOUS
<1>2. PICK V : V = [1..n -> P]
    OBVIOUS
<1>3. PICK next : next = [p \in (1..N) \X V |-> Exchange(p[2], i, i + p[1])]
    OBVIOUS
<1>4. Len(s) = n /\ N = n - i /\ \A m \in 1..N : i + m \in 1..n /\ i < i + m /\ m - 1 \in 0..N
    BY <1>1
<1>5. next \in [(1..N) \X V -> V]
  <2>1. ASSUME NEW p \in (1..N) \X V PROVE Exchange(p[2], i, i + p[1]) \in V
      BY <1>4, <1>2, Exchanged DEF Exchanges
  <2> QED BY <1>3, <2>1
<1>6. PICK g : Solution(V, N, s, next, g)
    BY <1>5, <1>2, Recursion
<1>7. g \in [0..N -> V] /\ g[0] = s /\ \A m \in 1..N : g[m] = next[<<m, g[m - 1]>>]
    BY <1>6 DEF Solution
<1>8. \A m \in 1..N : g[m] = Exchange(g[m - 1], i, i + m)
  <2>1. TAKE m \in 1..N
  <2>2. g[m - 1] \in V
      BY <1>4, <1>7
  <2>3. g[m] = next[<<m, g[m - 1]>>] /\ <<m, g[m - 1]>> \in (1..N) \X V
      BY <1>7, <2>2
  <2> QED BY <1>3, <2>3
<1> DEFINE met == CHOOSE h : h = [k \in 0..(Len(s) - i) |-> IF k = 0 THEN s ELSE Exchange(h[k - 1], i, i + k)]
<1>9. Pass(s, i) = met[Len(s) - i]
    BY Zenon DEF Pass
<1>10. g = [k \in 0..(Len(s) - i) |-> IF k = 0 THEN s ELSE Exchange(g[k - 1], i, i + k)]
  <2>1. g = [k \in 0..(Len(s) - i) |-> g[k]]
      BY <1>4, <1>7
  <2>2. \A k \in 0..(Len(s) - i) : g[k] = IF k = 0 THEN s ELSE Exchange(g[k - 1], i, i + k)
    <3>1. \A k \in 0..(Len(s) - i) : k = 0 \/ k \in 1..N
        BY <1>4
    <3> QED BY <1>7, <1>8, <3>1
  <2>3. [k \in 0..(Len(s) - i) |-> g[k]]
           = [k \in 0..(Len(s) - i) |-> IF k = 0 THEN s ELSE Exchange(g[k - 1], i, i + k)]
      BY <2>2, Zenon
  <2> QED BY <2>1, <2>3, Zenon
<1>11. met = [k \in 0..(Len(s) - i) |-> IF k = 0 THEN s ELSE Exchange(met[k - 1], i, i + k)]
    BY <1>10, Zenon
<1> HIDE DEF met
<1>12. met[0] = s /\ \A m \in 1..N : met[m] = Exchange(met[m - 1], i, i + m)
  <2>1. 0 \in 0..(Len(s) - i) /\ \A m \in 1..N : m \in 0..(Len(s) - i) /\ m # 0
      BY <1>4
  <2> QED BY <1>11, <2>1, Zenon
<1> DEFINE S == {m \in 0..N : /\ met[m] \in V /\ SameFrom(i, n, s, met[m])
                              /\ \A k \in i..(i + m) : met[m][i].priority <= met[m][k].priority}
<1>13. 0 \in S
  <2>1. SameFrom(i, n, s, s)
      BY DEF SameFrom
  <2>2. \A k \in i..(i + 0) : k = i
      OBVIOUS
  <2>3. s[i].priority \in Int
      BY DEF Rank
  <2> QED BY <1>4, <1>12, <1>2, <2>1, <2>2, <2>3
<1>14. ASSUME NEW m \in 1..N, m - 1 \in S PROVE m \in S
  <2>1. PICK t : t = met[m - 1]
      OBVIOUS
  <2>2. PICK u : u = met[m]
      OBVIOUS
  <2>3. PICK j \in 1..n : j = i + m /\ i < j /\ \A k \in i..j : k \in 1..n /\ (k # j => k \in i..(i + (m - 1)))
      BY <1>4
  <2>4. t \in V /\ SameFrom(i, n, s, t) /\ \A k \in i..(i + (m - 1)) : t[i].priority <= t[k].priority
      BY <1>14, <2>1
  <2>5. u = Exchange(t, i, j)
      BY <1>12, <2>1, <2>2, <2>3
  <2>6. /\ u \in V /\ SameFrom(i, n, t, u)
        /\ u[i].priority <= u[j].priority /\ u[i].priority <= t[i].priority
        /\ \A k \in 1..n : k # i /\ k # j => u[k] = t[k]
    <3>1. Exchanges(P, n, i, j, t, Exchange(t, i, j))
        BY <1>2, <2>3, <2>4, Exchanged
    <3> QED BY <1>2, <2>5, <3>1 DEF Exchanges
  <2>7. SameFrom(i, n, s, u)
      BY <2>4, <2>6, SameFromSame
  <2>8. \A k \in 1..n : u[k].priority \in Int /\ t[k].priority \in Int
      BY <1>2, <2>4, <2>6 DEF Rank
  <2>9. ASSUME NEW k \in i..j PROVE u[i].priority <= u[k].priority
    <3>1. CASE k = i
        BY <2>8, <3>1
    <3>2. CASE k = j
        BY <2>6, <3>2
    <3>3. CASE k # i /\ k # j
      <4>1. u[k] = t[k] /\ t[i].priority <= t[k].priority /\ k \in 1..n
          BY <2>3, <2>4, <2>6, <3>3
      <4> QED BY <2>6, <2>8, <4>1
    <3> QED BY <3>1, <3>2, <3>3
  <2>10. m \in 0..N
      OBVIOUS
  <2> QED BY <2>2, <2>3, <2>6, <2>7, <2>9, <2>10
<1>15. N \in S
  <2>1. \A m \in 0..N : m \in S
    <3> HIDE DEF S
    <3> QED BY <1>4, <1>13, <1>14, StepByStep
  <2> QED BY <1>4, <2>1
<1>16. i + N = n /\ Len(s) - i = N
    BY <1>4
<1> QED BY <1>9, <1>15, <1>16, <1>2

\* The sort leaves the same providers, in the order of their numbers.
LEMMA SortedSorts ==
    ASSUME NEW P, Rank(P), NEW n \in Nat, NEW order \in [1..n -> P]
    PROVE  /\ Sorted(order) \in [1..n -> P] /\ SameFrom(1, n, order, Sorted(order))
           /\ \A a \in 1..n, b \in 1..n : a < b => Sorted(order)[a].priority <= Sorted(order)[b].priority
<1>1. PICK V : V = [1..n -> P]
    OBVIOUS
<1>2. PICK next : next = [p \in (1..n) \X V |-> Pass(p[2], p[1])]
    OBVIOUS
<1>3. Len(order) = n
    OBVIOUS
<1>4. next \in [(1..n) \X V -> V]
  <2>1. ASSUME NEW p \in (1..n) \X V PROVE Pass(p[2], p[1]) \in V
      BY <1>1, PassSorts
  <2> QED BY <1>2, <2>1
<1>5. PICK g : Solution(V, n, order, next, g)
    BY <1>4, <1>1, Recursion
<1>6. g \in [0..n -> V] /\ g[0] = order /\ \A m \in 1..n : g[m] = next[<<m, g[m - 1]>>]
    BY <1>5 DEF Solution
<1>7. \A m \in 1..n : g[m] = Pass(g[m - 1], m)
  <2>1. TAKE m \in 1..n
  <2>2. g[m - 1] \in V
      BY <1>6
  <2>3. g[m] = next[<<m, g[m - 1]>>] /\ <<m, g[m - 1]>> \in (1..n) \X V
      BY <1>6, <2>2
  <2> QED BY <1>2, <2>3
<1> DEFINE passed == CHOOSE h : h = [i \in 0..Len(order) |-> IF i = 0 THEN order ELSE Pass(h[i - 1], i)]
<1>8. Sorted(order) = passed[Len(order)]
    BY Zenon DEF Sorted
<1>9. g = [i \in 0..Len(order) |-> IF i = 0 THEN order ELSE Pass(g[i - 1], i)]
  <2>1. g = [i \in 0..Len(order) |-> g[i]]
      BY <1>3, <1>6
  <2>2. \A i \in 0..Len(order) : g[i] = IF i = 0 THEN order ELSE Pass(g[i - 1], i)
    <3>1. \A i \in 0..Len(order) : i = 0 \/ i \in 1..n
        BY <1>3
    <3> QED BY <1>6, <1>7, <3>1
  <2>3. [i \in 0..Len(order) |-> g[i]] = [i \in 0..Len(order) |-> IF i = 0 THEN order ELSE Pass(g[i - 1], i)]
      BY <2>2, Zenon
  <2> QED BY <2>1, <2>3, Zenon
<1>10. passed = [i \in 0..Len(order) |-> IF i = 0 THEN order ELSE Pass(passed[i - 1], i)]
    BY <1>9, Zenon
<1> HIDE DEF passed
<1>11. passed[0] = order /\ \A m \in 1..n : passed[m] = Pass(passed[m - 1], m)
  <2>1. 0 \in 0..Len(order) /\ \A m \in 1..n : m \in 0..Len(order) /\ m # 0
      BY <1>3
  <2> QED BY <1>10, <2>1, Zenon
<1> DEFINE S == {m \in 0..n : /\ passed[m] \in V /\ SameFrom(1, n, order, passed[m])
                              /\ \A a \in 1..m, b \in 1..n : a < b => passed[m][a].priority <= passed[m][b].priority}
<1>12. 0 \in S
  <2>1. SameFrom(1, n, order, order)
      BY DEF SameFrom
  <2>2. \A a \in 1..0 : FALSE
      OBVIOUS
  <2>3. 0 \in 0..n
      OBVIOUS
  <2> QED BY <1>11, <1>1, <2>1, <2>2, <2>3
<1>13. ASSUME NEW m \in 1..n, m - 1 \in S PROVE m \in S
  <2>1. PICK t : t = passed[m - 1]
      OBVIOUS
  <2>2. PICK u : u = passed[m]
      OBVIOUS
  <2>3. /\ t \in V /\ SameFrom(1, n, order, t)
        /\ \A a \in 1..(m - 1), b \in 1..n : a < b => t[a].priority <= t[b].priority
      BY <1>13, <2>1
  <2>4. u = Pass(t, m)
      BY <1>11, <2>1, <2>2
  <2>5. u \in V /\ SameFrom(m, n, t, u) /\ \A k \in m..n : u[m].priority <= u[k].priority
      BY <1>1, <2>3, <2>4, PassSorts
  <2>6. SameFrom(1, n, t, u)
    <3>1. \A k \in 1..n : ~(k < 1) /\ (k < m \/ k \in m..n)
        OBVIOUS
    <3>2. \A k \in m..n : k \in 1..n
        OBVIOUS
    <3> QED BY <2>5, <3>1, <3>2 DEF SameFrom
  <2>7. SameFrom(1, n, order, u)
      BY <2>3, <2>6, SameFromSame
  <2>8. ASSUME NEW a \in 1..m, NEW b \in 1..n, a < b PROVE u[a].priority <= u[b].priority
    <3>1. CASE a = m
      <4>1. b \in m..n
          BY <2>8, <3>1
      <4> QED BY <2>5, <3>1, <4>1
    <3>2. CASE a # m
      <4>1. a \in 1..(m - 1) /\ a \in 1..n /\ a < m
          BY <3>2
      <4>2. u[a] = t[a]
          BY <2>5, <4>1 DEF SameFrom
      <4>3. \E c \in 1..n : a < c /\ u[b] = t[c]
        <5>1. CASE b < m
          <6>1. u[b] = t[b]
              BY <2>5, <5>1 DEF SameFrom
          <6> QED BY <2>8, <6>1
        <5>2. CASE ~(b < m)
          <6>1. b \in m..n
              BY <5>2
          <6>2. PICK c \in m..n : u[b] = t[c]
              BY <2>5, <6>1 DEF SameFrom
          <6>3. c \in 1..n /\ a < c
              BY <4>1
          <6> QED BY <6>2, <6>3
        <5> QED BY <5>1, <5>2
      <4> QED BY <2>3, <4>1, <4>2, <4>3
    <3> QED BY <3>1, <3>2
  <2>9. m \in 0..n
      OBVIOUS
  <2> QED BY <2>2, <2>5, <2>7, <2>8, <2>9
<1>14. n \in S
  <2>1. \A m \in 0..n : m \in S
    <3> HIDE DEF S
    <3> QED BY <1>12, <1>13, StepByStep
  <2> QED BY <2>1
<1> QED BY <1>3, <1>8, <1>14, <1>1

-----------------------------------------------------------------------------
(* Providers: detection. *)

\* An order of a set is a sequence of its elements that has each of them.
LEMMA OrderHasAll ==
    ASSUME NEW P, IsFiniteSet(P), NEW order \in SetToSeqs(P)
    PROVE  /\ Cardinality(P) \in Nat /\ order \in [1..Cardinality(P) -> P]
           /\ \A p \in P : \E i \in 1..Cardinality(P) : order[i] = p
<1>1. PICK n \in Nat : n = Cardinality(P)
    BY FS_CardinalityType
<1>2. order \in [1..n -> P] /\ \A i \in 1..n, j \in 1..n : i # j => order[i] # order[j]
    BY <1>1, Zenon DEF SetToSeqs
<1>3. ASSUME NEW p \in P, \A i \in 1..n : order[i] # p PROVE FALSE
  <2>1. IsFiniteSet(P \ {p}) /\ Cardinality(P \ {p}) = n - 1
      BY <1>1, FS_RemoveElement
  <2>2. IsFiniteSet(1..n) /\ Cardinality(1..n) = n
    <3>1. 0 + 1 = 1 /\ n - 1 + 1 = n /\ (1 > n => n = 0)
        OBVIOUS
    <3> QED BY <3>1, FS_Interval
  <2>3. order \in [1..n -> P \ {p}]
      BY <1>2, <1>3
  <2>4. \E i \in 1..n, j \in 1..n : i # j /\ order[i] = order[j]
    <3>1. n - 1 < n
        OBVIOUS
    <3> QED BY <2>1, <2>2, <2>3, <3>1, FS_PigeonHole
  <2> QED BY <1>2, <2>4
<1> QED BY <1>1, <1>2, <1>3

\* The first of the sorted providers that has one of the signs of a mail.
IsDetected(P, mail, id) ==
    LET Detecting == {p \in P : p.signs \cap mail.signs # {}} IN
    /\ id = "" <=> Detecting = {}
    /\ id # "" => \E p \in Detecting : p.id = id /\ \A q \in Detecting : p.priority <= q.priority

LEMMA Ranks ==
    /\ \A n \in Nat : 1..n \subseteq Nat /\ \A a \in 1..n, b \in 1..n : a <= b /\ a # b => a < b
    /\ \A x \in Int : x <= x
    OBVIOUS

LEMMA FirstIsDetected ==
    ASSUME NEW P, IsFiniteSet(P), \A p \in P : p.id # "" /\ p.priority \in Int, NEW mail,
           NEW sorted \in {Sorted(order) : order \in SetToSeqs(P)}, NEW hits,
           hits = {i \in DOMAIN sorted : sorted[i].signs \cap mail.signs # {}}
    PROVE  IsDetected(P, mail, IF hits = {} THEN "" ELSE sorted[Min(hits)].id)
<1>1. PICK order \in SetToSeqs(P) : sorted = Sorted(order)
    OBVIOUS
<1>2. PICK n \in Nat : n = Cardinality(P)
    BY FS_CardinalityType
<1>3. order \in [1..n -> P] /\ \A p \in P : \E i \in 1..n : order[i] = p
  <2>1. /\ order \in [1..Cardinality(P) -> P]
        /\ \A p \in P : \E i \in 1..Cardinality(P) : order[i] = p
      BY <1>1, OrderHasAll, Zenon
  <2> QED BY <1>2, <2>1, Zenon
<1>4. /\ sorted \in [1..n -> P] /\ SameFrom(1, n, order, sorted)
      /\ \A a \in 1..n, b \in 1..n : a < b => sorted[a].priority <= sorted[b].priority
  <2>1. Rank(P)
      BY DEF Rank
  <2> QED BY <1>1, <1>3, <2>1, SortedSorts
<1>5. \A p \in P : \E i \in 1..n : sorted[i] = p
  <2>1. TAKE p \in P
  <2>2. PICK k \in 1..n : order[k] = p
      BY <1>3
  <2> QED BY <1>4, <2>2 DEF SameFrom
<1> DEFINE Detecting == {p \in P : p.signs \cap mail.signs # {}}
<1>6. hits \subseteq 1..n /\ hits \subseteq Nat /\ \A i \in 1..n : i \in hits <=> sorted[i] \in Detecting
  <2>1. DOMAIN sorted = 1..n /\ \A i \in 1..n : sorted[i] \in P
      BY <1>4
  <2>2. hits \subseteq 1..n
      BY <2>1
  <2>3. \A i \in 1..n : i \in hits <=> sorted[i] \in Detecting
      BY <2>1, Zenon
  <2>4. 1..n \subseteq Nat
      BY Ranks, Zenon
  <2> QED BY <2>2, <2>3, <2>4, Zenon
<1>7. CASE hits = {}
  <2>1. Detecting = {}
      BY <1>5, <1>6, <1>7
  <2> QED BY <1>7, <2>1 DEF IsDetected
<1>8. CASE hits # {}
  <2>1. \E x \in hits : \A y \in hits : x <= y
      BY <1>6, <1>8, Least
  <2>2. PICK m : m = Min(hits)
      OBVIOUS
  <2>3. m \in hits /\ \A y \in hits : m <= y
      BY <2>1, <2>2, Zenon DEF Min
  <2>4. m \in 1..n /\ sorted[m] \in Detecting
      BY <1>6, <2>3
  <2>5. ASSUME NEW q \in Detecting PROVE sorted[m].priority <= q.priority
    <3>1. PICK k \in 1..n : sorted[k] = q
        BY <1>5
    <3>2. m <= k
        BY <1>6, <2>3, <3>1
    <3>3. CASE m = k
      <4>1. sorted[m].priority = q.priority
          BY <3>1, <3>3, Zenon
      <4>2. q.priority \in Int
          OBVIOUS
      <4> QED BY <4>1, <4>2, Ranks, Zenon
    <3>4. CASE m # k
      <4>1. m \in 1..n /\ m < k
          BY <2>4, <3>2, <3>4, Ranks, Zenon
      <4>2. sorted[m].priority <= sorted[k].priority
          BY <1>4, <4>1, Zenon
      <4> QED BY <3>1, <4>2
    <3> QED BY <3>3, <3>4
  <2>6. sorted[m].id # ""
      BY <2>4
  <2> QED BY <1>8, <2>2, <2>4, <2>5, <2>6, Zenon DEF IsDetected
<1> QED BY <1>7, <1>8

-----------------------------------------------------------------------------
(* Providers: the invariant. *)

\* What every provider in the registry has, and what a mail still lacks before its template is known.
RegistryInv == IsFiniteSet(registry) /\ \A p \in registry : p.id # "" /\ p.priority \in Int
PipelineInv ==
    /\ at \in {"idle", "detected", "reporter", "case", "failed"}
    /\ at \in {"idle", "detected"} => template = ""
    /\ opened = {}
ProvidersInv == RegistryInv /\ PipelineInv /\ DetectedIsFirst

\* What registerTemplates and RegisterStandardProviders register.
LEMMA Standards ==
    \A ps \in {Registered, Standard} : IsFiniteSet(ps) /\ \A p \in ps : p.id # "" /\ p.priority \in Int
<1>1. \A a, b, c, d : IsFiniteSet({a, b}) /\ IsFiniteSet({a, b, c, d})
  <2>1. TAKE a, b, c, d
  <2>2. IsFiniteSet({a, b})
    <3>1. IsFiniteSet({a} \cup {b})
        BY FS_Singleton, FS_AddElement
    <3>2. {a} \cup {b} = {a, b}
        OBVIOUS
    <3> QED BY <3>1, <3>2
  <2>3. IsFiniteSet({a, b} \cup {c})
      BY <2>2, FS_AddElement
  <2>4. IsFiniteSet(({a, b} \cup {c}) \cup {d})
      BY <2>3, FS_AddElement
  <2>5. ({a, b} \cup {c}) \cup {d} = {a, b, c, d}
      OBVIOUS
  <2> QED BY <2>2, <2>4, <2>5
<1> DEFINE Fit(p) == p.id # "" /\ p.priority \in Int
<1>2. \A signs, t, n : n \in Int => /\ Fit(Provider("gmail", t, signs, n)) /\ Fit(Provider("microsoft", t, signs, n))
                                   /\ Fit(Provider("yahoo", t, signs, n)) /\ Fit(Provider("protonmail", t, signs, n))
    BY DEF Provider
<1>3. 10 \in Int /\ 20 \in Int /\ 30 \in Int /\ 40 \in Int
    OBVIOUS
<1> HIDE DEF Fit
<1>4. IsFiniteSet(Registered) /\ IsFiniteSet(Standard)
    BY <1>1, Zenon DEF Registered, Standard
<1>5. \A p \in Registered : Fit(p)
    BY <1>2, <1>3, Zenon DEF Registered
<1>6. ASSUME NEW p \in Standard PROVE Fit(p)
  <2>1. \E signs, t, n : n \in Int /\ \E id \in {"gmail", "microsoft", "yahoo", "protonmail"} :
                              p = Provider(id, t, signs, n)
      BY <1>3, Zenon DEF Standard
  <2> QED BY <1>2, <2>1, Zenon
<1> QED BY <1>4, <1>5, <1>6 DEF Fit

LEMMA InitProviders == ProvidersInit => ProvidersInv
<1> SUFFICES ASSUME ProvidersInit PROVE ProvidersInv
    OBVIOUS
<1>1. RegistryInv
  <2>1. registry = Registered
      BY DEF ProvidersInit
  <2> QED BY <2>1, Standards DEF RegistryInv
<1> QED BY <1>1 DEF ProvidersInv, PipelineInv, DetectedIsFirst, ProvidersInit

\* The registry stays one after providers took the places of those with their ids.
LEMMA WithIsRegistry ==
    ASSUME RegistryInv, NEW ps, IsFiniteSet(ps), \A p \in ps : p.id # "" /\ p.priority \in Int,
           registry' = With(ps)
    PROVE  RegistryInv'
<1>1. IsFiniteSet({r \in registry : \A p \in ps : p.id # r.id})
    BY FS_Subset DEF RegistryInv
<1>2. IsFiniteSet(registry')
    BY <1>1, FS_Union DEF With
<1> QED BY <1>2 DEF RegistryInv, With

\* While the registry changes the mail is where it was.
LEMMA BesideKeeps ==
    ASSUME PipelineInv, DetectedIsFirst, Beside
    PROVE  PipelineInv' /\ DetectedIsFirst'
<1>1. PipelineInv'
    BY DEF PipelineInv, Beside
<1>2. Reporter' = Reporter
    BY DEF Reporter, Beside
<1>3. DetectedIsFirst'
    BY <1>2 DEF DetectedIsFirst, Beside
<1> QED BY <1>1, <1>3

LEMMA StepProviders == ProvidersInv /\ [ProvidersNext]_providers => ProvidersInv'
<1> SUFFICES ASSUME ProvidersInv, [ProvidersNext]_providers PROVE ProvidersInv'
    OBVIOUS
<1> USE DEF ProvidersInv
<1>1. CASE RegisterStandardProviders
  <2>1. RegistryInv'
      BY <1>1, Standards, WithIsRegistry DEF RegisterStandardProviders
  <2> QED BY <1>1, <2>1, BesideKeeps DEF RegisterStandardProviders
<1>2. ASSUME NEW p \in Custom, RegisterProvider(p) PROVE ProvidersInv'
  <2>1. IsFiniteSet({p})
      BY FS_Singleton
  <2>2. RegistryInv'
      BY <1>2, <2>1, ProvidersAssumption, WithIsRegistry DEF RegisterProvider
  <2> QED BY <1>2, <2>2, BesideKeeps DEF RegisterProvider
<1>3. ASSUME NEW p \in registry, UnregisterProvider(p) PROVE ProvidersInv'
  <2>1. IsFiniteSet(registry \ {p})
      BY FS_Difference DEF RegistryInv
  <2>2. RegistryInv'
      BY <1>3, <2>1 DEF RegistryInv, UnregisterProvider
  <2> QED BY <1>3, <2>2, BesideKeeps DEF UnregisterProvider
<1>4. CASE DetectProvider
  <2>1. RegistryInv'
      BY <1>4 DEF RegistryInv, DetectProvider
  <2>2. PipelineInv'
      BY <1>4 DEF PipelineInv, DetectProvider
  <2>3. IsDetected(seen', parcel', provider')
    <3>1. PICK sorted \in {Sorted(order) : order \in SetToSeqs(registry)}, mail \in Parcels :
              LET hits == {i \in DOMAIN sorted : sorted[i].signs \cap mail.signs # {}} IN
                 /\ parcel' = mail
                 /\ provider' = IF hits = {} THEN "" ELSE sorted[Min(hits)].id
        BY <1>4, Zenon DEF DetectProvider
    <3>2. seen' = registry
        BY <1>4 DEF DetectProvider
    <3> DEFINE hits == {i \in DOMAIN sorted : sorted[i].signs \cap mail.signs # {}}
    <3>3. parcel' = mail /\ provider' = IF hits = {} THEN "" ELSE sorted[Min(hits)].id
        BY <3>1
    <3>4. IsDetected(registry, mail, IF hits = {} THEN "" ELSE sorted[Min(hits)].id)
        BY FirstIsDetected DEF RegistryInv
    <3> QED BY <3>2, <3>3, <3>4, Zenon
  <2>4. at' = "detected" /\ opened' = {}
      BY <1>4 DEF DetectProvider, PipelineInv
  <2>5. DetectedIsFirst'
      BY <2>3, <2>4 DEF IsDetected, DetectedIsFirst
  <2> QED BY <2>1, <2>2, <2>5
<1>5. CASE GetTemplate
  <2>1. RegistryInv' /\ PipelineInv'
      BY <1>5 DEF RegistryInv, PipelineInv, GetTemplate
  <2> QED BY <1>5, <2>1 DEF PipelineInv, DetectedIsFirst, GetTemplate
<1>6. CASE FindOrCreateReporter
  <2>1. RegistryInv' /\ PipelineInv'
      BY <1>6 DEF RegistryInv, PipelineInv, FindOrCreateReporter
  <2>2. Reporter' = Reporter
      BY <1>6 DEF Reporter, FindOrCreateReporter
  <2> QED BY <1>6, <2>1, <2>2 DEF DetectedIsFirst, FindOrCreateReporter
<1>7. CASE CreateTemplateCase
  <2>1. at' = "failed" /\ opened' = opened
      BY <1>7 DEF CreateTemplateCase, ValidCase
  <2>2. UNCHANGED <<registry, churn, parcel, provider, seen, template, reporters>> /\ at = "case"
      BY <1>7 DEF CreateTemplateCase
  <2>3. RegistryInv' /\ PipelineInv'
      BY <2>1, <2>2 DEF RegistryInv, PipelineInv
  <2>4. Reporter' = Reporter
      BY <2>2 DEF Reporter
  <2> QED BY <2>1, <2>2, <2>3, <2>4 DEF DetectedIsFirst
<1>8. CASE UNCHANGED providers
  <2>1. Beside /\ RegistryInv'
      BY <1>8 DEF Beside, providers, RegistryInv
  <2> QED BY <2>1, BesideKeeps
<1> QED BY <1>1, <1>2, <1>3, <1>4, <1>5, <1>6, <1>7, <1>8 DEF ProvidersNext

\* DefaultTemplateProcessor, whatever providers are registered and unregistered meanwhile and in
\* whatever order the map yields them: the provider of a mail is one that was registered, detects the
\* mail and has a smallest number of those that do, and there is none only if none does; no case comes
\* of it, and its reporter is kept once the template got past the address.
THEOREM DetectedCorrect == ProvidersSpec => []DetectedIsFirst
<1>1. ProvidersInv => DetectedIsFirst
    BY DEF ProvidersInv
<1> QED BY <1>1, InitProviders, StepProviders, PTL DEF ProvidersSpec
=============================================================================
