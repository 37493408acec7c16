--------------------------- MODULE Routing_proofs ---------------------------
(***************************************************************************)
(* Machine-checked proofs about human review and routing, for every number *)
(* of callers, requests, policies, rules, labels and events.               *)
(***************************************************************************)
EXTENDS Routing, FiniteSetTheorems, SequenceTheorems, TLAPS

-----------------------------------------------------------------------------
(* Sequences *)

LEMMA SeqFacts ==
    ASSUME NEW S, NEW s \in Seq(S)
    PROVE  /\ Len(s) \in Nat
           /\ DOMAIN s = 1..Len(s)
           /\ \A i \in DOMAIN s : s[i] \in S
BY LenProperties

LEMMA AppendFacts ==
    ASSUME NEW S, NEW s \in Seq(S), NEW e \in S
    PROVE  /\ Append(s, e) \in Seq(S)
           /\ Len(Append(s, e)) = Len(s) + 1
           /\ DOMAIN Append(s, e) = 1..(Len(s) + 1)
           /\ \A i \in 1..Len(s) : Append(s, e)[i] = s[i]
           /\ Append(s, e)[Len(s) + 1] = e
OBVIOUS

LEMMA ConcatToSet ==
    ASSUME NEW S, NEW s \in Seq(S), NEW t \in Seq(S)
    PROVE  s \o t \in Seq(S) /\ ToSet(s \o t) = ToSet(s) \cup ToSet(t)
<1>1. /\ s \o t \in Seq(S)
      /\ Len(s \o t) = Len(s) + Len(t)
      /\ \A i \in 1..(Len(s) + Len(t)) :
            (s \o t)[i] = IF i <= Len(s) THEN s[i] ELSE t[i - Len(s)]
  BY ConcatProperties
<1>2. /\ Len(s) \in Nat /\ DOMAIN s = 1..Len(s)
      /\ Len(t) \in Nat /\ DOMAIN t = 1..Len(t)
      /\ DOMAIN (s \o t) = 1..(Len(s) + Len(t))
  BY <1>1, LenProperties
<1>3. PICK u : u = s \o t
  OBVIOUS
<1>4. ASSUME NEW x \in ToSet(u)
      PROVE  x \in ToSet(s) \cup ToSet(t)
  <2>1. PICK i \in 1..(Len(s) + Len(t)) : x = u[i]
    BY <1>2, <1>3, <1>4 DEF ToSet
  <2>2. CASE i <= Len(s)
    <3>1. i \in DOMAIN s /\ x = s[i]
      BY <1>1, <1>2, <1>3, <2>1, <2>2
    <3>2. QED BY <3>1 DEF ToSet
  <2>3. CASE ~(i <= Len(s))
    <3>1. i - Len(s) \in DOMAIN t /\ x = t[i - Len(s)]
      BY <1>1, <1>2, <1>3, <2>1, <2>3
    <3>2. QED BY <3>1 DEF ToSet
  <2>4. QED BY <2>2, <2>3
<1>5. ASSUME NEW x \in ToSet(s)
      PROVE  x \in ToSet(u)
  <2>1. PICK i \in 1..Len(s) : x = s[i]
    BY <1>2, <1>5 DEF ToSet
  <2>2. i \in DOMAIN u /\ x = u[i]
    BY <1>1, <1>2, <1>3, <2>1
  <2>3. QED BY <2>2 DEF ToSet
<1>6. ASSUME NEW x \in ToSet(t)
      PROVE  x \in ToSet(u)
  <2>1. PICK i \in 1..Len(t) : x = t[i]
    BY <1>2, <1>6 DEF ToSet
  <2>2. PICK j : j = i + Len(s)
    OBVIOUS
  <2>3. j \in 1..(Len(s) + Len(t)) /\ ~(j <= Len(s)) /\ j - Len(s) = i
    BY <1>2, <2>1, <2>2
  <2>4. j \in DOMAIN u /\ x = u[j]
    BY <1>1, <1>2, <1>3, <2>1, <2>3
  <2>5. QED BY <2>4 DEF ToSet
<1>7. QED BY <1>1, <1>3, <1>4, <1>5, <1>6

-----------------------------------------------------------------------------
(* The order of the rules *)

LEMMA PrecedesIsTotal ==
    ASSUME NEW rs, RuleSetShape(rs)
    PROVE  /\ \A r \in rs : ~Precedes(r, r)
           /\ \A r, s, t \in rs : Precedes(r, s) /\ Precedes(s, t) => Precedes(r, t)
           /\ \A r, s \in rs : r # s => Precedes(r, s) \/ Precedes(s, r)
<1>1. \A r \in rs : r.id \in Nat /\ r.priority \in Int
  BY DEF RuleSetShape, RuleShape
<1>2. \A r, s \in rs : r.id = s.id => r = s
  BY DEF RuleSetShape
<1>3. \A r, s \in rs : r # s => Precedes(r, s) \/ Precedes(s, r)
  <2> SUFFICES ASSUME NEW r \in rs, NEW s \in rs, r # s
               PROVE  Precedes(r, s) \/ Precedes(s, r)
    OBVIOUS
  <2>1. r.id # s.id
    BY <1>2
  <2>2. QED BY <1>1, <2>1 DEF Precedes
<1>4. QED BY <1>1, <1>3 DEF Precedes

Before(rs, r) == {s \in rs : Precedes(s, r)}

LEMMA PlacesTellOrder ==
    ASSUME NEW rs, RuleSetShape(rs), NEW r \in rs, NEW s \in rs
    PROVE  /\ Cardinality(Before(rs, r)) \in 0..(Cardinality(rs) - 1)
           /\ Precedes(r, s) => Cardinality(Before(rs, r)) < Cardinality(Before(rs, s))
<1>1. IsFiniteSet(rs) /\ Cardinality(rs) \in Nat
  BY FS_CardinalityType DEF RuleSetShape
<1>2. \A q \in rs : /\ Before(rs, q) \in SUBSET rs
                    /\ q \notin Before(rs, q)
                    /\ IsFiniteSet(Before(rs, q)) /\ Cardinality(Before(rs, q)) \in Nat
  <2> SUFFICES ASSUME NEW q \in rs
               PROVE  /\ Before(rs, q) \in SUBSET rs
                      /\ q \notin Before(rs, q)
                      /\ IsFiniteSet(Before(rs, q)) /\ Cardinality(Before(rs, q)) \in Nat
    OBVIOUS
  <2>1. Before(rs, q) \in SUBSET rs /\ q \notin Before(rs, q)
    BY PrecedesIsTotal DEF Before
  <2>2. IsFiniteSet(Before(rs, q))
    BY <1>1, <2>1, FS_Subset
  <2>3. Cardinality(Before(rs, q)) \in Nat
    BY <2>2, FS_CardinalityType
  <2>4. QED BY <2>1, <2>2, <2>3
<1>3. Cardinality(Before(rs, r)) < Cardinality(rs)
  <2>1. Cardinality(Before(rs, r)) <= Cardinality(rs)
    BY <1>1, <1>2, FS_Subset
  <2>2. Before(rs, r) # rs
    BY <1>2
  <2>3. Cardinality(rs) # Cardinality(Before(rs, r))
    BY <1>1, <1>2, <2>2, FS_Subset
  <2>4. QED BY <1>1, <1>2, <2>1, <2>3
<1>4. ASSUME Precedes(r, s)
      PROVE  Cardinality(Before(rs, r)) < Cardinality(Before(rs, s))
  <2>1. r \in Before(rs, s) /\ Before(rs, r) \in SUBSET Before(rs, s)
    BY <1>4, PrecedesIsTotal DEF Before
  <2>2. Cardinality(Before(rs, r)) <= Cardinality(Before(rs, s))
    BY <1>2, <2>1, FS_Subset
  <2>3. Before(rs, r) # Before(rs, s)
    BY <1>2, <2>1
  <2>4. Cardinality(Before(rs, s)) # Cardinality(Before(rs, r))
    BY <1>2, <2>1, <2>3, FS_Subset
  <2>5. QED BY <1>2, <2>2, <2>4
<1>5. QED BY <1>1, <1>2, <1>3, <1>4

LEMMA InOrderSorts ==
    ASSUME NEW rs, RuleSetShape(rs), NEW n, n = Cardinality(rs), NEW f, f = InOrder(rs)
    PROVE  /\ n \in Nat
           /\ f \in [1..n -> rs]
           /\ \A r \in rs : \E i \in 1..n : f[i] = r
           /\ \A i, j \in 1..n : Precedes(f[i], f[j]) <=> i < j
<1> DEFINE place == [r \in rs |-> Cardinality(Before(rs, r)) + 1]
<1>1. IsFiniteSet(rs) /\ n \in Nat
  BY FS_CardinalityType DEF RuleSetShape
<1>2. \A r \in rs : Cardinality(Before(rs, r)) \in 0..(n - 1)
  BY PlacesTellOrder
<1>3. \A r \in rs : place[r] = Cardinality(Before(rs, r)) + 1 /\ place[r] \in 1..n
  BY <1>1, <1>2
<1>4. \A r, s \in rs : Precedes(r, s) => place[r] < place[s]
  BY <1>2, <1>3, PlacesTellOrder
<1>5. place \in [rs -> 1..n]
  BY <1>3
<1> HIDE DEF place
<1>6. \A r, s \in rs : place[r] = place[s] => r = s
  <2> SUFFICES ASSUME NEW r \in rs, NEW s \in rs, r # s
               PROVE  place[r] # place[s]
    OBVIOUS
  <2>1. Precedes(r, s) \/ Precedes(s, r)
    BY PrecedesIsTotal
  <2>2. place[r] \in Int /\ place[s] \in Int
    BY <1>3
  <2>3. QED BY <1>4, <2>1, <2>2
<1>7. place \in Injection(rs, 1..n)
  BY <1>5, <1>6 DEF Injection, IsInjective
<1>8. IsFiniteSet(1..n) /\ Cardinality(1..n) = n
  BY <1>1, FS_Interval
<1>9. place \in Surjection(rs, 1..n)
  BY <1>7, <1>8, FS_Injection
<1>10. \A i \in 1..n : \E r \in rs : place[r] = i
  BY <1>9 DEF Surjection
<1>11. ASSUME NEW i \in 1..n
       PROVE  f[i] \in rs /\ place[f[i]] = i
  <2>1. f[i] = CHOOSE r \in rs : Cardinality(Before(rs, r)) = i - 1
    BY DEF InOrder, Before
  <2>2. \E r \in rs : Cardinality(Before(rs, r)) = i - 1
    <3>1. PICK r \in rs : place[r] = i
      BY <1>10
    <3>2. Cardinality(Before(rs, r)) \in Nat /\ Cardinality(Before(rs, r)) + 1 = i
      BY <1>2, <1>3, <3>1
    <3>3. QED BY <3>2
  <2>3. f[i] \in rs /\ Cardinality(Before(rs, f[i])) = i - 1
    BY <2>1, <2>2
  <2>4. QED BY <1>3, <2>3
<1>12. f \in [1..n -> rs]
  <2>1. f = [i \in 1..n |-> f[i]]
    <3>1. f = [i \in 1..n |-> CHOOSE r \in rs : Cardinality({s \in rs : Precedes(s, r)}) = i - 1]
      BY Zenon DEF InOrder
    <3>2. QED BY <3>1
  <2>2. QED BY <1>11, <2>1
<1>13. \A r \in rs : \E i \in 1..n : f[i] = r
  BY <1>3, <1>6, <1>11
<1>14. ASSUME NEW i \in 1..n, NEW j \in 1..n
       PROVE  Precedes(f[i], f[j]) <=> i < j
  <2>1. Precedes(f[i], f[j]) => i < j
    BY <1>4, <1>11
  <2>2. Precedes(f[j], f[i]) => j < i
    BY <1>4, <1>11
  <2>3. i # j => Precedes(f[i], f[j]) \/ Precedes(f[j], f[i])
    BY <1>11, PrecedesIsTotal
  <2>4. QED BY <2>1, <2>2, <2>3
<1>15. QED BY <1>1, <1>12, <1>13, <1>14

-----------------------------------------------------------------------------
(* The decision, rule by rule *)

LEMMA SmallestExists ==
    ASSUME NEW S \in SUBSET Nat, S # {}
    PROVE  \E x \in S : \A y \in S : x <= y
<1>1. PICK x \in S : \A y \in S : <<y, x>> \notin OpToRel(<, Nat)
  BY WFMin, NatLessThanWellFounded, Zenon
<1>2. \A y \in S : ~(y < x)
  BY <1>1, Zenon DEF OpToRel
<1>3. QED BY <1>2

NoDecision == [outcomes |-> <<>>, actions |-> <<>>, stoppedAt |-> None]

\* d holds the decision after each of the first n rules of f.
Decides(d, n, f, facts) ==
    d = [i \in 0..n |-> IF i = 0 THEN NoDecision ELSE CheckRule(facts, d[i - 1], f[i])]

LEMMA DecisionExists ==
    ASSUME NEW n \in Nat, NEW f, NEW facts
    PROVE  \E d : Decides(d, n, f, facts)
<1> DEFINE Undecided == {m \in 0..n : ~\E d : Decides(d, m, f, facts)}
<1>1. SUFFICES ASSUME Undecided # {}
               PROVE  FALSE
  BY <1>1
<1>2. Undecided \in SUBSET Nat
  OBVIOUS
<1>3. PICK m \in Undecided : \A k \in Undecided : m <= k
  BY <1>1, <1>2, SmallestExists
<1>4. m \in 0..n /\ ~\E d : Decides(d, m, f, facts)
  OBVIOUS
<1>5. CASE m = 0
  <2>1. PICK d : d = [i \in 0..0 |-> NoDecision]
    OBVIOUS
  <2>2. Decides(d, 0, f, facts)
    BY <2>1 DEF Decides
  <2>3. QED BY <1>4, <1>5, <2>2
<1>6. CASE m # 0
  <2>1. m - 1 \in 0..n /\ ~(m <= m - 1)
    BY <1>4, <1>6
  <2>2. m - 1 \notin Undecided
    BY <1>3, <2>1
  <2>3. PICK d : Decides(d, m - 1, f, facts)
    BY <2>1, <2>2
  <2>4. PICK e : e = [i \in 0..m |-> IF i = m THEN CheckRule(facts, d[m - 1], f[m]) ELSE d[i]]
    OBVIOUS
  <2>5. \A i \in 0..(m - 1) :
          d[i] = IF i = 0 THEN NoDecision ELSE CheckRule(facts, d[i - 1], f[i])
    BY <2>3 DEF Decides
  <2>6. \A i \in 0..m : e[i] = IF i = m THEN CheckRule(facts, d[m - 1], f[m]) ELSE d[i]
    BY <2>4
  <2>7. ASSUME NEW i \in 0..m
        PROVE  e[i] = IF i = 0 THEN NoDecision ELSE CheckRule(facts, e[i - 1], f[i])
    <3>1. CASE i = 0
      BY <1>4, <1>6, <2>5, <2>6, <3>1
    <3>2. CASE i = m
      <4>1. e[m - 1] = d[m - 1] /\ e[m] = CheckRule(facts, d[m - 1], f[m])
        BY <1>4, <1>6, <2>6
      <4>2. QED BY <1>6, <3>2, <4>1
    <3>3. CASE i # 0 /\ i # m
      <4>1. i \in 0..(m - 1) /\ i - 1 \in 0..(m - 1)
        BY <1>4, <3>3
      <4>2. e[i] = d[i] /\ e[i - 1] = d[i - 1]
        BY <1>4, <2>6, <3>3, <4>1
      <4>3. d[i] = CheckRule(facts, d[i - 1], f[i])
        BY <2>5, <3>3, <4>1
      <4>4. QED BY <3>3, <4>2, <4>3
    <3>4. QED BY <3>1, <3>2, <3>3
  <2>8. e = [i \in 0..m |-> e[i]]
    BY <2>4
  <2>9. Decides(e, m, f, facts)
    BY <2>7, <2>8 DEF Decides
  <2>10. QED BY <1>4, <2>9
<1>7. QED BY <1>5, <1>6

LEMMA EvaluateRoutingDecides ==
    ASSUME NEW rs, NEW facts, Cardinality(rs) \in Nat
    PROVE  \E d : /\ Decides(d, Cardinality(rs), InOrder(rs), facts)
                  /\ EvaluateRouting(rs, facts) = d[Cardinality(rs)]
<1> DEFINE n == Cardinality(rs)
           d == CHOOSE d : d = [i \in 0..n |->
                              IF i = 0 THEN [outcomes |-> <<>>, actions |-> <<>>, stoppedAt |-> None]
                              ELSE CheckRule(facts, d[i - 1], InOrder(rs)[i])]
<1>1. PICK e : Decides(e, n, InOrder(rs), facts)
  BY DecisionExists
<1>2. e = [i \in 0..n |->
            IF i = 0 THEN [outcomes |-> <<>>, actions |-> <<>>, stoppedAt |-> None]
            ELSE CheckRule(facts, e[i - 1], InOrder(rs)[i])]
  BY <1>1, Zenon DEF Decides, NoDecision
<1>3. d = [i \in 0..n |->
            IF i = 0 THEN [outcomes |-> <<>>, actions |-> <<>>, stoppedAt |-> None]
            ELSE CheckRule(facts, d[i - 1], InOrder(rs)[i])]
  BY <1>2, Zenon
<1>4. EvaluateRouting(rs, facts) = d[n]
  BY Zenon DEF EvaluateRouting
<1> HIDE DEF d
<1>5. Decides(d, n, InOrder(rs), facts)
  BY <1>3, Zenon DEF Decides, NoDecision
<1>6. QED BY <1>4, <1>5

Matches(r, facts) == r.enabled /\ EvaluateCondition(r.condition, facts)
Stops(r, facts) == Matches(r, facts) /\ r.stop
Outcome(r, facts) ==
    [rule |-> r.id, evaluated |-> r.enabled, matched |-> Matches(r, facts), stopped |-> Stops(r, facts)]
Entries(r) == {[rule |-> r.id, action |-> a] : a \in ToSet(r.actions)}

\* The places of the rules that fire among the first i.
Fired(f, i, facts) ==
    {k \in 1..i : Matches(f[k], facts) /\ \A j \in 1..(k - 1) : ~Stops(f[j], facts)}

DecisionAfter(e, f, i, facts, rs) ==
    /\ e.outcomes \in Seq({Outcome(r, facts) : r \in rs})
    /\ e.actions \in Seq(UNION {Entries(r) : r \in rs})
    /\ ToSet(e.actions) = UNION {Entries(f[k]) : k \in Fired(f, i, facts)}
    /\ e.stoppedAt = None <=> \A k \in 1..i : ~Stops(f[k], facts)
    /\ e.stoppedAt # None =>
         \E n \in DOMAIN e.outcomes : e.outcomes[n].rule = e.stoppedAt
    /\ \A k \in Fired(f, i, facts) :
         \E n \in DOMAIN e.outcomes : e.outcomes[n] = Outcome(f[k], facts)

LEMMA FirstDecision ==
    ASSUME NEW f, NEW facts, NEW rs
    PROVE  DecisionAfter(NoDecision, f, 0, facts, rs)
<1>1. Fired(f, 0, facts) = {}
  BY DEF Fired
<1>2. ToSet(<<>>) = {}
  BY DEF ToSet
<1>3. QED BY <1>1, <1>2 DEF DecisionAfter, NoDecision

LEMMA FiredGrows ==
    ASSUME NEW f, NEW facts, NEW i \in Nat \ {0}
    PROVE  Fired(f, i, facts) =
             Fired(f, i - 1, facts) \cup
               IF Matches(f[i], facts) /\ \A j \in 1..(i - 1) : ~Stops(f[j], facts) THEN {i} ELSE {}
<1>1. \A k : k \in 1..i <=> k \in 1..(i - 1) \/ k = i
  OBVIOUS
<1> HIDE DEF Matches, Stops
<1>2. \A k : k \in Fired(f, i, facts) <=>
               k \in 1..i /\ Matches(f[k], facts) /\ \A j \in 1..(k - 1) : ~Stops(f[j], facts)
  BY DEF Fired
<1>3. \A k : k \in Fired(f, i - 1, facts) <=>
               k \in 1..(i - 1) /\ Matches(f[k], facts) /\ \A j \in 1..(k - 1) : ~Stops(f[j], facts)
  BY DEF Fired
<1>4. i \notin 1..(i - 1)
  OBVIOUS
<1>5. QED BY <1>1, <1>2, <1>3, <1>4

\* The actions that a rule adds.
LEMMA EntriesOfRule ==
    ASSUME NEW rs, RuleSetShape(rs), NEW r \in rs, NEW t,
           t = [i \in DOMAIN r.actions |-> [rule |-> r.id, action |-> r.actions[i]]]
    PROVE  t \in Seq(UNION {Entries(s) : s \in rs}) /\ ToSet(t) = Entries(r)
<1>1. r.actions \in Seq(ToSet(r.actions))
  BY DEF RuleSetShape, RuleShape
<1>2. PICK n \in Nat : n = Len(r.actions) /\ DOMAIN r.actions = 1..n
  BY <1>1, SeqFacts
<1>3. \A i \in 1..n : [rule |-> r.id, action |-> r.actions[i]] \in Entries(r)
  BY <1>2 DEF Entries, ToSet
<1>4. t = [i \in 1..n |-> [rule |-> r.id, action |-> r.actions[i]]]
  BY <1>2
<1>5. t \in [1..n -> Entries(r)]
  BY <1>3, <1>4
<1>6. t \in Seq(Entries(r))
  BY <1>5, SeqDef
<1>7. Entries(r) \subseteq UNION {Entries(s) : s \in rs}
  OBVIOUS
<1>8. t \in Seq(UNION {Entries(s) : s \in rs})
  BY <1>6, <1>7, SeqMonotonic
<1>9. ToSet(t) = {t[i] : i \in 1..n}
  BY <1>4 DEF ToSet
<1>10. ToSet(t) = {[rule |-> r.id, action |-> r.actions[i]] : i \in 1..n}
  BY <1>4, <1>9
<1>11. ToSet(r.actions) = {r.actions[i] : i \in 1..n}
  BY <1>2 DEF ToSet
<1>12. Entries(r) = {[rule |-> r.id, action |-> r.actions[i]] : i \in 1..n}
  BY <1>11 DEF Entries
<1>13. QED BY <1>8, <1>10, <1>12

LEMMA NextDecision ==
    ASSUME NEW rs, RuleSetShape(rs), NEW n \in Nat, NEW f \in [1..n -> rs], NEW facts,
           NEW i \in 1..n, NEW d, DecisionAfter(d, f, i - 1, facts, rs),
           NEW e, e = CheckRule(facts, d, f[i])
    PROVE  DecisionAfter(e, f, i, facts, rs)
<1> DEFINE O == {Outcome(r, facts) : r \in rs}
           A == UNION {Entries(r) : r \in rs}
           r == f[i]
<1>1. r \in rs /\ i \in Nat \ {0} /\ \A k : k \in 1..i <=> k \in 1..(i - 1) \/ k = i
  OBVIOUS
<1>2. /\ d.outcomes \in Seq(O)
      /\ d.actions \in Seq(A)
      /\ ToSet(d.actions) = UNION {Entries(f[k]) : k \in Fired(f, i - 1, facts)}
      /\ d.stoppedAt = None <=> \A k \in 1..(i - 1) : ~Stops(f[k], facts)
      /\ d.stoppedAt # None => \E m \in DOMAIN d.outcomes : d.outcomes[m].rule = d.stoppedAt
      /\ \A k \in Fired(f, i - 1, facts) :
           \E m \in DOMAIN d.outcomes : d.outcomes[m] = Outcome(f[k], facts)
  BY DEF DecisionAfter
<1>3. r.id # None
  BY <1>1, RulesAssumption DEF RuleSetShape, RuleShape
<1>4. CASE d.stoppedAt # None
  <2>1. e = d
    BY <1>4 DEF CheckRule
  <2>2. ~\A j \in 1..(i - 1) : ~Stops(f[j], facts)
    BY <1>2, <1>4
  <2>3. Fired(f, i, facts) = Fired(f, i - 1, facts)
    <3>1. i \in Nat \ {0}
      BY <1>1
    <3>2. Fired(f, i, facts) =
            Fired(f, i - 1, facts) \cup
              IF Matches(f[i], facts) /\ \A j \in 1..(i - 1) : ~Stops(f[j], facts) THEN {i} ELSE {}
      BY <3>1, FiredGrows, Zenon
    <3>3. QED BY <2>2, <3>2, Zenon
  <2>4. ~\A j \in 1..i : ~Stops(f[j], facts)
    BY <1>1, <2>2
  <2>5. QED BY <1>2, <1>4, <2>1, <2>3, <2>4 DEF DecisionAfter
<1>5. CASE d.stoppedAt = None
  <2>1. \A j \in 1..(i - 1) : ~Stops(f[j], facts)
    BY <1>2, <1>5
  <2>2. /\ e.outcomes = Append(d.outcomes, Outcome(r, facts))
        /\ e.actions = d.actions \o
             IF Matches(r, facts)
             THEN [j \in DOMAIN r.actions |-> [rule |-> r.id, action |-> r.actions[j]]]
             ELSE <<>>
        /\ e.stoppedAt = IF Stops(r, facts) THEN r.id ELSE None
    BY <1>5, Zenon DEF CheckRule, Outcome, Matches, Stops
  <2>3. Outcome(r, facts) \in O
    BY <1>1
  <2> HIDE DEF O, A
  <2>4. /\ e.outcomes \in Seq(O)
        /\ DOMAIN d.outcomes \subseteq DOMAIN e.outcomes
        /\ \A m \in DOMAIN d.outcomes : e.outcomes[m] = d.outcomes[m]
        /\ \E m \in DOMAIN e.outcomes : e.outcomes[m] = Outcome(r, facts)
    <3>1. PICK len \in Nat : len = Len(d.outcomes) /\ DOMAIN d.outcomes = 1..len
      BY <1>2, SeqFacts
    <3>2. /\ e.outcomes \in Seq(O)
          /\ DOMAIN e.outcomes = 1..(len + 1)
          /\ \A m \in 1..len : e.outcomes[m] = d.outcomes[m]
          /\ e.outcomes[len + 1] = Outcome(r, facts)
      BY <1>2, <2>2, <2>3, <3>1, AppendFacts
    <3>3. QED BY <3>1, <3>2
  <2>5. /\ e.actions \in Seq(A)
        /\ ToSet(e.actions) = ToSet(d.actions) \cup IF Matches(r, facts) THEN Entries(r) ELSE {}
    <3>1. CASE Matches(r, facts)
      <4>1. PICK t : t = [j \in DOMAIN r.actions |-> [rule |-> r.id, action |-> r.actions[j]]]
        OBVIOUS
      <4>2. t \in Seq(A) /\ ToSet(t) = Entries(r)
        BY <1>1, <4>1, EntriesOfRule DEF A
      <4>3. e.actions = d.actions \o t
        BY <2>2, <3>1, <4>1, Zenon
      <4>4. e.actions \in Seq(A) /\ ToSet(e.actions) = ToSet(d.actions) \cup ToSet(t)
        BY <1>2, <4>2, <4>3, ConcatToSet
      <4>5. QED BY <3>1, <4>2, <4>4
    <3>2. CASE ~Matches(r, facts)
      <4>1. e.actions = d.actions \o <<>>
        BY <2>2, <3>2, Zenon
      <4>2. e.actions = d.actions
        BY <1>2, <4>1, ConcatEmptySeq
      <4>3. QED BY <1>2, <3>2, <4>2
    <3>3. QED BY <3>1, <3>2
  <2>6. Fired(f, i, facts) = Fired(f, i - 1, facts) \cup IF Matches(r, facts) THEN {i} ELSE {}
    BY <1>1, <2>1, FiredGrows
  <2>7. ToSet(e.actions) = UNION {Entries(f[k]) : k \in Fired(f, i, facts)}
    <3>1. CASE Matches(r, facts)
      <4>1. Fired(f, i, facts) = Fired(f, i - 1, facts) \cup {i}
        BY <2>6, <3>1
      <4>2. ToSet(e.actions) = ToSet(d.actions) \cup Entries(f[i])
        BY <2>5, <3>1
      <4>3. QED BY <1>2, <4>1, <4>2
    <3>2. CASE ~Matches(r, facts)
      <4>1. Fired(f, i, facts) = Fired(f, i - 1, facts)
        BY <2>6, <3>2
      <4>2. ToSet(e.actions) = ToSet(d.actions)
        BY <2>5, <3>2
      <4>3. QED BY <1>2, <4>1, <4>2
    <3>3. QED BY <3>1, <3>2
  <2>8. e.stoppedAt = None <=> \A k \in 1..i : ~Stops(f[k], facts)
    <3>1. (\A k \in 1..i : ~Stops(f[k], facts)) <=> ~Stops(r, facts)
      BY <1>1, <2>1
    <3>2. CASE Stops(r, facts)
      BY <1>3, <2>2, <3>1, <3>2
    <3>3. CASE ~Stops(r, facts)
      BY <2>2, <3>1, <3>3
    <3>4. QED BY <3>2, <3>3
  <2>9. e.stoppedAt # None => \E m \in DOMAIN e.outcomes : e.outcomes[m].rule = e.stoppedAt
    <3>1. Outcome(r, facts).rule = r.id
      BY DEF Outcome
    <3>2. e.stoppedAt # None => e.stoppedAt = r.id
      BY <2>2
    <3>3. QED BY <2>4, <3>1, <3>2
  <2>10. ASSUME NEW k \in Fired(f, i, facts)
         PROVE  \E m \in DOMAIN e.outcomes : e.outcomes[m] = Outcome(f[k], facts)
    <3>1. CASE k \in Fired(f, i - 1, facts)
      BY <1>2, <2>4, <3>1
    <3>2. CASE k = i
      BY <2>4, <3>2
    <3>3. QED BY <2>6, <3>1, <3>2
  <2>11. QED BY <2>4, <2>5, <2>7, <2>8, <2>9, <2>10 DEF DecisionAfter, O, A
<1>6. QED BY <1>4, <1>5

LEMMA AllDecisions ==
    ASSUME NEW rs, RuleSetShape(rs), NEW n \in Nat, NEW f \in [1..n -> rs], NEW facts,
           NEW d, Decides(d, n, f, facts)
    PROVE  \A i \in 0..n : DecisionAfter(d[i], f, i, facts, rs)
<1> DEFINE Wrong == {i \in 0..n : ~DecisionAfter(d[i], f, i, facts, rs)}
<1>1. SUFFICES ASSUME Wrong # {}
               PROVE  FALSE
  BY <1>1
<1>2. Wrong \in SUBSET Nat
  OBVIOUS
<1>3. PICK m \in Wrong : \A k \in Wrong : m <= k
  BY <1>1, <1>2, SmallestExists
<1>4. m \in 0..n /\ ~DecisionAfter(d[m], f, m, facts, rs)
  OBVIOUS
<1>5. \A i \in 0..n : d[i] = IF i = 0 THEN NoDecision ELSE CheckRule(facts, d[i - 1], f[i])
  BY DEF Decides
<1>6. m # 0
  <2>1. CASE m = 0
    <3>1. d[0] = NoDecision
      BY <1>5
    <3>2. QED BY <1>4, <2>1, <3>1, FirstDecision
  <2>2. QED BY <2>1
<1>7. m \in 1..n /\ m - 1 \in 0..n /\ ~(m <= m - 1)
  BY <1>4, <1>6
<1>8. m - 1 \notin Wrong
  BY <1>3, <1>7
<1>9. DecisionAfter(d[m - 1], f, m - 1, facts, rs)
  BY <1>7, <1>8
<1>10. d[m] = CheckRule(facts, d[m - 1], f[m])
  BY <1>4, <1>5, <1>6
<1>11. DecisionAfter(d[m], f, m, facts, rs)
  BY <1>7, <1>9, <1>10, NextDecision
<1>12. QED BY <1>4, <1>11

\* The rules that fire: they match, and no rule that stops precedes them.
Firing(rs, facts) ==
    {r \in rs : Matches(r, facts) /\ \A s \in rs : Precedes(s, r) => ~Stops(s, facts)}

Decision(e, rs, facts) ==
    /\ e.outcomes \in Seq({Outcome(r, facts) : r \in rs})
    /\ ToSet(e.actions) = UNION {Entries(r) : r \in Firing(rs, facts)}
    /\ e.stoppedAt # None =>
         \E n \in DOMAIN e.outcomes : e.outcomes[n].rule = e.stoppedAt
    /\ \A r \in Firing(rs, facts) :
         \E n \in DOMAIN e.outcomes : e.outcomes[n] = Outcome(r, facts)

(* What evaluate_routing decides, for any rules and any facts: the rules   *)
(* that fire are those that match and that no stopping rule precedes, the  *)
(* actions are theirs, and each of them has an outcome that says so.       *)
LEMMA RulesDecide ==
    ASSUME NEW rs, RuleSetShape(rs), NEW facts
    PROVE  Decision(EvaluateRouting(rs, facts), rs, facts)
<1>1. PICK n, f : n = Cardinality(rs) /\ f = InOrder(rs)
  OBVIOUS
<1>2. /\ n \in Nat
      /\ f \in [1..n -> rs]
      /\ \A r \in rs : \E i \in 1..n : f[i] = r
      /\ \A i, j \in 1..n : Precedes(f[i], f[j]) <=> i < j
  BY <1>1, InOrderSorts
<1>3. PICK d : Decides(d, n, f, facts) /\ EvaluateRouting(rs, facts) = d[n]
  BY <1>1, <1>2, EvaluateRoutingDecides
<1>4. n \in 0..n
  BY <1>2
<1>5. PICK e : e = d[n]
  OBVIOUS
<1>6. DecisionAfter(e, f, n, facts, rs)
  BY <1>2, <1>3, <1>4, <1>5, AllDecisions
<1>7. \A k \in 1..n : k \in Fired(f, n, facts) <=> f[k] \in Firing(rs, facts)
  <2> SUFFICES ASSUME NEW k \in 1..n
               PROVE  k \in Fired(f, n, facts) <=> f[k] \in Firing(rs, facts)
    OBVIOUS
  <2>1. f[k] \in rs
    BY <1>2
  <2>2. (\A j \in 1..(k - 1) : ~Stops(f[j], facts)) =>
          (\A s \in rs : Precedes(s, f[k]) => ~Stops(s, facts))
    <3> SUFFICES ASSUME \A j \in 1..(k - 1) : ~Stops(f[j], facts),
                        NEW s \in rs, Precedes(s, f[k])
                 PROVE  ~Stops(s, facts)
      OBVIOUS
    <3>1. PICK j \in 1..n : f[j] = s
      BY <1>2
    <3>2. j < k
      BY <1>2, <3>1
    <3>3. j \in 1..(k - 1)
      BY <1>2, <3>2
    <3>4. QED BY <3>1, <3>3
  <2>3. (\A s \in rs : Precedes(s, f[k]) => ~Stops(s, facts)) =>
          (\A j \in 1..(k - 1) : ~Stops(f[j], facts))
    <3> SUFFICES ASSUME \A s \in rs : Precedes(s, f[k]) => ~Stops(s, facts),
                        NEW j \in 1..(k - 1)
                 PROVE  ~Stops(f[j], facts)
      OBVIOUS
    <3>1. j \in 1..n /\ j < k
      BY <1>2
    <3>2. f[j] \in rs /\ Precedes(f[j], f[k])
      BY <1>2, <3>1
    <3>3. QED BY <3>2
  <2>4. QED BY <2>1, <2>2, <2>3, Zenon DEF Fired, Firing
<1>8. Fired(f, n, facts) \subseteq 1..n
  BY DEF Fired
<1>9. \A r \in Firing(rs, facts) : \E k \in Fired(f, n, facts) : f[k] = r
  <2> SUFFICES ASSUME NEW r \in Firing(rs, facts)
               PROVE  \E k \in Fired(f, n, facts) : f[k] = r
    OBVIOUS
  <2>1. r \in rs
    BY DEF Firing
  <2>2. PICK k \in 1..n : f[k] = r
    BY <1>2, <2>1
  <2>3. QED BY <1>7, <2>2
<1>10. UNION {Entries(f[k]) : k \in Fired(f, n, facts)} = UNION {Entries(r) : r \in Firing(rs, facts)}
  <2>1. \A k \in Fired(f, n, facts) : f[k] \in Firing(rs, facts)
    BY <1>7, <1>8
  <2>2. {Entries(f[k]) : k \in Fired(f, n, facts)} = {Entries(r) : r \in Firing(rs, facts)}
    BY <1>9, <2>1
  <2>3. QED BY <2>2
<1>11. \A r \in Firing(rs, facts) : \E m \in DOMAIN e.outcomes : e.outcomes[m] = Outcome(r, facts)
  BY <1>6, <1>9 DEF DecisionAfter
<1>12. QED BY <1>3, <1>5, <1>6, <1>10, <1>11 DEF DecisionAfter, Decision

-----------------------------------------------------------------------------
(* The inductive invariant *)

\* An intent of the evaluation e.
IntentIsSound(i, e) ==
    /\ i.evaluation = e.id
    /\ i.destination \in Destinations
    /\ i.identity \in Identities
    /\ (i.mode = "forward_only") <=> (i.template = None)
    /\ i.status = "pending"
    /\ \E n \in DOMAIN e.outcomes : e.outcomes[n].rule = i.rule /\ e.outcomes[n].matched

IntentsAreSound(S, e) ==
    /\ \A i \in S : IntentIsSound(i, e)
    /\ \A i, j \in S : BusinessKey(i) = BusinessKey(j) => i = j

StopIsSound(e) == e.stoppedAt \in {e.outcomes[i].rule : i \in DOMAIN e.outcomes} \cup {None}

\* k: the call of c with what it is about to store, or answers a dry run with.
DraftIsSound(c, k) ==
    /\ k.answer.evaluation.id = <<c, k.request, k.dryRun>>
    /\ k.answer.evaluation.request = k.request
    /\ k.answer.evaluation.policy = k.policy
    /\ StopIsSound(k.answer.evaluation)
    /\ IntentsAreSound(k.answer.intents, k.answer.evaluation)

Asks == {"at", "request", "policy", "dryRun"}

AskIsSound(k) ==
    /\ k.request \in Requests
    /\ k.policy \in Policies
    /\ k.dryRun \in BOOLEAN

CallIsSound(c, k) ==
    \/ k = NoCall
    \/ k.at = "find" /\ DOMAIN k = Asks /\ AskIsSound(k) /\ k.dryRun = FALSE
    \/ k.at = "load" /\ DOMAIN k = Asks /\ AskIsSound(k)
    \/ /\ k.at = "persist"
       /\ DOMAIN k = Asks \cup {"answer"}
       /\ AskIsSound(k)
       /\ k.dryRun = FALSE
       /\ DraftIsSound(c, k)
    \/ /\ k.at = "answered"
       /\ DOMAIN k = Asks \cup {"answer"}
       /\ AskIsSound(k)
       /\ k.dryRun => DraftIsSound(c, k)

CallsAreSound == DOMAIN call = Callers /\ \A c \in Callers : CallIsSound(c, call[c])

\* No two events of the message share a place in the order of events.
EventsHaveTheirPlace == \A e, f \in manual : e.at = f.at => e = f

IInv ==
    /\ TypeOK
    /\ EventsChain
    /\ EventsHaveTheirPlace
    /\ OneEvaluationPerRequest
    /\ AnswersAgree
    /\ CallsAreSound

-----------------------------------------------------------------------------
(* What a caller drafts *)

\* Each action of a decision belongs to a rule that fires.
LEMMA ActionsHaveRules ==
    ASSUME NEW rs, RuleSetShape(rs), NEW facts, NEW d, Decision(d, rs, facts), NEW a \in ToSet(d.actions)
    PROVE  \E r \in Firing(rs, facts) : \E x \in ToSet(r.actions) :
             /\ a = [rule |-> r.id, action |-> x]
             /\ r \in rs
             /\ RuleShape(r)
             /\ ActionShape(x)
<1>1. ToSet(d.actions) = UNION {Entries(r) : r \in Firing(rs, facts)}
  BY DEF Decision
<1>2. PICK r \in Firing(rs, facts) : a \in Entries(r)
  BY <1>1
<1>3. PICK x \in ToSet(r.actions) : a = [rule |-> r.id, action |-> x]
  BY <1>2 DEF Entries
<1>4. r \in rs /\ RuleShape(r)
  BY DEF Firing, RuleSetShape
<1>5. \A i \in DOMAIN r.actions : ActionShape(r.actions[i])
  BY <1>4, Zenon DEF RuleShape
<1>6. ActionShape(x)
  BY <1>5 DEF ToSet
<1>7. QED BY <1>3, <1>4, <1>6

LEMMA IntentsFollowDecision ==
    ASSUME NEW rs, RuleSetShape(rs), NEW facts, NEW d, Decision(d, rs, facts),
           NEW e, e.outcomes = d.outcomes
    PROVE  IntentsAreSound(IntentsOf(e.id, d), e)
<1>1. ASSUME NEW i \in IntentsOf(e.id, d)
      PROVE  IntentIsSound(i, e)
  <2>1. PICK a \in ToSet(d.actions) : i = NewIntent(e.id, a)
    BY <1>1 DEF IntentsOf
  <2>2. PICK r \in Firing(rs, facts) : \E x \in ToSet(r.actions) :
             /\ a = [rule |-> r.id, action |-> x]
             /\ r \in rs
             /\ RuleShape(r)
             /\ ActionShape(x)
    BY ActionsHaveRules
  <2>3. PICK x \in ToSet(r.actions) : a = [rule |-> r.id, action |-> x] /\ ActionShape(x)
    BY <2>2
  <2>4. a.rule = r.id /\ a.action = x
    BY <2>3
  <2>5. /\ i.evaluation = e.id
        /\ i.rule = r.id
        /\ i.destination = x.destination
        /\ i.identity = IdentityFor(x)
        /\ i.mode = x.mode
        /\ i.template = x.template
        /\ i.status = "pending"
    BY <2>1, <2>4 DEF NewIntent
  <2>6. x.destination \in Destinations /\ x.identity \in Identities \cup {None}
    BY <2>3 DEF ActionShape
  <2>7. IdentityFor(x) \in Identities
    BY <2>6, RoutingAssumption DEF IdentityFor
  <2>8. (i.mode = "forward_only") <=> (i.template = None)
    BY <2>3, <2>5 DEF ActionShape
  <2>9. PICK n \in DOMAIN d.outcomes : d.outcomes[n] = Outcome(r, facts)
    BY DEF Decision
  <2>10. Outcome(r, facts).rule = r.id /\ Outcome(r, facts).matched = Matches(r, facts)
    BY DEF Outcome
  <2>11. Matches(r, facts)
    BY DEF Firing
  <2>12. e.outcomes[n].rule = i.rule /\ e.outcomes[n].matched
    BY <2>5, <2>9, <2>10, <2>11
  <2>13. QED BY <2>5, <2>6, <2>7, <2>8, <2>9, <2>12 DEF IntentIsSound
<1>2. ASSUME NEW i \in IntentsOf(e.id, d), NEW j \in IntentsOf(e.id, d),
             BusinessKey(i) = BusinessKey(j)
      PROVE  i = j
  <2>1. PICK a \in ToSet(d.actions) : i = NewIntent(e.id, a)
    BY <1>2 DEF IntentsOf
  <2>2. PICK b \in ToSet(d.actions) : j = NewIntent(e.id, b)
    BY <1>2 DEF IntentsOf
  <2>3. PICK r, x : r \in rs /\ x \in ToSet(r.actions) /\ a = [rule |-> r.id, action |-> x] /\ RuleShape(r)
    BY ActionsHaveRules
  <2>4. PICK s, y : s \in rs /\ y \in ToSet(s.actions) /\ b = [rule |-> s.id, action |-> y] /\ RuleShape(s)
    BY ActionsHaveRules
  <2>5. i.rule = r.id /\ i.action = x.id /\ j.rule = s.id /\ j.action = y.id
    BY <2>1, <2>2, <2>3, <2>4 DEF NewIntent
  <2>6. i.rule = j.rule /\ i.action = j.action
    BY <1>2 DEF BusinessKey
  <2>7. r = s
    BY <2>3, <2>4, <2>5, <2>6 DEF RuleSetShape
  <2>8. PICK m \in DOMAIN r.actions, n \in DOMAIN r.actions : x = r.actions[m] /\ y = r.actions[n]
    BY <2>3, <2>4, <2>7 DEF ToSet
  <2>9. \A k, l \in DOMAIN r.actions : r.actions[k].id = r.actions[l].id => k = l
    BY <2>3, Zenon DEF RuleShape
  <2>10. x = y
    BY <2>5, <2>6, <2>8, <2>9
  <2>11. QED BY <2>1, <2>2, <2>3, <2>4, <2>7, <2>10
<1>3. QED BY <1>1, <1>2 DEF IntentsAreSound

LEMMA DraftFollowsDecision ==
    ASSUME rules \in [Policies -> RuleSets], NEW c \in Callers, call[c].policy \in Policies
    PROVE  /\ RuleSetShape(rules[call[c].policy])
           /\ Decision(EvaluateRouting(rules[call[c].policy], Facts), rules[call[c].policy], Facts)
<1>1. rules[call[c].policy] \in RuleSets
  OBVIOUS
<1>2. RuleSetShape(rules[call[c].policy])
  BY <1>1, RoutingAssumption
<1>3. QED BY <1>2, RulesDecide

\* k: the call of c after the snapshot is loaded.
LEMMA DraftSound ==
    ASSUME rules \in [Policies -> RuleSets], NEW c \in Callers, call[c].policy \in Policies,
           NEW at, NEW k, k = Holding(c, at, Draft(c))
    PROVE  DraftIsSound(c, k)
<1>1. PICK rs, facts, d : /\ rs = rules[call[c].policy]
                          /\ facts = Facts
                          /\ d = EvaluateRouting(rs, facts)
  OBVIOUS
<1>2. RuleSetShape(rs) /\ Decision(d, rs, facts)
  BY <1>1, DraftFollowsDecision
<1>3. PICK e : e = k.answer.evaluation
  OBVIOUS
<1>4. /\ k.request = call[c].request /\ k.policy = call[c].policy /\ k.dryRun = call[c].dryRun
      /\ k.answer = Draft(c)
  BY DEF Holding
<1>5. /\ e.id = <<c, call[c].request, call[c].dryRun>>
      /\ e.request = call[c].request
      /\ e.policy = call[c].policy
      /\ e.outcomes = d.outcomes
      /\ e.stoppedAt = d.stoppedAt
      /\ k.answer.intents = IntentsOf(e.id, d)
  <2>1. PICK id : id = <<c, call[c].request, call[c].dryRun>>
    OBVIOUS
  <2>2. Draft(c) = [evaluation |-> [id |-> id, request |-> call[c].request, policy |-> call[c].policy,
                                    outcomes |-> d.outcomes, stoppedAt |-> d.stoppedAt],
                    intents |-> IntentsOf(id, d)]
    BY <1>1, <2>1, Zenon DEF Draft
  <2>3. e = [id |-> id, request |-> call[c].request, policy |-> call[c].policy,
             outcomes |-> d.outcomes, stoppedAt |-> d.stoppedAt]
    BY <1>3, <1>4, <2>2
  <2>4. k.answer.intents = IntentsOf(id, d)
    BY <1>4, <2>2
  <2>5. QED BY <2>1, <2>3, <2>4
<1>6. IntentsAreSound(k.answer.intents, e)
  BY <1>2, <1>5, IntentsFollowDecision
<1>7. StopIsSound(e)
  BY <1>2, <1>5 DEF Decision, StopIsSound
<1>8. QED BY <1>3, <1>4, <1>5, <1>6, <1>7 DEF DraftIsSound

-----------------------------------------------------------------------------
(* The callers *)

StoreIsSound ==
    /\ \A e \in evaluations : EvaluationShape(e)
    /\ \A i \in intents : IntentShape(i)
    /\ OneEvaluationPerRequest

\* The answer of the call k, against the stored evaluations es and intents is.
AnswerAgrees(k, es, is) ==
    IF k.dryRun THEN k.answer.evaluation \notin es
    ELSE /\ k.answer.evaluation \in es
         /\ k.answer.evaluation.request = k.request
         /\ k.answer.evaluation.policy = k.policy
         /\ k.answer.intents = {i \in is : i.evaluation = k.answer.evaluation.id}

LEMMA AnswersAgreeByCall ==
    /\ AnswersAgree <=>
         \A c \in Callers : call[c].at = "answered" => AnswerAgrees(call[c], evaluations, intents)
    /\ AnswersAgree' <=>
         \A c \in Callers : call'[c].at = "answered" => AnswerAgrees(call'[c], evaluations', intents')
BY Zenon DEF AnswersAgree, AnswerAgrees, Answered, StoredFor

\* What a caller that is about something has asked.
LEMMA AskedIsSound ==
    ASSUME CallsAreSound, NEW c \in Callers, NEW k, k = call[c]
    PROVE  /\ k.at \in {"idle", "find", "load", "persist", "answered"}
           /\ k.at # "idle" => AskIsSound(k)
           /\ k.at \in {"find", "load"} => DOMAIN k = Asks
           /\ k.at \in {"find", "persist"} => k.dryRun = FALSE
           /\ k.at = "persist" => DOMAIN k = Asks \cup {"answer"} /\ DraftIsSound(c, k)
<1>1. CallIsSound(c, k)
  BY DEF CallsAreSound
<1>2. NoCall.at = "idle"
  BY DEF NoCall
<1>3. QED BY <1>1, <1>2 DEF CallIsSound

LEMMA OneCallChanges ==
    ASSUME CallsAreSound, AnswersAgree, NEW c \in Callers, NEW k,
           evaluations' = evaluations, intents' = intents,
           call' = [call EXCEPT ![c] = k],
           CallIsSound(c, k),
           k.at = "answered" => AnswerAgrees(k, evaluations, intents)
    PROVE  CallsAreSound' /\ AnswersAgree'
<1>1. DOMAIN call' = Callers /\ call'[c] = k /\ \A d \in Callers \ {c} : call'[d] = call[d]
  BY DEF CallsAreSound
<1>2. ASSUME NEW d \in Callers
      PROVE  CallIsSound(d, call'[d])
  <2>1. CASE d = c
    BY <1>1, <2>1
  <2>2. CASE d # c
    BY <1>1, <2>2 DEF CallsAreSound
  <2>3. QED BY <2>1, <2>2
<1>3. CallsAreSound'
  BY <1>1, <1>2 DEF CallsAreSound
<1>4. ASSUME NEW d \in Callers, call'[d].at = "answered"
      PROVE  AnswerAgrees(call'[d], evaluations, intents)
  <2>1. CASE d = c
    BY <1>1, <1>4, <2>1
  <2>2. CASE d # c
    BY <1>1, <1>4, <2>2, AnswersAgreeByCall
  <2>3. QED BY <2>1, <2>2
<1>5. QED BY <1>3, <1>4, AnswersAgreeByCall

LEMMA NoCallIsSound ==
    ASSUME NEW c
    PROVE  CallIsSound(c, NoCall) /\ NoCall.at = "idle"
BY DEF CallIsSound, NoCall

LEMMA StoreKept ==
    ASSUME StoreIsSound, evaluations' = evaluations, intents' = intents
    PROVE  StoreIsSound'
BY DEF StoreIsSound, EvaluationShape, IntentShape, OneEvaluationPerRequest, BusinessKey

LEMMA HoldingIsSound ==
    ASSUME NEW c \in Callers, AskIsSound(call[c]), NEW at, NEW answer, NEW k, k = Holding(c, at, answer)
    PROVE  /\ k.at = at /\ k.answer = answer
           /\ k.request = call[c].request /\ k.policy = call[c].policy /\ k.dryRun = call[c].dryRun
           /\ DOMAIN k = Asks \cup {"answer"}
           /\ AskIsSound(k)
<1>1. /\ k.at = at /\ k.answer = answer
      /\ k.request = call[c].request /\ k.policy = call[c].policy /\ k.dryRun = call[c].dryRun
  BY DEF Holding
<1>2. DOMAIN k = Asks \cup {"answer"}
  BY DEF Holding, Asks
<1>3. QED BY <1>1, <1>2 DEF AskIsSound

LEMMA ReuseAnswers ==
    ASSUME StoreIsSound, CallsAreSound, AnswersAgree, NEW c \in Callers, Reuse(c),
           call[c].at \in {"find", "persist"}, evaluations' = evaluations, intents' = intents
    PROVE  CallsAreSound' /\ AnswersAgree'
<1>1. PICK e \in StoredFor(call[c].request) :
        call' = [call EXCEPT ![c] = IF e.policy = call[c].policy
                                    THEN Holding(c, "answered", Reused(e))
                                    ELSE NoCall]
  BY DEF Reuse
<1>2. CASE e.policy # call[c].policy
  <2>1. call' = [call EXCEPT ![c] = NoCall]
    BY <1>1, <1>2
  <2>2. QED BY <2>1, NoCallIsSound, OneCallChanges
<1>3. CASE e.policy = call[c].policy
  <2>1. PICK k : k = Holding(c, "answered", Reused(e))
    OBVIOUS
  <2>2. call' = [call EXCEPT ![c] = k]
    BY <1>1, <1>3, <2>1
  <2>3. AskIsSound(call[c]) /\ call[c].dryRun = FALSE
    BY AskedIsSound
  <2>4. /\ k.at = "answered" /\ k.answer = Reused(e)
        /\ k.request = call[c].request /\ k.policy = call[c].policy /\ k.dryRun = FALSE
        /\ DOMAIN k = Asks \cup {"answer"}
        /\ AskIsSound(k)
    BY <2>1, <2>3, HoldingIsSound
  <2>5. CallIsSound(c, k)
    BY <2>4 DEF CallIsSound
  <2>6. Reused(e).evaluation = e /\ Reused(e).intents = {i \in intents : i.evaluation = e.id}
    BY DEF Reused
  <2>7. e \in evaluations /\ e.request = call[c].request
    BY DEF StoredFor
  <2>8. AnswerAgrees(k, evaluations, intents)
    BY <1>3, <2>4, <2>6, <2>7 DEF AnswerAgrees
  <2>9. QED BY <2>2, <2>5, <2>8, OneCallChanges
<1>4. QED BY <1>2, <1>3

LEMMA StartCallKeeps ==
    ASSUME StoreIsSound, CallsAreSound, AnswersAgree, NEW c \in Callers, StartCall(c)
    PROVE  CallsAreSound' /\ AnswersAgree'
<1>1. PICK q \in Requests, p \in Policies, dryRun \in BOOLEAN :
        call' = [call EXCEPT ![c] = [at |-> IF dryRun THEN "load" ELSE "find",
                                     request |-> q, policy |-> p, dryRun |-> dryRun]]
  BY DEF StartCall
<1>2. PICK k : k = [at |-> IF dryRun THEN "load" ELSE "find",
                    request |-> q, policy |-> p, dryRun |-> dryRun]
  OBVIOUS
<1>3. DOMAIN k = Asks /\ AskIsSound(k)
  BY <1>2 DEF Asks, AskIsSound
<1>4. k.dryRun = dryRun /\ k.at = IF dryRun THEN "load" ELSE "find"
  BY <1>2
<1>5. k.at = "load" \/ (k.at = "find" /\ k.dryRun = FALSE)
  BY <1>4
<1>6. CallIsSound(c, k) /\ k.at # "answered"
  BY <1>3, <1>5 DEF CallIsSound
<1>7. call' = [call EXCEPT ![c] = k]
  BY <1>1, <1>2
<1>8. QED BY <1>6, <1>7, OneCallChanges DEF StartCall

LEMMA EndCallKeeps ==
    ASSUME StoreIsSound, CallsAreSound, AnswersAgree, NEW c \in Callers, EndCall(c)
    PROVE  CallsAreSound' /\ AnswersAgree'
BY NoCallIsSound, OneCallChanges DEF EndCall

LEMMA FindByRequestIdKeeps ==
    ASSUME StoreIsSound, CallsAreSound, AnswersAgree, NEW c \in Callers, FindByRequestId(c)
    PROVE  CallsAreSound' /\ AnswersAgree'
<1>1. call[c].at = "find" /\ evaluations' = evaluations /\ intents' = intents
  BY DEF FindByRequestId
<1>2. CASE StoredFor(call[c].request) = {}
  <2>1. PICK k : k = [call[c] EXCEPT !.at = "load"]
    OBVIOUS
  <2>2. call' = [call EXCEPT ![c] = k]
    BY <1>2, <2>1 DEF FindByRequestId
  <2>3. DOMAIN call[c] = Asks /\ AskIsSound(call[c])
    BY <1>1, AskedIsSound
  <2>4. /\ DOMAIN k = Asks
        /\ k.at = "load"
        /\ k.request = call[c].request /\ k.policy = call[c].policy /\ k.dryRun = call[c].dryRun
    BY <2>1, <2>3 DEF Asks
  <2>5. CallIsSound(c, k)
    BY <2>3, <2>4 DEF CallIsSound, AskIsSound
  <2>6. QED BY <1>1, <2>2, <2>4, <2>5, OneCallChanges
<1>3. CASE StoredFor(call[c].request) # {}
  <2>1. Reuse(c)
    BY <1>3 DEF FindByRequestId
  <2>2. QED BY <1>1, <2>1, ReuseAnswers
<1>4. QED BY <1>2, <1>3

LEMMA LoadSnapshotKeeps ==
    ASSUME StoreIsSound, CallsAreSound, AnswersAgree, rules \in [Policies -> RuleSets],
           NEW c \in Callers, LoadSnapshot(c)
    PROVE  CallsAreSound' /\ AnswersAgree'
<1>1. call[c].at = "load" /\ evaluations' = evaluations /\ intents' = intents
  BY DEF LoadSnapshot
<1>2. CASE ~Loadable(call[c].policy)
  <2>1. call' = [call EXCEPT ![c] = NoCall]
    BY <1>2 DEF LoadSnapshot
  <2>2. QED BY <1>1, <2>1, NoCallIsSound, OneCallChanges
<1>3. CASE Loadable(call[c].policy)
  <2>1. PICK k : k = Holding(c, IF call[c].dryRun THEN "answered" ELSE "persist", Draft(c))
    OBVIOUS
  <2>2. call' = [call EXCEPT ![c] = k]
    BY <1>3, <2>1, Zenon DEF LoadSnapshot
  <2>3. AskIsSound(call[c]) /\ call[c].policy \in Policies /\ call[c].dryRun \in BOOLEAN
    BY <1>1, AskedIsSound DEF AskIsSound
  <2>4. /\ k.at = IF call[c].dryRun THEN "answered" ELSE "persist"
        /\ k.dryRun = call[c].dryRun
        /\ DOMAIN k = Asks \cup {"answer"}
        /\ AskIsSound(k)
    BY <2>1, <2>3, HoldingIsSound
  <2>5. DraftIsSound(c, k)
    BY <2>1, <2>3, DraftSound
  <2>6. CallIsSound(c, k)
    BY <2>3, <2>4, <2>5 DEF CallIsSound
  <2>7. ASSUME k.at = "answered"
        PROVE  AnswerAgrees(k, evaluations, intents)
    <3>1. k.dryRun = TRUE
      BY <2>3, <2>4, <2>7
    <3>2. k.answer.evaluation.id[3] = TRUE
      BY <2>5, <3>1 DEF DraftIsSound
    <3>3. \A e \in evaluations : e.id[3] = FALSE
      BY DEF StoreIsSound, EvaluationShape
    <3>4. k.answer.evaluation \notin evaluations
      BY <3>2, <3>3
    <3>5. QED BY <3>1, <3>4 DEF AnswerAgrees
  <2>8. QED BY <1>1, <2>2, <2>6, <2>7, OneCallChanges
<1>4. QED BY <1>2, <1>3

\* What is inserted has its evaluation's request in its name, and nothing is
\* stored for that request.
LEMMA InsertDraftKeeps ==
    ASSUME StoreIsSound, CallsAreSound, AnswersAgree, NEW c \in Callers, call[c].at = "persist",
           StoredFor(call[c].request) = {}, InsertDraft(c)
    PROVE  StoreIsSound' /\ CallsAreSound' /\ AnswersAgree'
<1>1. PICK k, e, I : k = call[c] /\ e = k.answer.evaluation /\ I = k.answer.intents
  OBVIOUS
<1>2. /\ evaluations' = evaluations \cup {e}
      /\ intents' = intents \cup I
      /\ \A i \in I, j \in intents : BusinessKey(i) # BusinessKey(j)
      /\ call' = [call EXCEPT ![c].at = "answered"]
  BY <1>1 DEF InsertDraft
<1>3. /\ AskIsSound(k)
      /\ k.dryRun = FALSE
      /\ DOMAIN k = Asks \cup {"answer"}
      /\ DraftIsSound(c, k)
  BY <1>1, AskedIsSound
<1>4. /\ e.id = <<c, k.request, FALSE>>
      /\ e.request = k.request
      /\ e.policy = k.policy
      /\ StopIsSound(e)
      /\ IntentsAreSound(I, e)
  BY <1>1, <1>3 DEF DraftIsSound
<1>5. \A f \in evaluations : f.request # e.request
  BY <1>1, <1>4 DEF StoredFor
<1>6. \A f \in evaluations : f.id # e.id
  <2>1. \A f \in evaluations : f.id[2] = f.request
    BY DEF StoreIsSound, EvaluationShape
  <2>2. e.id[2] = e.request
    BY <1>4
  <2>3. QED BY <1>5, <2>1, <2>2
<1>7. EvaluationShape(e)
  <2>1. e.id \in Callers \X {e.request} \X {FALSE}
    <3>1. PICK no : no = FALSE
      OBVIOUS
    <3>2. PICK q : q = e.request
      OBVIOUS
    <3>3. e.id = <<c, q, no>>
      BY <1>4, <3>1, <3>2, Zenon
    <3>4. <<c, q, no>> \in Callers \X {q} \X {no}
      OBVIOUS
    <3>5. QED BY <3>1, <3>2, <3>3, <3>4, Zenon
  <2>2. e.request \in Requests /\ e.policy \in Policies
    BY <1>3, <1>4 DEF AskIsSound
  <2>3. e.stoppedAt \in {e.outcomes[i].rule : i \in DOMAIN e.outcomes} \cup {None}
    BY <1>4 DEF StopIsSound
  <2>4. QED BY <2>1, <2>2, <2>3, Zenon DEF EvaluationShape
<1>8. \A i \in I : IntentIsSound(i, e)
  BY <1>4 DEF IntentsAreSound
<1>9. \A i \in intents : i.evaluation \in {f.id : f \in evaluations}
  BY DEF StoreIsSound, IntentShape
<1>10. \A i \in intents : i.evaluation # e.id
  BY <1>6, <1>9
<1>11. \A i \in I : i.evaluation = e.id
  BY <1>8 DEF IntentIsSound
<1>12. \A i, j \in intents' : BusinessKey(i) = BusinessKey(j) => i = j
  <2> SUFFICES ASSUME NEW i \in intents', NEW j \in intents', BusinessKey(i) = BusinessKey(j)
               PROVE  i = j
    OBVIOUS
  <2>1. CASE i \in intents /\ j \in intents
    BY <2>1 DEF StoreIsSound, IntentShape
  <2>2. CASE i \in I /\ j \in I
    BY <1>4, <2>2 DEF IntentsAreSound
  <2>3. QED BY <1>2, <2>1, <2>2
<1>13. \A i \in intents : IntentShape(i)
  BY DEF StoreIsSound
<1>14. \A i \in intents' : IntentShape(i)'
  <2> SUFFICES ASSUME NEW i \in intents'
               PROVE  IntentShape(i)'
    OBVIOUS
  <2>1. /\ i.evaluation \in {f.id : f \in evaluations'}
        /\ i.destination \in Destinations
        /\ i.identity \in Identities
        /\ (i.mode = "forward_only") <=> (i.template = None)
        /\ i.status = "pending"
    <3>1. CASE i \in intents
      BY <1>2, <1>13, <3>1 DEF IntentShape
    <3>2. CASE i \in I
      BY <1>2, <1>8, <3>2 DEF IntentIsSound
    <3>3. QED BY <1>2, <3>1, <3>2
  <2>2. QED BY <1>12, <2>1 DEF IntentShape, BusinessKey
<1>15. OneEvaluationPerRequest'
  <2>1. \A f, g \in evaluations' : f.request = g.request => f = g
    BY <1>2, <1>5 DEF StoreIsSound, OneEvaluationPerRequest
  <2>2. ASSUME NEW i \in intents'
        PROVE  \E f \in evaluations' :
                 /\ f.id = i.evaluation
                 /\ \E n \in DOMAIN f.outcomes : f.outcomes[n].rule = i.rule /\ f.outcomes[n].matched
    <3>1. CASE i \in intents
      BY <1>2, <3>1 DEF StoreIsSound, OneEvaluationPerRequest
    <3>2. CASE i \in I
      BY <1>2, <1>8, <3>2 DEF IntentIsSound
    <3>3. QED BY <1>2, <3>1, <3>2
  <2>3. QED BY <2>1, <2>2 DEF OneEvaluationPerRequest
<1>16. StoreIsSound'
  <2>1. \A f \in evaluations' : EvaluationShape(f)
    BY <1>2, <1>7 DEF StoreIsSound
  <2>2. \A f \in evaluations' : EvaluationShape(f)'
    BY <2>1 DEF EvaluationShape
  <2>3. QED BY <1>14, <1>15, <2>2 DEF StoreIsSound
<1>17. PICK new : new = [k EXCEPT !.at = "answered"]
  OBVIOUS
<1>18. DOMAIN call' = Callers /\ call'[c] = new /\ \A d \in Callers \ {c} : call'[d] = call[d]
  BY <1>1, <1>2, <1>17 DEF CallsAreSound
<1>19. /\ new.at = "answered" /\ DOMAIN new = Asks \cup {"answer"}
       /\ new.request = k.request /\ new.policy = k.policy /\ new.dryRun = FALSE
       /\ new.answer = k.answer
  BY <1>3, <1>17 DEF Asks
<1>20. CallIsSound(c, new)
  BY <1>3, <1>19 DEF CallIsSound, AskIsSound
<1>21. CallsAreSound'
  BY <1>18, <1>20 DEF CallsAreSound
<1>22. ASSUME NEW d \in Callers, call'[d].at = "answered"
       PROVE  AnswerAgrees(call'[d], evaluations', intents')
  <2>1. CASE d = c
    <3>1. {i \in intents' : i.evaluation = e.id} = I
      BY <1>2, <1>10, <1>11
    <3>2. /\ new.answer.evaluation = e
          /\ new.answer.intents = I
      BY <1>1, <1>19
    <3>3. AnswerAgrees(new, evaluations', intents')
      BY <1>2, <1>4, <1>19, <3>1, <3>2 DEF AnswerAgrees
    <3>4. QED BY <1>18, <2>1, <3>3
  <2>2. CASE d # c
    <3>1. PICK o : o = call[d]
      OBVIOUS
    <3>2. call'[d] = o
      BY <1>18, <2>2, <3>1
    <3>3. AnswerAgrees(o, evaluations, intents)
      BY <1>22, <3>1, <3>2, AnswersAgreeByCall
    <3>4. CASE o.dryRun
      <4>1. DraftIsSound(d, o)
        <5>1. CallIsSound(d, o) /\ o.at = "answered" /\ NoCall.at = "idle"
          BY <1>22, <3>1, <3>2 DEF CallsAreSound, NoCall
        <5>2. QED BY <3>4, <5>1 DEF CallIsSound
      <4>2. AskIsSound(o)
        BY <1>22, <3>1, <3>2, AskedIsSound
      <4>3. o.dryRun = TRUE
        BY <3>4, <4>2 DEF AskIsSound
      <4>4. o.answer.evaluation.id[3] = TRUE
        BY <4>1, <4>3 DEF DraftIsSound
      <4>5. e.id[3] = FALSE
        BY <1>4
      <4>6. o.answer.evaluation \notin evaluations'
        BY <1>2, <3>3, <3>4, <4>4, <4>5 DEF AnswerAgrees
      <4>7. QED BY <3>2, <3>4, <4>6 DEF AnswerAgrees
    <3>5. CASE ~o.dryRun
      <4>1. /\ o.answer.evaluation \in evaluations
            /\ o.answer.evaluation.request = o.request
            /\ o.answer.evaluation.policy = o.policy
            /\ o.answer.intents = {i \in intents : i.evaluation = o.answer.evaluation.id}
        BY <3>3, <3>5 DEF AnswerAgrees
      <4>2. o.answer.evaluation.id # e.id
        BY <1>6, <4>1
      <4>3. {i \in intents' : i.evaluation = o.answer.evaluation.id}
              = {i \in intents : i.evaluation = o.answer.evaluation.id}
        BY <1>2, <1>11, <4>2
      <4>4. AnswerAgrees(o, evaluations', intents')
        BY <1>2, <3>5, <4>1, <4>3 DEF AnswerAgrees
      <4>5. QED BY <3>2, <4>4
    <3>6. QED BY <3>4, <3>5
  <2>3. QED BY <2>1, <2>2
<1>23. AnswersAgree'
  BY <1>22, AnswersAgreeByCall
<1>24. QED BY <1>16, <1>21, <1>23

LEMMA CallKeeps ==
    ASSUME StoreIsSound, CallsAreSound, AnswersAgree, rules \in [Policies -> RuleSets],
           NEW c \in Callers, Call(c)
    PROVE  StoreIsSound' /\ CallsAreSound' /\ AnswersAgree'
<1>1. CASE StartCall(c)
  <2>1. evaluations' = evaluations /\ intents' = intents
    BY <1>1 DEF StartCall
  <2>2. QED BY <1>1, <2>1, StartCallKeeps, StoreKept
<1>2. CASE FindByRequestId(c)
  <2>1. evaluations' = evaluations /\ intents' = intents
    BY <1>2 DEF FindByRequestId
  <2>2. QED BY <1>2, <2>1, FindByRequestIdKeeps, StoreKept
<1>3. CASE LoadSnapshot(c)
  <2>1. evaluations' = evaluations /\ intents' = intents
    BY <1>3 DEF LoadSnapshot
  <2>2. QED BY <1>3, <2>1, LoadSnapshotKeeps, StoreKept
<1>4. CASE PersistEvaluation(c)
  <2>1. call[c].at = "persist"
    BY <1>4 DEF PersistEvaluation
  <2>2. CASE StoredFor(call[c].request) = {} /\ InsertDraft(c)
    BY <2>1, <2>2, InsertDraftKeeps
  <2>3. CASE Reuse(c) /\ evaluations' = evaluations /\ intents' = intents
    BY <2>1, <2>3, ReuseAnswers, StoreKept
  <2>4. QED BY <1>4, <2>2, <2>3 DEF PersistEvaluation
<1>5. CASE EndCall(c)
  <2>1. evaluations' = evaluations /\ intents' = intents
    BY <1>5 DEF EndCall
  <2>2. QED BY <1>5, <2>1, EndCallKeeps, StoreKept
<1>6. QED BY <1>1, <1>2, <1>3, <1>4, <1>5 DEF Call

LEMMA CallersUntouched ==
    ASSUME StoreIsSound, CallsAreSound, AnswersAgree, UNCHANGED routingVars
    PROVE  StoreIsSound' /\ CallsAreSound' /\ AnswersAgree'
<1>1. evaluations' = evaluations /\ intents' = intents /\ call' = call
  BY DEF routingVars
<1>2. QED BY <1>1, StoreKept, AnswersAgreeByCall DEF CallsAreSound

-----------------------------------------------------------------------------
(* Configuration and review *)

ConfigurationOK ==
    /\ versionState \in [Versions -> VersionState]
    /\ rules \in [Policies -> RuleSets]
    /\ edit \in [Editors -> Edit]

LEMMA ConfigureKeeps ==
    ASSUME ConfigurationOK, Configure
    PROVE  ConfigurationOK'
<1>1. ASSUME NEW v \in Versions, PublishVersion(v) \/ RetireVersion(v)
      PROVE  ConfigurationOK'
  BY <1>1 DEF ConfigurationOK, PublishVersion, RetireVersion, VersionState
<1>2. ASSUME NEW e \in Editors, NEW p \in Policies, BeginEdit(e, p)
      PROVE  ConfigurationOK'
  <2>1. PICK rs \in RuleSets : edit' = [edit EXCEPT ![e] = [policy |-> p, rules |-> rs]]
    BY <1>2 DEF BeginEdit
  <2>2. [policy |-> p, rules |-> rs] \in Edit
    BY DEF Edit
  <2>3. QED BY <1>2, <2>1, <2>2 DEF ConfigurationOK, BeginEdit
<1>3. ASSUME NEW e \in Editors, CommitEdit(e, UsedRules) \/ RollBackEdit(e)
      PROVE  ConfigurationOK'
  <2>1. edit[e] \in [policy : Policies, rules : RuleSets]
    BY <1>3 DEF ConfigurationOK, Edit, CommitEdit, RollBackEdit
  <2>2. edit' = [edit EXCEPT ![e] = NoEdit] /\ versionState' = versionState
    BY <1>3 DEF CommitEdit, RollBackEdit
  <2>3. edit' \in [Editors -> Edit]
    BY <2>2 DEF ConfigurationOK, Edit
  <2>4. rules' = rules \/ rules' = [rules EXCEPT ![edit[e].policy] = edit[e].rules]
    BY <1>3 DEF CommitEdit, RollBackEdit
  <2>5. rules' \in [Policies -> RuleSets]
    BY <2>1, <2>4 DEF ConfigurationOK
  <2>6. QED BY <2>2, <2>3, <2>5 DEF ConfigurationOK
<1>4. QED BY <1>1, <1>2, <1>3 DEF Configure

ReviewIsSound == ReviewTypeOK /\ EventsChain /\ EventsHaveTheirPlace

LEMMA LabelEventKeeps ==
    ASSUME ReviewIsSound, NEW event \in ManualEvent, AppendManualLabel(event)
    PROVE  ReviewIsSound'
<1>1. /\ manual' = manual \cup {event}
      /\ event.at \notin {e.at : e \in manual}
      /\ modelLabels' = modelLabels /\ reviewStatus' = reviewStatus /\ reviewEvents' = reviewEvents
  BY DEF AppendManualLabel
<1>2. ReviewTypeOK'
  BY <1>1 DEF ReviewIsSound, ReviewTypeOK
<1>3. EventsChain'
  BY <1>1 DEF ReviewIsSound, EventsChain
<1>4. EventsHaveTheirPlace'
  BY <1>1 DEF ReviewIsSound, EventsHaveTheirPlace
<1>5. QED BY <1>2, <1>3, <1>4 DEF ReviewIsSound

LEMMA TransitionKeeps ==
    ASSUME ReviewIsSound, NEW new \in ReviewStatuses, NEW at \in Positions, TransitionStatus(new, at)
    PROVE  ReviewIsSound'
<1>1. PICK s, t, e : s = reviewEvents /\ t = reviewEvents' /\ e = NewReviewEvent(reviewStatus, new, at)
  OBVIOUS
<1>2. /\ t = Append(s, e) /\ reviewStatus' = new
      /\ modelLabels' = modelLabels /\ manual' = manual
  BY <1>1 DEF TransitionStatus
<1>3. reviewStatus \in ReviewStatuses /\ s \in Seq(ReviewEvent)
  BY <1>1 DEF ReviewIsSound, ReviewTypeOK
<1>4. e \in ReviewEvent /\ e.old = reviewStatus /\ e.new = new
  BY <1>1, <1>3 DEF NewReviewEvent, ReviewEvent
<1>5. PICK n \in Nat : n = Len(s) /\ DOMAIN s = 1..n
  BY <1>3, SeqFacts
<1>6. /\ t \in Seq(ReviewEvent)
      /\ Len(t) = n + 1
      /\ DOMAIN t = 1..(n + 1)
      /\ \A i \in 1..n : t[i] = s[i]
      /\ t[n + 1] = e
  BY <1>2, <1>3, <1>4, <1>5, AppendFacts
<1>7. ReviewTypeOK'
  BY <1>1, <1>2, <1>6 DEF ReviewIsSound, ReviewTypeOK
<1>8. /\ \A i \in 1..n : s[i].old = IF i - 1 = 0 THEN "unreviewed" ELSE s[i - 1].new
      /\ reviewStatus = IF n = 0 THEN "unreviewed" ELSE s[n].new
  BY <1>1, <1>5 DEF ReviewIsSound, EventsChain
<1>9. ASSUME NEW i \in 1..(n + 1)
      PROVE  t[i].old = IF i - 1 = 0 THEN "unreviewed" ELSE t[i - 1].new
  <2>1. CASE i = n + 1
    <3>1. t[i].old = reviewStatus
      BY <1>4, <1>6, <2>1
    <3>2. i - 1 = n
      BY <2>1
    <3>3. n # 0 => t[n] = s[n]
      BY <1>6
    <3>4. QED BY <1>8, <3>1, <3>2, <3>3
  <2>2. CASE i # n + 1
    <3>1. i \in 1..n /\ (i - 1 # 0 => i - 1 \in 1..n)
      BY <2>2
    <3>2. QED BY <1>6, <1>8, <3>1
  <2>3. QED BY <2>1, <2>2
<1>10. reviewStatus' = t[n + 1].new /\ n + 1 # 0
  BY <1>2, <1>4, <1>6
<1>11. EventsChain'
  BY <1>1, <1>6, <1>9, <1>10 DEF EventsChain
<1>12. QED BY <1>2, <1>7, <1>11 DEF ReviewIsSound, EventsHaveTheirPlace

LEMMA EventShapes ==
    ASSUME NEW id \in Identity, NEW at \in Positions, NEW value \in LabelValues \cup {None}
    PROVE  /\ NewManualEvent(id, value, at) \in ManualEvent
           /\ NewManualEvent(id, value, at).id = id
           /\ NewManualEvent(id, value, at).value = value
           /\ NewManualEvent(id, value, at).at = at
BY DEF NewManualEvent, ManualEvent

LEMMA ReviewKeeps ==
    ASSUME ReviewIsSound, ReviewMessage
    PROVE  ReviewIsSound'
<1>1. ASSUME NEW id \in Identity, NEW at \in Positions, SetLabel(id, at) \/ ClearLabel(id, at)
      PROVE  ReviewIsSound'
  <2>1. PICK value \in LabelValues \cup {None} : AppendManualLabel(NewManualEvent(id, value, at))
    BY <1>1 DEF SetLabel, ClearLabel
  <2>2. QED BY <2>1, EventShapes, LabelEventKeeps
<1>2. CASE CompleteAnalysis
  <2>1. modelLabels' \in [Identity -> LabelValues \cup {None}]
    BY <1>2, ModelLabelsAssumption DEF CompleteAnalysis
  <2>2. manual' = manual /\ reviewStatus' = reviewStatus /\ reviewEvents' = reviewEvents
    BY <1>2 DEF CompleteAnalysis
  <2>3. QED BY <2>1, <2>2 DEF ReviewIsSound, ReviewTypeOK, EventsChain, EventsHaveTheirPlace
<1>3. QED BY <1>1, <1>2, TransitionKeeps DEF ReviewMessage

-----------------------------------------------------------------------------
(* The invariant holds in every state *)

LEMMA IInvParts ==
    /\ IInv <=>
         /\ ConfigurationOK /\ ReviewIsSound /\ StoreIsSound /\ CallsAreSound /\ AnswersAgree
         /\ fingerprint \in Fingerprints
         /\ disabled \subseteq Destinations \cup Identities
         /\ changes \in 0..MaxChanges
    /\ IInv' <=>
         /\ ConfigurationOK' /\ ReviewIsSound' /\ StoreIsSound' /\ CallsAreSound' /\ AnswersAgree'
         /\ fingerprint' \in Fingerprints
         /\ disabled' \subseteq Destinations \cup Identities
         /\ changes' \in 0..MaxChanges
<1>1. CallsAreSound => \A c \in Callers : call[c].at \in {"idle", "find", "load", "persist", "answered"}
  BY AskedIsSound
<1>2. CallsAreSound' => \A c \in Callers : call'[c].at \in {"idle", "find", "load", "persist", "answered"}
  <2>1. NoCall.at = "idle"
    BY DEF NoCall
  <2>2. QED BY <2>1 DEF CallsAreSound, CallIsSound
<1>3. QED
  BY <1>1, <1>2, Zenon DEF IInv, TypeOK, ConfigurationOK, ReviewIsSound, StoreIsSound

LEMMA InitIInv == Init => IInv
<1> SUFFICES ASSUME Init
             PROVE  IInv
  OBVIOUS
<1>1. ConfigurationOK
  BY VersionsAssumption, Zenon DEF Init, ConfigurationInit, ConfigurationOK, Edit
<1>2. ReviewIsSound
  <2>1. modelLabels = InitialLabels /\ manual = {} /\ reviewStatus = "unreviewed" /\ reviewEvents = <<>>
    BY DEF Init, ReviewInit
  <2>2. modelLabels \in [Identity -> LabelValues \cup {None}]
    BY <2>1, ModelLabelsAssumption
  <2>3. ReviewTypeOK
    BY <2>1, <2>2, ReviewAssumption DEF ReviewTypeOK
  <2>4. EventsChain
    BY <2>1 DEF EventsChain
  <2>5. QED BY <2>1, <2>3, <2>4 DEF ReviewIsSound, EventsHaveTheirPlace
<1>3. evaluations = {} /\ intents = {} /\ call = [c \in Callers |-> NoCall]
  BY DEF Init
<1>4. StoreIsSound
  BY <1>3 DEF StoreIsSound, OneEvaluationPerRequest
<1>5. CallsAreSound
  BY <1>3, NoCallIsSound DEF CallsAreSound
<1>6. AnswersAgree
  BY <1>3, NoCallIsSound, AnswersAgreeByCall
<1>7. fingerprint \in Fingerprints /\ disabled = {} /\ changes = 0
  BY DEF Init
<1>8. changes \in 0..MaxChanges
  BY <1>7, RoutingAssumption
<1>9. QED BY <1>1, <1>2, <1>4, <1>5, <1>6, <1>7, <1>8, IInvParts

LEMMA ConfigurationUntouched ==
    ASSUME ConfigurationOK, UNCHANGED configurationVars
    PROVE  ConfigurationOK'
BY DEF ConfigurationOK, configurationVars

LEMMA ReviewUntouched ==
    ASSUME ReviewIsSound, UNCHANGED reviewVars
    PROVE  ReviewIsSound'
BY DEF ReviewIsSound, ReviewTypeOK, EventsChain, EventsHaveTheirPlace, reviewVars

LEMMA NextIInv == IInv /\ [Next]_vars => IInv'
<1> SUFFICES ASSUME IInv, [Next]_vars
             PROVE  IInv'
  OBVIOUS
<1>1. /\ ConfigurationOK /\ ReviewIsSound /\ StoreIsSound /\ CallsAreSound /\ AnswersAgree
      /\ fingerprint \in Fingerprints
      /\ disabled \subseteq Destinations \cup Identities
      /\ changes \in 0..MaxChanges
  BY IInvParts
<1>2. CASE Change
  <2>1. changes' \in 0..MaxChanges
    BY <1>1, <1>2, RoutingAssumption DEF Change
  <2>2. StoreIsSound' /\ CallsAreSound' /\ AnswersAgree'
    BY <1>1, <1>2, CallersUntouched DEF Change
  <2>3. CASE Configure
    <3>1. UNCHANGED reviewVars /\ fingerprint' = fingerprint /\ disabled' = disabled
      BY <2>3, Zenon DEF Configure
    <3>2. QED BY <1>1, <2>1, <2>2, <2>3, <3>1, ConfigureKeeps, ReviewUntouched, IInvParts
  <2>4. CASE Disable
    <3>1. UNCHANGED configurationVars /\ UNCHANGED reviewVars /\ fingerprint' = fingerprint
      BY <2>4, Zenon DEF Disable
    <3>2. disabled' \subseteq Destinations \cup Identities
      BY <1>1, <2>4 DEF Disable
    <3>3. QED BY <1>1, <2>1, <2>2, <3>1, <3>2, ConfigurationUntouched, ReviewUntouched, IInvParts
  <2>5. CASE ReviewMessage
    <3>1. UNCHANGED configurationVars /\ fingerprint' = fingerprint /\ disabled' = disabled
      BY <2>5, Zenon DEF ReviewMessage
    <3>2. QED BY <1>1, <2>1, <2>2, <2>5, <3>1, ReviewKeeps, ConfigurationUntouched, IInvParts
  <2>6. QED BY <1>2, <2>3, <2>4, <2>5 DEF Change
<1>3. ASSUME NEW c \in Callers, Call(c)
      PROVE  IInv'
  <2>1. UNCHANGED configurationVars /\ UNCHANGED reviewVars
    BY <1>3, Zenon DEF Call, worldVars
  <2>2. fingerprint' = fingerprint /\ disabled' = disabled /\ changes' = changes
    BY <1>3 DEF Call, worldVars
  <2>3. rules \in [Policies -> RuleSets]
    BY <1>1 DEF ConfigurationOK
  <2>4. StoreIsSound' /\ CallsAreSound' /\ AnswersAgree'
    BY <1>1, <1>3, <2>3, CallKeeps
  <2>5. QED BY <1>1, <2>1, <2>2, <2>4, ConfigurationUntouched, ReviewUntouched, IInvParts
<1>4. CASE UNCHANGED vars
  <2>1. UNCHANGED configurationVars /\ UNCHANGED reviewVars /\ UNCHANGED routingVars
    BY <1>4, Zenon DEF vars, worldVars
  <2>2. fingerprint' = fingerprint /\ disabled' = disabled /\ changes' = changes
    BY <1>4 DEF vars, worldVars
  <2>3. QED BY <1>1, <2>1, <2>2, CallersUntouched, ConfigurationUntouched, ReviewUntouched, IInvParts
<1>5. QED BY <1>2, <1>3, <1>4 DEF Next

(* The inductive invariant holds in every reachable state, of whatever the *)
(* callers, the reviewers and the administrators do in whatever order.     *)
THEOREM Invariant == Spec => []IInv
<1>1. QED BY InitIInv, NextIInv, PTL DEF Spec

(* Every variable stays in its domain, and every stored evaluation and     *)
(* intent has the shape that its table demands.                            *)
THEOREM TypeCorrect == Spec => []TypeOK
<1>1. IInv => TypeOK
  BY DEF IInv
<1>2. QED BY <1>1, Invariant, PTL

(* The review history is a chain: no transition that runs beside another   *)
(* starts from a status that the other has left                            *)
(* (transition_review_status).                                             *)
THEOREM HistoryIsAChain == Spec => []EventsChain
<1>1. IInv => EventsChain
  BY DEF IInv
<1>2. QED BY <1>1, Invariant, PTL

(* However many callers evaluate a request, it has one evaluation, and no  *)
(* intent exists beside those of its matched rules (persist_evaluation).   *)
THEOREM RequestsAreEvaluatedOnce == Spec => []OneEvaluationPerRequest
<1>1. IInv => OneEvaluationPerRequest
  BY DEF IInv
<1>2. QED BY <1>1, Invariant, PTL

(* Formal answers are what is stored, the loser's of a race too; a dry     *)
(* run's answer is stored nowhere (evaluate, persist_evaluation).          *)
THEOREM FormalAnswersAgree == Spec => []AnswersAgree
<1>1. IInv => AnswersAgree
  BY DEF IInv
<1>2. QED BY <1>1, Invariant, PTL

-----------------------------------------------------------------------------
(* What a decision leads to *)

\* The rules and actions of S are those of the rules that fire.
FollowsRules(S, rs, facts) ==
    {<<i.rule, i.action>> : i \in S} =
        {<<ra[1].id, ra[2].id>> : ra \in
            {ra \in rs \X ActionsOf(rs) : ra[1] \in Firing(rs, facts) /\ ra[2] \in ToSet(ra[1].actions)}}

LEMMA IntentsAreOfFiringRules ==
    ASSUME NEW rs, RuleSetShape(rs), NEW facts, NEW d, Decision(d, rs, facts), NEW id
    PROVE  FollowsRules(IntentsOf(id, d), rs, facts)
<1> DEFINE D == {<<i.rule, i.action>> : i \in IntentsOf(id, d)}
           P == {ra \in rs \X ActionsOf(rs) : ra[1] \in Firing(rs, facts) /\ ra[2] \in ToSet(ra[1].actions)}
           R == {<<ra[1].id, ra[2].id>> : ra \in P}
<1>1. ASSUME NEW x \in D
      PROVE  x \in R
  <2>1. PICK i \in IntentsOf(id, d) : x = <<i.rule, i.action>>
    OBVIOUS
  <2>2. PICK a \in ToSet(d.actions) : i = NewIntent(id, a)
    BY DEF IntentsOf
  <2>3. PICK r \in Firing(rs, facts) : \E y \in ToSet(r.actions) :
             /\ a = [rule |-> r.id, action |-> y]
             /\ r \in rs
             /\ RuleShape(r)
             /\ ActionShape(y)
    BY ActionsHaveRules
  <2>4. PICK y \in ToSet(r.actions) : a = [rule |-> r.id, action |-> y]
    BY <2>3
  <2>5. i.rule = r.id /\ i.action = y.id
    BY <2>2, <2>4 DEF NewIntent
  <2>6. r \in rs
    BY <2>3
  <2>7. y \in ActionsOf(rs)
    BY <2>6 DEF ActionsOf, ToSet
  <2>8. <<r, y>> \in P
    BY <2>6, <2>7
  <2>9. x = <<r.id, y.id>>
    BY <2>1, <2>5
  <2>10. QED BY <2>8, <2>9
<1>2. ASSUME NEW x \in R
      PROVE  x \in D
  <2>1. PICK ra \in P : x = <<ra[1].id, ra[2].id>>
    OBVIOUS
  <2>2. PICK r, y : r = ra[1] /\ y = ra[2]
    OBVIOUS
  <2>3. r \in Firing(rs, facts) /\ y \in ToSet(r.actions)
    BY <2>2
  <2>4. PICK a : a = [rule |-> r.id, action |-> y]
    OBVIOUS
  <2>5. a \in Entries(r)
    BY <2>3, <2>4 DEF Entries
  <2>6. a \in ToSet(d.actions)
    BY <2>3, <2>5 DEF Decision
  <2>7. PICK i : i = NewIntent(id, a)
    OBVIOUS
  <2>8. i \in IntentsOf(id, d)
    BY <2>6, <2>7 DEF IntentsOf
  <2>9. i.rule = r.id /\ i.action = y.id
    BY <2>4, <2>7 DEF NewIntent
  <2>10. QED BY <2>1, <2>2, <2>8, <2>9
<1>3. D = R
  BY <1>1, <1>2
<1>4. QED BY <1>3 DEF FollowsRules

\* Only LoadSnapshot takes a caller from "load" to a result.
LEMMA EvaluatesByLoading ==
    ASSUME IInv, [Next]_vars, NEW c \in Callers, Evaluates(c)
    PROVE  call'[c] = Holding(c, call'[c].at, Draft(c))
<1>1. call[c].at = "load" /\ call'[c].at \in {"persist", "answered"} /\ DOMAIN call = Callers
  BY DEF Evaluates, IInv, CallsAreSound
<1>2. call' # call
  BY <1>1
<1>3. ~(UNCHANGED routingVars)
  BY <1>2 DEF routingVars
<1>4. PICK d \in Callers : Call(d)
  BY <1>3 DEF Next, Change, vars
<1>5. \/ \E k : call' = [call EXCEPT ![d] = k]
  BY <1>4, Zenon DEF Call, StartCall, FindByRequestId, LoadSnapshot, PersistEvaluation, EndCall,
     Reuse, InsertDraft
<1>6. d = c
  BY <1>1, <1>5
<1>7. CASE LoadSnapshot(c)
  <2>1. CASE Loadable(call[c].policy)
    <3>1. call'[c] = Holding(c, IF call[c].dryRun THEN "answered" ELSE "persist", Draft(c))
      BY <1>1, <1>7, <2>1, Zenon DEF LoadSnapshot
    <3>2. PICK at, k, a : /\ at = IF call[c].dryRun THEN "answered" ELSE "persist"
                          /\ a = Draft(c)
                          /\ k = Holding(c, at, a)
      OBVIOUS
    <3>3. k.at = at
      BY <3>2 DEF Holding
    <3>4. call'[c] = k
      BY <3>1, <3>2
    <3>5. QED BY <3>2, <3>3, <3>4
  <2>2. CASE ~Loadable(call[c].policy)
    <3>1. call'[c] = NoCall
      BY <1>1, <1>7, <2>2, Zenon DEF LoadSnapshot
    <3>2. QED BY <1>1, <3>1, NoCallIsSound
  <2>3. QED BY <2>1, <2>2
<1>8. CASE StartCall(c) \/ FindByRequestId(c) \/ PersistEvaluation(c)
  BY <1>1, <1>8, NoCallIsSound DEF StartCall, FindByRequestId, PersistEvaluation
<1>9. CASE EndCall(c)
  BY <1>1, <1>9, NoCallIsSound DEF EndCall
<1>10. QED BY <1>4, <1>6, <1>7, <1>8, <1>9 DEF Call

(* The decision is what the policy says, for any rules: a rule fires iff   *)
(* it is enabled, matches, and no firing rule before it in (-priority, id) *)
(* stops; its intents are the actions of the firing rules                  *)
(* (evaluate_routing).                                                     *)
THEOREM DecisionsFollowRules == Spec => DecisionFollowsRules
<1>1. ASSUME IInv, [Next]_vars
      PROVE  \A c \in Callers : Evaluates(c) =>
        LET rs == rules[call[c].policy]
            before(r, s) == r.priority > s.priority \/ (r.priority = s.priority /\ r.id < s.id)
            matches(r) == r.enabled /\ EvaluateCondition(r.condition, Facts)
            fires(r) == matches(r) /\ \A s \in rs : s.stop /\ matches(s) => ~before(s, r)
        IN  {<<i.rule, i.action>> : i \in Drafted(c).intents} =
            {<<ra[1].id, ra[2].id>> : ra \in
                {ra \in rs \X ActionsOf(rs) : fires(ra[1]) /\ ra[2] \in ToSet(ra[1].actions)}}
  <2> SUFFICES ASSUME NEW c \in Callers, Evaluates(c)
      PROVE {<<i.rule, i.action>> : i \in Drafted(c).intents} =
            {<<ra[1].id, ra[2].id>> : ra \in
                {ra \in rules[call[c].policy] \X ActionsOf(rules[call[c].policy]) :
                    /\ /\ ra[1].enabled /\ EvaluateCondition(ra[1].condition, Facts)
                       /\ \A s \in rules[call[c].policy] :
                            s.stop /\ (s.enabled /\ EvaluateCondition(s.condition, Facts)) =>
                              ~(s.priority > ra[1].priority \/ (s.priority = ra[1].priority /\ s.id < ra[1].id))
                    /\ ra[2] \in ToSet(ra[1].actions)}}
    BY Zenon
  <2> DEFINE rs == rules[call[c].policy]
             facts == Facts
  <2>1. call[c].at = "load" /\ call[c].policy \in Policies /\ rules \in [Policies -> RuleSets]
    BY <1>1, AskedIsSound DEF Evaluates, IInv, TypeOK, AskIsSound
  <2>2. PICK d : d = EvaluateRouting(rs, facts)
    OBVIOUS
  <2>3. RuleSetShape(rs) /\ Decision(d, rs, facts)
    BY <2>1, <2>2, DraftFollowsDecision
  <2>4. PICK id : Draft(c).intents = IntentsOf(id, d)
    BY <2>2 DEF Draft
  <2>5. Drafted(c) = Draft(c)
    <3>1. PICK at, a, k : at = call'[c].at /\ a = Draft(c) /\ k = Holding(c, at, a)
      OBVIOUS
    <3>2. call'[c] = k
      BY <1>1, <3>1, EvaluatesByLoading
    <3>3. k.answer = a
      BY <3>1 DEF Holding
    <3>4. QED BY <3>1, <3>2, <3>3 DEF Drafted
  <2>6. FollowsRules(Drafted(c).intents, rs, facts)
    BY <2>3, <2>4, <2>5, IntentsAreOfFiringRules
  <2>7. \A r \in rs : r \in Firing(rs, facts) <=>
          /\ r.enabled /\ EvaluateCondition(r.condition, facts)
          /\ \A s \in rs :
               s.stop /\ (s.enabled /\ EvaluateCondition(s.condition, facts)) =>
                 ~(s.priority > r.priority \/ (s.priority = r.priority /\ s.id < r.id))
    BY Zenon DEF Firing, Matches, Stops, Precedes
  <2>8. \A ra \in rs \X ActionsOf(rs) : ra[1] \in rs
    OBVIOUS
  <2>9. {ra \in rs \X ActionsOf(rs) : ra[1] \in Firing(rs, facts) /\ ra[2] \in ToSet(ra[1].actions)} =
        {ra \in rs \X ActionsOf(rs) :
            /\ /\ ra[1].enabled /\ EvaluateCondition(ra[1].condition, facts)
               /\ \A s \in rs :
                    s.stop /\ (s.enabled /\ EvaluateCondition(s.condition, facts)) =>
                      ~(s.priority > ra[1].priority \/ (s.priority = ra[1].priority /\ s.id < ra[1].id))
            /\ ra[2] \in ToSet(ra[1].actions)}
    BY <2>7, <2>8, Zenon
  <2>10. QED BY <2>6, <2>9, Zenon DEF FollowsRules
<1>2. QED BY <1>1, Invariant, PTL DEF Spec, DecisionFollowsRules

-----------------------------------------------------------------------------
(* The newest event of a label *)

IsLatest(e, S) == e \in S /\ \A f \in S : f.at <= e.at

\* What the events S of one label say of it.
ValueOf(S) == IF S = {} THEN None ELSE (CHOOSE e \in S : \A f \in S : f.at <= e.at).value

Distinct(S) == S \subseteq ManualEvent /\ \A e, f \in S : e.at = f.at => e = f

LEMMA TimesAreNumbers ==
    ASSUME NEW S, Distinct(S)
    PROVE  \A e \in S : e.at \in Nat /\ e.at <= MaxEvents /\ MaxEvents \in Nat
BY ReviewAssumption DEF Distinct, ManualEvent, Positions

LEMMA LatestIs ==
    ASSUME NEW S, Distinct(S), NEW e, IsLatest(e, S)
    PROVE  ValueOf(S) = e.value
<1>1. PICK m : m = CHOOSE x \in S : \A f \in S : f.at <= x.at
  OBVIOUS
<1>2. m \in S /\ \A f \in S : f.at <= m.at
  BY <1>1, Zenon DEF IsLatest
<1>3. m.at <= e.at /\ e.at <= m.at /\ e \in S
  BY <1>2 DEF IsLatest
<1>4. m.at = e.at
  BY <1>2, <1>3, TimesAreNumbers
<1>5. m = e
  BY <1>2, <1>3, <1>4 DEF Distinct
<1>6. S # {}
  BY <1>3
<1>7. QED BY <1>1, <1>5, <1>6, Zenon DEF ValueOf

LEMMA LatestExists ==
    ASSUME NEW S, Distinct(S), S # {}
    PROVE  \E e : IsLatest(e, S)
<1> DEFINE D == {MaxEvents - e.at : e \in S}
<1>1. \A e \in S : e.at \in Nat /\ e.at <= MaxEvents /\ MaxEvents \in Nat
  BY TimesAreNumbers
<1>2. D \in SUBSET Nat /\ D # {}
  BY <1>1
<1>3. PICK x \in D : \A y \in D : x <= y
  BY <1>2, SmallestExists
<1>4. PICK e \in S : x = MaxEvents - e.at
  OBVIOUS
<1>5. ASSUME NEW f \in S
      PROVE  f.at <= e.at
  <2>1. MaxEvents - e.at <= MaxEvents - f.at
    BY <1>3, <1>4
  <2>2. QED BY <1>1, <2>1
<1>6. QED BY <1>5 DEF IsLatest

LEMMA OneMoreEvent ==
    ASSUME NEW S, NEW event, NEW T, T = S \cup {event}, Distinct(T), event \notin S
    PROVE  IF \A f \in S : f.at < event.at
           THEN ValueOf(T) = event.value
           ELSE ValueOf(T) = ValueOf(S)
<1>1. \A e \in T : e.at \in Nat
  BY TimesAreNumbers
<1>2. CASE \A f \in S : f.at < event.at
  <2>1. IsLatest(event, T)
    BY <1>1, <1>2 DEF IsLatest
  <2>2. QED BY <1>2, <2>1, LatestIs
<1>3. CASE ~\A f \in S : f.at < event.at
  <2>1. PICK f \in S : ~(f.at < event.at)
    BY <1>3
  <2>2. Distinct(S)
    BY DEF Distinct
  <2>3. PICK e : IsLatest(e, S)
    BY <2>1, <2>2, LatestExists
  <2>4. e \in S /\ \A g \in S : g.at <= e.at
    BY <2>3 DEF IsLatest
  <2>5. event.at <= e.at
    BY <1>1, <2>1, <2>4
  <2>6. IsLatest(e, T)
    BY <2>4, <2>5 DEF IsLatest
  <2>7. ValueOf(T) = e.value /\ ValueOf(S) = e.value
    BY <2>2, <2>3, <2>6, LatestIs
  <2>8. QED BY <1>3, <2>7
<1>4. QED BY <1>2, <1>3

\* The labels of one identity, in this state and in the next.
LEMMA LabelsOfIdentity ==
    ASSUME NEW id \in Identity
    PROVE  /\ ManualLabels[id] = ValueOf(EventsOf(id))
           /\ EffectiveLabels[id] = IF ValueOf(EventsOf(id)) # None THEN ValueOf(EventsOf(id))
                                    ELSE modelLabels[id]
           /\ EffectiveLabels'[id] = IF ValueOf(EventsOf(id)') # None THEN ValueOf(EventsOf(id)')
                                     ELSE modelLabels'[id]
<1>1. ManualLabels[id] = ValueOf(EventsOf(id))
  BY Zenon DEF ManualLabels, ValueOf, LatestEvent
<1>2. ManualLabels'[id] = ValueOf(EventsOf(id)')
  BY Zenon DEF ManualLabels, ValueOf, LatestEvent
<1>3. QED BY <1>1, <1>2, Zenon DEF EffectiveLabels

\* A step appends one event, or none.
LEMMA EventsOfAStep ==
    ASSUME IInv, [Next]_vars
    PROVE  \/ manual' = manual
           \/ /\ modelLabels' = modelLabels
              /\ \E event \in ManualEvent : manual' = manual \cup {event} /\ event \notin manual
<1>1. CASE UNCHANGED reviewVars
  BY <1>1 DEF reviewVars
<1>2. CASE ReviewMessage
  <2>1. ASSUME NEW id \in Identity, NEW at \in Positions, SetLabel(id, at) \/ ClearLabel(id, at)
        PROVE  /\ modelLabels' = modelLabels
               /\ \E event \in ManualEvent : manual' = manual \cup {event} /\ event \notin manual
    <3>1. PICK value \in LabelValues \cup {None} : AppendManualLabel(NewManualEvent(id, value, at))
      BY <2>1 DEF SetLabel, ClearLabel
    <3>2. PICK event \in ManualEvent : event = NewManualEvent(id, value, at)
      BY EventShapes
    <3>3. /\ event.at \notin {e.at : e \in manual}
          /\ manual' = manual \cup {event}
          /\ modelLabels' = modelLabels
      BY <3>1, <3>2 DEF AppendManualLabel
    <3>4. event \notin manual
      BY <3>3
    <3>5. QED BY <3>3, <3>4
  <2>2. CASE CompleteAnalysis
    BY <2>2 DEF CompleteAnalysis
  <2>3. ASSUME NEW new \in ReviewStatuses, NEW at \in Positions, TransitionStatus(new, at)
        PROVE  manual' = manual
    BY <2>3 DEF TransitionStatus
  <2>4. QED BY <1>2, <2>1, <2>2, <2>3 DEF ReviewMessage
<1>3. CASE Change /\ ~ReviewMessage
  BY <1>1, <1>3, Zenon DEF Change, Configure, Disable
<1>4. CASE \E c \in Callers : Call(c)
  BY <1>1, <1>4, Zenon DEF Call, worldVars
<1>5. CASE UNCHANGED vars
  BY <1>1, <1>5, Zenon DEF vars, worldVars
<1>6. QED BY <1>2, <1>3, <1>4, <1>5 DEF Next

(* The newest manual event of a label decides, whatever the order of the   *)
(* commits: a set overrides the model, a clear falls back to it, an older  *)
(* event changes nothing, and an analysis that ends never moves a label    *)
(* that a person set (resolve_label_namespaces).                           *)
THEOREM NewestEventsDecide == Spec => NewestEventDecides
<1>1. ASSUME IInv, [Next]_vars
      PROVE  \A id \in Identity :
        LET added == {e \in manual' \ manual : e.id = id}
            newest == {e \in added : \A f \in EventsOf(id) : f.at < e.at}
        IN  IF newest # {}
            THEN \E e \in newest : EffectiveLabels'[id] =
                    IF e.value = None THEN modelLabels[id] ELSE e.value
            ELSE (added # {} \/ ManualLabels[id] # None) =>
                    EffectiveLabels'[id] = EffectiveLabels[id]
  <2> SUFFICES ASSUME NEW id \in Identity
      PROVE IF {e \in {e \in manual' \ manual : e.id = id} : \A f \in EventsOf(id) : f.at < e.at} # {}
            THEN \E e \in {e \in {e \in manual' \ manual : e.id = id} : \A f \in EventsOf(id) : f.at < e.at} :
                    EffectiveLabels'[id] = IF e.value = None THEN modelLabels[id] ELSE e.value
            ELSE ({e \in manual' \ manual : e.id = id} # {} \/ ManualLabels[id] # None) =>
                    EffectiveLabels'[id] = EffectiveLabels[id]
    BY Zenon
  <2>1. PICK S, T : S = EventsOf(id) /\ T = EventsOf(id)'
    OBVIOUS
  <2>2. S = {e \in manual : e.id = id} /\ T = {e \in manual' : e.id = id}
    BY <2>1 DEF EventsOf
  <2>3. PICK oldLabel, newLabel, said : /\ oldLabel = EffectiveLabels[id]
                                        /\ newLabel = EffectiveLabels'[id]
                                        /\ said = ManualLabels[id]
    OBVIOUS
  <2>4. /\ said = ValueOf(S)
        /\ oldLabel = IF ValueOf(S) # None THEN ValueOf(S) ELSE modelLabels[id]
        /\ newLabel = IF ValueOf(T) # None THEN ValueOf(T) ELSE modelLabels'[id]
    BY <2>1, <2>3, LabelsOfIdentity
  <2>5. CASE manual' = manual
    <3>1. S = T /\ manual' \ manual = {}
      BY <2>2, <2>5
    <3>2. said # None => newLabel = oldLabel
      BY <2>4, <3>1
    <3>3. QED BY <2>3, <3>1, <3>2
  <2>6. ASSUME modelLabels' = modelLabels,
               NEW event \in ManualEvent, manual' = manual \cup {event}, event \notin manual
        PROVE  IF {e \in {e \in manual' \ manual : e.id = id} : \A f \in S : f.at < e.at} # {}
               THEN \E e \in {e \in {e \in manual' \ manual : e.id = id} : \A f \in S : f.at < e.at} :
                      newLabel = IF e.value = None THEN modelLabels[id] ELSE e.value
               ELSE ({e \in manual' \ manual : e.id = id} # {} \/ said # None) => newLabel = oldLabel
    <3>1. manual' \ manual = {event}
      BY <2>6
    <3>2. CASE event.id # id
      <4>1. {e \in manual' \ manual : e.id = id} = {} /\ S = T
        BY <2>2, <2>6, <3>1, <3>2
      <4>2. newLabel = oldLabel
        BY <2>4, <2>6, <4>1
      <4>3. QED BY <4>1, <4>2
    <3>3. CASE event.id = id
      <4>1. {e \in manual' \ manual : e.id = id} = {event}
        BY <3>1, <3>3
      <4>2. T = S \cup {event} /\ event \notin S
        BY <2>2, <2>6, <3>3
      <4>3. Distinct(T)
        <5>1. IInv'
          BY <1>1, NextIInv
        <5>2. manual' \subseteq ManualEvent /\ \A e, f \in manual' : e.at = f.at => e = f
          BY <5>1 DEF IInv, TypeOK, ReviewTypeOK, EventsHaveTheirPlace
        <5>3. QED BY <2>2, <5>2 DEF Distinct
      <4>4. CASE \A f \in S : f.at < event.at
        <5>1. ValueOf(T) = event.value
          BY <4>2, <4>3, <4>4, OneMoreEvent
        <5>2. newLabel = IF event.value = None THEN modelLabels[id] ELSE event.value
          BY <2>4, <2>6, <5>1
        <5>3. {e \in {event} : \A f \in S : f.at < e.at} = {event}
          BY <4>4
        <5>4. QED BY <4>1, <5>2, <5>3
      <4>5. CASE ~\A f \in S : f.at < event.at
        <5>1. ValueOf(T) = ValueOf(S)
          BY <4>2, <4>3, <4>5, OneMoreEvent
        <5>2. newLabel = oldLabel
          BY <2>4, <2>6, <5>1
        <5>3. {e \in {event} : \A f \in S : f.at < e.at} = {}
          BY <4>5
        <5>4. QED BY <4>1, <5>2, <5>3
      <4>6. QED BY <4>4, <4>5
    <3>4. QED BY <3>2, <3>3
  <2>7. QED BY <1>1, <2>1, <2>3, <2>5, <2>6, EventsOfAStep
<1>2. QED BY <1>1, Invariant, PTL DEF Spec, NewestEventDecides

-----------------------------------------------------------------------------
(* Conditions: the value of a node, given the values of its children *)

Node(node, value, facts) ==
    LET results == {value[a] : a \in Children(node)}
    IN  CASE node.op = "all" -> Conjunction(results)
          [] node.op = "any" -> Disjunction(results)
          [] node.op = "not" -> Negation(value[CHOOSE a \in node.args : TRUE])
          [] node.op = "label" -> EvaluateLabel(node, facts.labels[node.ns].global)
          [] node.op \in {"any_media", "none_media"} ->
                EvaluateMedia(node, facts.labels[node.ns].media)
          [] node.op = "label_present" -> EvaluatePresent(node, facts)
          [] OTHER -> EvaluateLeaf(node, facts)

\* v holds the values of the nodes from k on.
Valuation(v, k, condition, facts) ==
    v = [n \in k..Len(condition) |-> Node(condition[n], v, facts)]

ValidNodes(condition) == \A n \in DOMAIN condition : ValidNode(condition[n])

LEMMA ConditionIsTree ==
    ASSUME NEW condition, ConditionShape(condition)
    PROVE  /\ Len(condition) \in Nat \ {0}
           /\ DOMAIN condition = 1..Len(condition)
           /\ \A n \in DOMAIN condition :
                 Children(condition[n]) \subseteq (n + 1)..Len(condition) /\ FactShape(condition[n])
<1>1. condition \in Seq(ToSet(condition)) /\ condition # <<>>
  BY DEF ConditionShape
<1>2. Len(condition) \in Nat /\ DOMAIN condition = 1..Len(condition)
  BY <1>1, SeqFacts
<1>3. Len(condition) # 0
  BY <1>1, EmptySeq
<1>4. QED BY <1>2, <1>3 DEF ConditionShape

LEMMA NotHasOneChild ==
    ASSUME NEW node, ValidNode(node), node.op = "not", NEW c, c = CHOOSE a \in node.args : TRUE
    PROVE  c \in Children(node)
<1>1. Cardinality(node.args) = 1
  BY DEF ValidNode
<1>2. node.args # {}
  BY <1>1, FS_EmptySet
<1>3. QED BY <1>2 DEF Children

LEMMA NodeRestsOnChildren ==
    ASSUME NEW node, ValidNode(node), NEW v, NEW e, NEW facts,
           \A a \in Children(node) : v[a] = e[a]
    PROVE  Node(node, v, facts) = Node(node, e, facts)
<1>1. {v[a] : a \in Children(node)} = {e[a] : a \in Children(node)}
  OBVIOUS
<1>2. CASE node.op = "not"
  <2>1. PICK c : c = CHOOSE a \in node.args : TRUE
    OBVIOUS
  <2>2. v[c] = e[c]
    BY <1>2, <2>1, NotHasOneChild
  <2>3. v[CHOOSE a \in node.args : TRUE] = e[CHOOSE a \in node.args : TRUE]
    BY <2>1, <2>2
  <2>4. QED BY <1>1, <2>3, Zenon DEF Node
<1>3. CASE node.op # "not"
  <2>1. PICK R : R = {v[a] : a \in Children(node)}
    OBVIOUS
  <2>2. \A u : R = {u[a] : a \in Children(node)} =>
          Node(node, u, facts) =
            CASE node.op = "all" -> Conjunction(R)
              [] node.op = "any" -> Disjunction(R)
              [] node.op = "label" -> EvaluateLabel(node, facts.labels[node.ns].global)
              [] node.op \in {"any_media", "none_media"} ->
                    EvaluateMedia(node, facts.labels[node.ns].media)
              [] node.op = "label_present" -> EvaluatePresent(node, facts)
              [] OTHER -> EvaluateLeaf(node, facts)
    BY <1>3 DEF Node
  <2>3. QED BY <1>1, <2>1, <2>2
<1>4. QED BY <1>2, <1>3

LEMMA ValuationExists ==
    ASSUME NEW condition, ConditionShape(condition), ValidNodes(condition), NEW facts
    PROVE  \E v : Valuation(v, 1, condition, facts)
<1>1. PICK L \in Nat \ {0} : L = Len(condition) /\ DOMAIN condition = 1..L
  BY ConditionIsTree
<1> DEFINE Missed == {m \in 0..L : ~\E v : Valuation(v, L + 1 - m, condition, facts)}
<1>2. SUFFICES ASSUME Missed # {}
               PROVE  FALSE
  <2>1. SUFFICES L \notin Missed
    <3>1. L \in 0..L /\ L + 1 - L = 1
      BY <1>1
    <3>2. QED BY <2>1, <3>1
  <2>2. QED BY <1>2
<1>3. Missed \in SUBSET Nat
  OBVIOUS
<1>4. PICK m \in Missed : \A k \in Missed : m <= k
  BY <1>2, <1>3, SmallestExists
<1>5. m \in 0..L /\ ~\E v : Valuation(v, L + 1 - m, condition, facts)
  OBVIOUS
<1>6. CASE m = 0
  <2>1. PICK v : v = [n \in {} |-> 0]
    OBVIOUS
  <2>2. (L + 1)..L = {}
    BY <1>1
  <2>3. Valuation(v, L + 1, condition, facts)
    BY <1>1, <2>1, <2>2 DEF Valuation
  <2>4. L + 1 - m = L + 1
    BY <1>1, <1>6
  <2>5. QED BY <1>5, <2>3, <2>4
<1>7. CASE m # 0
  <2>1. PICK k : k = L + 1 - m
    OBVIOUS
  <2>2. k \in 1..L /\ L + 1 - (m - 1) = k + 1 /\ m - 1 \in 0..L /\ ~(m <= m - 1)
    BY <1>1, <1>5, <1>7, <2>1
  <2>3. m - 1 \notin Missed
    BY <1>4, <2>2
  <2>4. PICK v : Valuation(v, k + 1, condition, facts)
    BY <2>2, <2>3
  <2>5. v = [n \in (k + 1)..L |-> Node(condition[n], v, facts)]
    BY <1>1, <2>4 DEF Valuation
  <2>6. PICK e : e = [n \in k..L |-> IF n = k THEN Node(condition[k], v, facts) ELSE v[n]]
    OBVIOUS
  <2>7. \A n \in (k + 1)..L : e[n] = v[n] /\ v[n] = Node(condition[n], v, facts)
    <3> SUFFICES ASSUME NEW n \in (k + 1)..L
                 PROVE  e[n] = v[n] /\ v[n] = Node(condition[n], v, facts)
      OBVIOUS
    <3>1. v[n] = Node(condition[n], v, facts)
      BY <2>5, Zenon
    <3>2. n \in k..L /\ n # k
      BY <1>1, <2>2
    <3>3. e[n] = IF n = k THEN Node(condition[k], v, facts) ELSE v[n]
      BY <2>6, <3>2, Zenon
    <3>4. QED BY <3>1, <3>2, <3>3
  <2>8. ASSUME NEW n \in k..L
        PROVE  Node(condition[n], v, facts) = Node(condition[n], e, facts)
    <3>1. n \in DOMAIN condition /\ ValidNode(condition[n])
      BY <1>1, <2>2 DEF ValidNodes
    <3>2. Children(condition[n]) \subseteq (n + 1)..L
      BY <1>1, <3>1, ConditionIsTree
    <3>3. (n + 1)..L \subseteq (k + 1)..L
      BY <1>1, <2>2
    <3>4. \A a \in Children(condition[n]) : v[a] = e[a]
      BY <2>7, <3>2, <3>3
    <3>5. QED BY <3>1, <3>4, NodeRestsOnChildren
  <2>9. ASSUME NEW n \in k..L
        PROVE  e[n] = Node(condition[n], e, facts)
    <3>1. CASE n = k
      BY <2>6, <2>8, <3>1
    <3>2. CASE n # k
      <4>1. n \in (k + 1)..L
        BY <1>1, <2>2, <3>2
      <4>2. QED BY <2>7, <2>8, <4>1
    <3>3. QED BY <3>1, <3>2
  <2>10. e = [n \in k..L |-> e[n]]
    BY <2>6
  <2>11. e = [n \in k..L |-> Node(condition[n], e, facts)]
    BY <2>9, <2>10
  <2>12. Valuation(e, k, condition, facts)
    BY <1>1, <2>11 DEF Valuation
  <2>13. QED BY <1>5, <2>1, <2>12
<1>8. QED BY <1>6, <1>7

LEMMA EvaluateValuates ==
    ASSUME NEW condition, ConditionShape(condition), ValidNodes(condition), NEW facts
    PROVE  \E v : Valuation(v, 1, condition, facts) /\ Evaluate(condition, facts) = v[1]
<1> DEFINE w == CHOOSE value : value = [n \in DOMAIN condition |->
                    LET node == condition[n]
                        results == {value[a] : a \in Children(node)}
                    IN  CASE node.op = "all" -> Conjunction(results)
                          [] node.op = "any" -> Disjunction(results)
                          [] node.op = "not" -> Negation(value[CHOOSE a \in node.args : TRUE])
                          [] node.op = "label" -> EvaluateLabel(node, facts.labels[node.ns].global)
                          [] node.op \in {"any_media", "none_media"} ->
                                EvaluateMedia(node, facts.labels[node.ns].media)
                          [] node.op = "label_present" -> EvaluatePresent(node, facts)
                          [] OTHER -> EvaluateLeaf(node, facts)]
<1>1. DOMAIN condition = 1..Len(condition)
  BY ConditionIsTree
<1>2. PICK v : Valuation(v, 1, condition, facts)
  BY ValuationExists
<1>3. v = [n \in DOMAIN condition |-> Node(condition[n], v, facts)]
  BY <1>1, <1>2, Zenon DEF Valuation
<1>4. v = [n \in DOMAIN condition |->
                    LET node == condition[n]
                        results == {v[a] : a \in Children(node)}
                    IN  CASE node.op = "all" -> Conjunction(results)
                          [] node.op = "any" -> Disjunction(results)
                          [] node.op = "not" -> Negation(v[CHOOSE a \in node.args : TRUE])
                          [] node.op = "label" -> EvaluateLabel(node, facts.labels[node.ns].global)
                          [] node.op \in {"any_media", "none_media"} ->
                                EvaluateMedia(node, facts.labels[node.ns].media)
                          [] node.op = "label_present" -> EvaluatePresent(node, facts)
                          [] OTHER -> EvaluateLeaf(node, facts)]
  BY <1>3, Zenon DEF Node
<1>5. w = [n \in DOMAIN condition |->
                    LET node == condition[n]
                        results == {w[a] : a \in Children(node)}
                    IN  CASE node.op = "all" -> Conjunction(results)
                          [] node.op = "any" -> Disjunction(results)
                          [] node.op = "not" -> Negation(w[CHOOSE a \in node.args : TRUE])
                          [] node.op = "label" -> EvaluateLabel(node, facts.labels[node.ns].global)
                          [] node.op \in {"any_media", "none_media"} ->
                                EvaluateMedia(node, facts.labels[node.ns].media)
                          [] node.op = "label_present" -> EvaluatePresent(node, facts)
                          [] OTHER -> EvaluateLeaf(node, facts)]
  BY <1>4, Zenon
<1>6. Evaluate(condition, facts) = w[1]
  BY Zenon DEF Evaluate
<1> HIDE DEF w
<1>7. w = [n \in DOMAIN condition |-> Node(condition[n], w, facts)]
  BY <1>5, Zenon DEF Node
<1>8. Valuation(w, 1, condition, facts)
  BY <1>1, <1>7, Zenon DEF Valuation
<1>9. QED BY <1>6, <1>8

-----------------------------------------------------------------------------
(* More labels *)

Result == {"true", "false", "unknown"}

\* What is known stays as it is.
Refines(x, y) == x = "unknown" \/ x = y
Keeps(x, y) == x = "true" => y = "true"

\* The labels g are among the labels h.
Extends(g, h) == \A k \in DOMAIN g : k \in DOMAIN h /\ h[k] = g[k]

\* f says what facts say, and more.
MoreFacts(facts, f) ==
    /\ f.fields = facts.fields
    /\ \A m \in Namespaces :
        /\ Extends(facts.labels[m].global, f.labels[m].global)
        /\ \A a \in DOMAIN facts.labels[m].media :
            /\ a \in DOMAIN f.labels[m].media
            /\ Extends(facts.labels[m].media[a], f.labels[m].media[a])

LEMMA TruthIsResult == \A b : Truth(b) \in Result
BY DEF Truth, Result

LEMMA CompareIsResult ==
    ASSUME NEW x, NEW y, NEW b, NEW cmp \in Operators
    PROVE  Compare(x, cmp, y, b) \in Result
<1>1. \A c : Truth(c) \in Result /\ Unknown \in Result
  BY TruthIsResult DEF Result, Unknown
<1>2. cmp \in Orderings \cup {"eq", "neq", "in", "contains", "starts_with"}
  BY DEF Operators, NumericOperators
<1> HIDE DEF Truth, Unknown
<1>3. QED BY <1>1, <1>2 DEF Compare

LEMMA EvaluateLabelIsResult ==
    ASSUME NEW node, node.cmp \in LabelComparisons \cup {None}, NEW labels
    PROVE  EvaluateLabel(node, labels) \in Result
<1>1. Unknown \in Result
  BY DEF Unknown, Result
<1>2. node.cmp # None => node.cmp \in Operators
  BY DEF LabelComparisons, Operators, NumericOperators
<1>3. QED BY <1>1, <1>2, TruthIsResult, CompareIsResult DEF EvaluateLabel

LEMMA EvaluateLabelRefines ==
    ASSUME NEW node, NEW g, NEW h, Extends(g, h)
    PROVE  Refines(EvaluateLabel(node, g), EvaluateLabel(node, h))
<1>1. CASE node.key \notin DOMAIN g
  BY <1>1 DEF EvaluateLabel, Refines, Unknown
<1>2. CASE node.key \in DOMAIN g
  <2>1. node.key \in DOMAIN h /\ h[node.key] = g[node.key]
    BY <1>2 DEF Extends
  <2>2. EvaluateLabel(node, g) = EvaluateLabel(node, h)
    BY <1>2, <2>1, Zenon DEF EvaluateLabel
  <2>3. QED BY <2>2 DEF Refines
<1>3. QED BY <1>1, <1>2

\* A fact is missing, or resolves to the same value.
LEMMA ResolveFactRefines ==
    ASSUME NEW facts, NEW f, MoreFacts(facts, f), NEW fact, fact.ns \in Namespaces \cup {None}
    PROVE  ResolveFact(facts, fact) = Missing \/ ResolveFact(facts, fact) = ResolveFact(f, fact)
<1>1. CASE fact.ns = None
  <2>1. ResolveFact(facts, fact) = ResolveFact(f, fact)
    BY <1>1, Zenon DEF ResolveFact, MoreFacts
  <2>2. QED BY <2>1
<1>2. CASE fact.ns # None
  <2>1. PICK g, h : g = facts.labels[fact.ns].global /\ h = f.labels[fact.ns].global
    OBVIOUS
  <2>2. Extends(g, h)
    BY <1>2, <2>1 DEF MoreFacts
  <2>3. /\ ResolveFact(facts, fact) =
             IF fact.name \in DOMAIN g THEN Number(g[fact.name].score) ELSE Missing
        /\ ResolveFact(f, fact) =
             IF fact.name \in DOMAIN h THEN Number(h[fact.name].score) ELSE Missing
    BY <1>2, <2>1, Zenon DEF ResolveFact
  <2>4. fact.name \in DOMAIN g => fact.name \in DOMAIN h /\ h[fact.name] = g[fact.name]
    BY <2>2 DEF Extends
  <2>5. QED BY <2>3, <2>4, Zenon
<1>3. QED BY <1>1, <1>2

LEMMA MissingIsUnknown ==
    /\ Missing.type = "missing"
    /\ ~IsNumber(Missing)
    /\ \A cmp, y, b : Compare(Missing, cmp, y, b) = Unknown
<1>1. Missing.type = "missing"
  BY DEF Missing
<1>2. Absent(Missing) /\ ~IsNumber(Missing)
  BY <1>1 DEF Absent, IsNumber
<1>3. \A cmp, y, b : Compare(Missing, cmp, y, b) = Unknown
  BY <1>2 DEF Compare
<1>4. QED BY <1>1, <1>2, <1>3

LEMMA EvaluateLeafRefines ==
    ASSUME NEW facts, NEW f, MoreFacts(facts, f), NEW node, node.fact.ns \in Namespaces \cup {None}
    PROVE  /\ Refines(EvaluateLeaf(node, facts), EvaluateLeaf(node, f))
           /\ Refines(EvaluatePresent(node, facts), EvaluatePresent(node, f))
<1>1. CASE ResolveFact(facts, node.fact) = ResolveFact(f, node.fact)
  <2>1. EvaluateLeaf(node, facts) = EvaluateLeaf(node, f)
    BY <1>1, Zenon DEF EvaluateLeaf
  <2>2. EvaluatePresent(node, facts) = EvaluatePresent(node, f)
    BY <1>1, Zenon DEF EvaluatePresent
  <2>3. QED BY <2>1, <2>2 DEF Refines
<1>2. CASE ResolveFact(facts, node.fact) = Missing
  <2>1. EvaluateLeaf(node, facts) = Unknown
    BY <1>2, MissingIsUnknown DEF EvaluateLeaf
  <2>2. EvaluatePresent(node, facts) = Unknown
    BY <1>2, MissingIsUnknown DEF EvaluatePresent
  <2>3. QED BY <2>1, <2>2 DEF Refines, Unknown
<1>3. QED BY <1>1, <1>2, ResolveFactRefines

\* An entry of an asset that had no label adds a result and takes none away.
LEMMA AnyMediaKeeps ==
    ASSUME NEW node, node.op = "any_media", NEW M, NEW N,
           \A a \in DOMAIN M : a \in DOMAIN N /\ Extends(M[a], N[a])
    PROVE  Keeps(EvaluateMedia(node, M), EvaluateMedia(node, N))
<1>1. \A X : EvaluateMedia(node, X) = Disjunction({EvaluateLabel(node, X[a]) : a \in DOMAIN X})
  BY Zenon DEF EvaluateMedia
<1>2. ASSUME EvaluateMedia(node, M) = "true"
      PROVE  EvaluateMedia(node, N) = "true"
  <2>1. "true" \in {EvaluateLabel(node, M[a]) : a \in DOMAIN M}
    BY <1>1, <1>2 DEF Disjunction, Unknown
  <2>2. PICK a \in DOMAIN M : EvaluateLabel(node, M[a]) = "true"
    BY <2>1
  <2>3. a \in DOMAIN N /\ Refines(EvaluateLabel(node, M[a]), EvaluateLabel(node, N[a]))
    BY EvaluateLabelRefines
  <2>4. EvaluateLabel(node, N[a]) = "true"
    BY <2>2, <2>3 DEF Refines
  <2>5. "true" \in {EvaluateLabel(node, N[b]) : b \in DOMAIN N}
    BY <2>3, <2>4
  <2>6. QED BY <1>1, <2>5 DEF Disjunction
<1>3. QED BY <1>2 DEF Keeps

\* Three-valued and, or: x and y give the results of the same children.
LEMMA AndOrRefine ==
    ASSUME NEW C, NEW x, NEW y, \A a \in C : x[a] \in Result /\ y[a] \in Result,
           NEW S, S = {x[a] : a \in C}, NEW T, T = {y[a] : a \in C}
    PROVE  /\ Conjunction(S) \in Result /\ Disjunction(S) \in Result
           /\ (\A a \in C : Keeps(x[a], y[a])) =>
                Keeps(Conjunction(S), Conjunction(T)) /\ Keeps(Disjunction(S), Disjunction(T))
           /\ (\A a \in C : Refines(x[a], y[a])) =>
                Refines(Conjunction(S), Conjunction(T)) /\ Refines(Disjunction(S), Disjunction(T))
<1>1. \A r : r \in S <=> \E a \in C : r = x[a]
  OBVIOUS
<1>2. \A r : r \in T <=> \E a \in C : r = y[a]
  OBVIOUS
<1>3. /\ Conjunction(S) = IF "false" \in S THEN "false" ELSE IF "unknown" \in S THEN "unknown" ELSE "true"
      /\ Disjunction(S) = IF "true" \in S THEN "true" ELSE IF "unknown" \in S THEN "unknown" ELSE "false"
      /\ Conjunction(T) = IF "false" \in T THEN "false" ELSE IF "unknown" \in T THEN "unknown" ELSE "true"
      /\ Disjunction(T) = IF "true" \in T THEN "true" ELSE IF "unknown" \in T THEN "unknown" ELSE "false"
  BY DEF Conjunction, Disjunction, Unknown
<1>4. Conjunction(S) \in Result /\ Disjunction(S) \in Result
  BY <1>3 DEF Result
<1>5. ASSUME \A a \in C : Keeps(x[a], y[a])
      PROVE  Keeps(Conjunction(S), Conjunction(T)) /\ Keeps(Disjunction(S), Disjunction(T))
  <2>1. ASSUME Conjunction(S) = "true"
        PROVE  Conjunction(T) = "true"
    <3>1. \A a \in C : x[a] = "true"
      BY <1>1, <1>3, <2>1 DEF Result
    <3>2. \A a \in C : y[a] = "true"
      BY <1>5, <3>1 DEF Keeps
    <3>3. "false" \notin T /\ "unknown" \notin T
      BY <1>2, <3>2
    <3>4. QED BY <1>3, <3>3
  <2>2. ASSUME Disjunction(S) = "true"
        PROVE  Disjunction(T) = "true"
    <3>1. PICK a \in C : x[a] = "true"
      BY <1>1, <1>3, <2>2
    <3>2. y[a] = "true"
      BY <1>5, <3>1 DEF Keeps
    <3>3. QED BY <1>2, <1>3, <3>2
  <2>3. QED BY <2>1, <2>2 DEF Keeps
<1>6. ASSUME \A a \in C : Refines(x[a], y[a])
      PROVE  Refines(Conjunction(S), Conjunction(T)) /\ Refines(Disjunction(S), Disjunction(T))
  <2>1. \A a \in C : x[a] # "unknown" => y[a] = x[a]
    BY <1>6 DEF Refines
  <2>2. "false" \in S => "false" \in T
    BY <1>1, <1>2, <2>1
  <2>3. "true" \in S => "true" \in T
    BY <1>1, <1>2, <2>1
  <2>4. "unknown" \notin S => T = S
    <3>1. SUFFICES ASSUME "unknown" \notin S
                   PROVE  T = S
      OBVIOUS
    <3>2. \A a \in C : x[a] = y[a]
      BY <1>1, <2>1, <3>1
    <3>3. QED BY <1>1, <1>2, <3>2
  <2>5. Refines(Conjunction(S), Conjunction(T))
    BY <1>3, <2>2, <2>4 DEF Refines
  <2>6. Refines(Disjunction(S), Disjunction(T))
    BY <1>3, <2>3, <2>4 DEF Refines
  <2>7. QED BY <2>5, <2>6
<1>7. QED BY <1>4, <1>5, <1>6

\* The node's value where v and w value its children, under facts and f.
Follows(x, y, condition) ==
    /\ x \in Result
    /\ y \in Result
    /\ Keeps(x, y)
    /\ (\A n \in DOMAIN condition : condition[n].op # "any_media") => Refines(x, y)

LEMMA RefinedIsKept ==
    ASSUME NEW x, NEW y, Refines(x, y)
    PROVE  Keeps(x, y)
BY DEF Refines, Keeps

LEMMA NegationRefines ==
    ASSUME NEW x, NEW y, Refines(x, y)
    PROVE  Negation(x) \in Result /\ Refines(Negation(x), Negation(y))
<1>1. Negation(x) \in Result
  BY TruthIsResult DEF Negation, Unknown, Result
<1>2. x = "unknown" => Negation(x) = "unknown"
  BY DEF Negation, Unknown
<1>3. QED BY <1>1, <1>2 DEF Refines

LEMMA LeafIsResult ==
    ASSUME NEW node, ValidNode(node), NEW facts
    PROVE  /\ node.op = "label_present" => EvaluatePresent(node, facts) \in Result
           /\ node.op \in {"label_score", "exists", "compare"} => EvaluateLeaf(node, facts) \in Result
           /\ node.op = "label" => \A g : EvaluateLabel(node, g) \in Result
           /\ node.op = "any_media" => \A M : EvaluateMedia(node, M) \in Result
<1>1. EvaluatePresent(node, facts) \in Result
  BY TruthIsResult DEF EvaluatePresent, Result, Unknown
<1>2. CASE node.op = "exists"
  BY <1>2, TruthIsResult DEF EvaluateLeaf, Result, Unknown
<1>3. CASE node.op \in {"label_score", "compare"}
  <2>1. node.cmp \in Operators
    BY <1>3 DEF ValidNode, ValidComparison, Operators
  <2>2. EvaluateLeaf(node, facts) =
          Compare(ResolveFact(facts, node.fact), node.cmp, node.value, node.op = "label_score")
    BY <1>3 DEF EvaluateLeaf
  <2>3. EvaluateLeaf(node, facts) \in Result
    BY <2>1, <2>2, CompareIsResult
  <2>4. QED BY <1>1, <1>3, <2>3
<1>4. CASE node.op \in {"label", "any_media"}
  <2>1. node.cmp \in LabelComparisons \cup {None}
    BY <1>4 DEF ValidNode, ValidLabel
  <2>2. \A g : EvaluateLabel(node, g) \in Result
    BY <2>1, EvaluateLabelIsResult
  <2>3. \A S : Disjunction(S) \in Result
    BY DEF Disjunction, Result, Unknown
  <2>4. node.op = "any_media" => \A M : EvaluateMedia(node, M) \in Result
    BY <2>3, Zenon DEF EvaluateMedia
  <2>5. QED BY <1>1, <1>4, <2>2, <2>4
<1>5. QED BY <1>1, <1>2, <1>3, <1>4

\* The results of the parts of a node.
LEMMA NodeIs ==
    ASSUME NEW node, NEW v, NEW facts, NEW x, x = Node(node, v, facts)
    PROVE  /\ node.op = "all" => x = Conjunction({v[a] : a \in Children(node)})
           /\ node.op = "any" => x = Disjunction({v[a] : a \in Children(node)})
           /\ node.op = "not" => x = Negation(v[CHOOSE a \in node.args : TRUE])
           /\ node.op = "label" => x = EvaluateLabel(node, facts.labels[node.ns].global)
           /\ node.op = "any_media" => x = EvaluateMedia(node, facts.labels[node.ns].media)
           /\ node.op = "label_present" => x = EvaluatePresent(node, facts)
           /\ node.op \in {"label_score", "exists", "compare"} => x = EvaluateLeaf(node, facts)
BY DEF Node

LEMMA NodeFollows ==
    ASSUME NEW condition, ConditionShape(condition), ValidNodes(condition), ~NegatesMedia(condition),
           NEW facts, NEW f, MoreFacts(facts, f), NEW v, NEW w, NEW n \in DOMAIN condition,
           \A a \in Children(condition[n]) : Follows(v[a], w[a], condition)
    PROVE  Follows(Node(condition[n], v, facts), Node(condition[n], w, f), condition)
<1>1. PICK node, x, y : /\ node = condition[n]
                        /\ x = Node(node, v, facts)
                        /\ y = Node(node, w, f)
  OBVIOUS
<1>2. ValidNode(node) /\ FactShape(node) /\ \A a \in Children(node) : Follows(v[a], w[a], condition)
  BY <1>1, ConditionIsTree DEF ValidNodes
<1>3. node.op # "none_media"
  BY <1>1 DEF NegatesMedia
<1>4. node.op = "not" => \A m \in DOMAIN condition : condition[m].op # "any_media"
  BY <1>1 DEF NegatesMedia
<1>5. CASE node.op \in {"all", "any"}
  <2>1. PICK C, S, T : /\ C = Children(node)
                       /\ S = {v[a] : a \in C}
                       /\ T = {w[a] : a \in C}
    OBVIOUS
  <2>2. \A a \in C : v[a] \in Result /\ w[a] \in Result /\ Keeps(v[a], w[a])
    BY <1>2, <2>1 DEF Follows
  <2>3. (\A m \in DOMAIN condition : condition[m].op # "any_media") => \A a \in C : Refines(v[a], w[a])
    BY <1>2, <2>1 DEF Follows
  <2>4. /\ Conjunction(S) \in Result /\ Disjunction(S) \in Result
        /\ Keeps(Conjunction(S), Conjunction(T)) /\ Keeps(Disjunction(S), Disjunction(T))
        /\ (\A a \in C : Refines(v[a], w[a])) =>
             Refines(Conjunction(S), Conjunction(T)) /\ Refines(Disjunction(S), Disjunction(T))
    BY <2>1, <2>2, AndOrRefine
  <2>5. Conjunction(T) \in Result /\ Disjunction(T) \in Result
    BY <2>1, <2>2, AndOrRefine
  <2>6. (x = Conjunction(S) /\ y = Conjunction(T)) \/ (x = Disjunction(S) /\ y = Disjunction(T))
    <3>1. /\ node.op = "all" => x = Conjunction({v[a] : a \in Children(node)})
          /\ node.op = "any" => x = Disjunction({v[a] : a \in Children(node)})
      BY <1>1, <1>5, Zenon DEF Node
    <3>2. /\ node.op = "all" => y = Conjunction({w[a] : a \in Children(node)})
          /\ node.op = "any" => y = Disjunction({w[a] : a \in Children(node)})
      BY <1>1, <1>5, Zenon DEF Node
    <3>3. node.op = "all" => x = Conjunction(S) /\ y = Conjunction(T)
      BY <2>1, <3>1, <3>2, Zenon
    <3>4. node.op = "any" => x = Disjunction(S) /\ y = Disjunction(T)
      BY <2>1, <3>1, <3>2, Zenon
    <3>5. QED BY <1>5, <3>3, <3>4
  <2>7. QED BY <1>1, <2>3, <2>4, <2>5, <2>6 DEF Follows
<1>6. CASE node.op = "not"
  <2>1. PICK c : c = CHOOSE a \in node.args : TRUE
    OBVIOUS
  <2>2. c \in Children(node)
    BY <1>2, <1>6, <2>1, NotHasOneChild
  <2>3. v[c] \in Result /\ w[c] \in Result /\ Refines(v[c], w[c])
    BY <1>2, <1>4, <1>6, <2>2 DEF Follows
  <2>4. x = Negation(v[c]) /\ y = Negation(w[c])
    BY <1>1, <1>6, <2>1, NodeIs
  <2>5. x \in Result /\ Refines(x, y)
    BY <2>3, <2>4, NegationRefines
  <2>6. y \in Result
    BY <2>3, <2>4, NegationRefines DEF Refines
  <2>7. QED BY <1>1, <2>5, <2>6, RefinedIsKept DEF Follows
<1>7. CASE node.op = "any_media"
  <2>1. node.ns \in Namespaces
    BY <1>2, <1>7 DEF ValidNode, ValidLabel
  <2>2. PICK M, N : M = facts.labels[node.ns].media /\ N = f.labels[node.ns].media
    OBVIOUS
  <2>3. \A a \in DOMAIN M : a \in DOMAIN N /\ Extends(M[a], N[a])
    BY <2>1, <2>2 DEF MoreFacts
  <2>4. x = EvaluateMedia(node, M) /\ y = EvaluateMedia(node, N)
    BY <1>1, <1>7, <2>2, NodeIs
  <2>5. Keeps(x, y)
    BY <1>7, <2>3, <2>4, AnyMediaKeeps
  <2>6. x \in Result /\ y \in Result
    BY <1>2, <1>7, <2>4, LeafIsResult
  <2>7. QED BY <1>1, <1>7, <2>5, <2>6 DEF Follows
<1>8. CASE node.op \in {"label", "label_present", "label_score", "exists", "compare"}
  <2>1. CASE node.op = "label"
    <3>1. node.ns \in Namespaces
      BY <1>2, <2>1 DEF ValidNode, ValidLabel
    <3>2. PICK g, h : g = facts.labels[node.ns].global /\ h = f.labels[node.ns].global
      OBVIOUS
    <3>3. Extends(g, h)
      BY <3>1, <3>2 DEF MoreFacts
    <3>4. x = EvaluateLabel(node, g) /\ y = EvaluateLabel(node, h)
      BY <1>1, <2>1, <3>2, NodeIs
    <3>5. x \in Result /\ y \in Result
      BY <1>2, <2>1, <3>4, LeafIsResult
    <3>6. Refines(x, y)
      BY <3>3, <3>4, EvaluateLabelRefines
    <3>7. QED BY <1>1, <3>5, <3>6, RefinedIsKept DEF Follows
  <2>2. CASE node.op # "label"
    <3>1. node.fact.ns \in Namespaces \cup {None}
      BY <1>2, <1>8, <2>2 DEF FactShape
    <3>2. /\ Refines(EvaluateLeaf(node, facts), EvaluateLeaf(node, f))
          /\ Refines(EvaluatePresent(node, facts), EvaluatePresent(node, f))
      BY <3>1, EvaluateLeafRefines
    <3>3. CASE node.op = "label_present"
      <4>1. x = EvaluatePresent(node, facts) /\ y = EvaluatePresent(node, f)
        BY <1>1, <3>3, NodeIs
      <4>2. x \in Result /\ y \in Result
        BY <1>2, <3>3, <4>1, LeafIsResult
      <4>3. QED BY <1>1, <3>2, <4>1, <4>2, RefinedIsKept DEF Follows
    <3>4. CASE node.op \in {"label_score", "exists", "compare"}
      <4>1. x = EvaluateLeaf(node, facts) /\ y = EvaluateLeaf(node, f)
        BY <1>1, <3>4, NodeIs
      <4>2. x \in Result /\ y \in Result
        BY <1>2, <3>4, <4>1, LeafIsResult
      <4>3. QED BY <1>1, <3>2, <4>1, <4>2, RefinedIsKept DEF Follows
    <3>5. QED BY <1>8, <2>2, <3>3, <3>4
  <2>3. QED BY <2>1, <2>2
<1>9. node.op \in {"all", "any", "not", "label", "any_media", "none_media", "label_score",
                   "label_present", "exists", "compare"}
  BY <1>2 DEF ValidNode
<1>10. QED BY <1>3, <1>5, <1>6, <1>7, <1>8, <1>9

LEMMA ConditionFollows ==
    ASSUME NEW condition, ConditionShape(condition), ValidNodes(condition), ~NegatesMedia(condition),
           NEW facts, NEW f, MoreFacts(facts, f),
           NEW v, Valuation(v, 1, condition, facts), NEW w, Valuation(w, 1, condition, f)
    PROVE  \A n \in DOMAIN condition : Follows(v[n], w[n], condition)
<1>1. PICK L \in Nat \ {0} : L = Len(condition) /\ DOMAIN condition = 1..L
  BY ConditionIsTree
<1>2. /\ \A n \in 1..L : v[n] = Node(condition[n], v, facts)
      /\ \A n \in 1..L : w[n] = Node(condition[n], w, f)
  BY <1>1, Zenon DEF Valuation
<1> DEFINE Wrong == {m \in 0..L : L - m \in 1..L /\ ~Follows(v[L - m], w[L - m], condition)}
<1>3. SUFFICES ASSUME Wrong # {}
               PROVE  FALSE
  <2>1. SUFFICES ASSUME NEW n \in 1..L, ~Follows(v[n], w[n], condition)
                 PROVE  Wrong # {}
    BY <1>1, <1>3
  <2>2. PICK m : m = L - n
    OBVIOUS
  <2>3. m \in 0..L /\ L - m = n
    BY <1>1, <2>2
  <2>4. m \in Wrong
    BY <2>1, <2>3
  <2>5. QED BY <2>4
<1>4. Wrong \in SUBSET Nat
  OBVIOUS
<1>5. PICK m \in Wrong : \A k \in Wrong : m <= k
  BY <1>3, <1>4, SmallestExists
<1>6. PICK n \in 1..L : n = L - m
  OBVIOUS
<1>7. ~Follows(v[n], w[n], condition) /\ m \in 0..L
  BY <1>6
<1>8. ASSUME NEW a \in Children(condition[n])
      PROVE  Follows(v[a], w[a], condition)
  <2>1. a \in (n + 1)..L
    BY <1>1, ConditionIsTree
  <2>2. PICK k : k = L - a
    OBVIOUS
  <2>3. k \in 0..L /\ L - k = a /\ a \in 1..L /\ ~(m <= k)
    BY <1>1, <1>6, <1>7, <2>1, <2>2
  <2>4. k \notin Wrong
    BY <1>5, <2>3
  <2>5. QED BY <2>3, <2>4
<1>9. Follows(v[n], w[n], condition)
  BY <1>1, <1>2, <1>8, NodeFollows
<1>10. QED BY <1>7, <1>9

(* A condition that holds for some facts holds for every completion of     *)
(* them (evaluate_condition).                                              *)
LEMMA MatchesAreKept ==
    ASSUME NEW condition, ConditionShape(condition), ~NegatesMedia(condition),
           NEW facts, NEW f, MoreFacts(facts, f), EvaluateCondition(condition, facts)
    PROVE  EvaluateCondition(condition, f)
<1>1. ValidCondition(condition) /\ Evaluate(condition, facts) = "true"
  BY DEF EvaluateCondition
<1>2. ValidNodes(condition)
  BY <1>1, Zenon DEF ValidCondition, ValidNodes
<1>3. PICK v : Valuation(v, 1, condition, facts) /\ Evaluate(condition, facts) = v[1]
  BY <1>2, EvaluateValuates
<1>4. PICK w : Valuation(w, 1, condition, f) /\ Evaluate(condition, f) = w[1]
  BY <1>2, EvaluateValuates
<1>5. 1 \in DOMAIN condition
  BY ConditionIsTree
<1>6. Follows(v[1], w[1], condition)
  BY <1>2, <1>3, <1>4, <1>5, ConditionFollows
<1>7. Evaluate(condition, f) = "true"
  BY <1>1, <1>3, <1>4, <1>6 DEF Follows, Keeps
<1>8. QED BY <1>1, <1>7 DEF EvaluateCondition

LEMMA EntryExtends ==
    ASSUME NEW g, NEW key, NEW value
    PROVE  /\ DOMAIN WithEntry(g, key, value) = DOMAIN g \cup {key}
           /\ WithEntry(g, key, value)[key] = value
           /\ \A k \in DOMAIN g \ {key} : WithEntry(g, key, value)[k] = g[k]
           /\ key \notin DOMAIN g => Extends(g, WithEntry(g, key, value))
<1>1. PICK h : h = WithEntry(g, key, value)
  OBVIOUS
<1>2. h = [k \in DOMAIN g \cup {key} |-> IF k = key THEN value ELSE g[k]]
  BY <1>1 DEF WithEntry
<1>3. DOMAIN h = DOMAIN g \cup {key} /\ h[key] = value /\ \A k \in DOMAIN g \ {key} : h[k] = g[k]
  BY <1>2
<1>4. QED BY <1>1, <1>3 DEF Extends

LEMMA ExtendsItself == \A g : Extends(g, g)
BY DEF Extends

\* One more label leaves what was known.
LEMMA CompletionIsMore ==
    ASSUME NEW facts, NEW ns \in Namespaces, NEW id, NEW value, ~KnownLabel(facts, ns, id)
    PROVE  MoreFacts(facts, WithLabel(facts, ns, id, value))
<1>1. PICK labels, key, asset : /\ labels = facts.labels[ns]
                                /\ key = KeyOf[id[2]]
                                /\ asset = id[1]
  OBVIOUS
<1>2. PICK entry : entry = IF asset \in DOMAIN labels.media THEN labels.media[asset] ELSE <<>>
  OBVIOUS
<1>3. PICK known :
        known = IF asset = MessageTarget
                THEN [global |-> WithEntry(labels.global, key, value), media |-> labels.media]
                ELSE [global |-> labels.global,
                      media |-> WithEntry(labels.media, asset, WithEntry(entry, key, value))]
  OBVIOUS
<1>4. PICK f : f = WithLabel(facts, ns, id, value)
  OBVIOUS
<1>5. f = [fields |-> facts.fields,
           labels |-> [m \in Namespaces |-> IF m = ns THEN known ELSE facts.labels[m]]]
  BY <1>1, <1>2, <1>3, <1>4, Zenon DEF WithLabel
<1>6. f.fields = facts.fields /\ f.labels[ns] = known /\ \A m \in Namespaces \ {ns} : f.labels[m] = facts.labels[m]
  BY <1>5
<1>7. /\ Extends(labels.global, known.global)
      /\ \A a \in DOMAIN labels.media :
            a \in DOMAIN known.media /\ Extends(labels.media[a], known.media[a])
  <2>1. CASE asset = MessageTarget
    <3>1. known.global = WithEntry(labels.global, key, value) /\ known.media = labels.media
      BY <1>3, <2>1
    <3>2. key \notin DOMAIN labels.global
      BY <1>1, <2>1 DEF KnownLabel
    <3>3. Extends(labels.global, known.global)
      <4>1. PICK g, h : g = labels.global /\ h = WithEntry(g, key, value)
        OBVIOUS
      <4>2. key \notin DOMAIN g => Extends(g, h)
        BY <4>1, EntryExtends
      <4>3. QED BY <3>1, <3>2, <4>1, <4>2
    <3>4. QED BY <3>1, <3>3, ExtendsItself
  <2>2. CASE asset # MessageTarget
    <3>1. PICK new : new = WithEntry(entry, key, value)
      OBVIOUS
    <3>2. known.global = labels.global /\ known.media = WithEntry(labels.media, asset, new)
      BY <1>3, <2>2, <3>1
    <3>3. /\ DOMAIN known.media = DOMAIN labels.media \cup {asset}
          /\ known.media[asset] = new
          /\ \A a \in DOMAIN labels.media \ {asset} : known.media[a] = labels.media[a]
      <4>1. PICK g, h : g = labels.media /\ h = WithEntry(g, asset, new)
        OBVIOUS
      <4>2. DOMAIN h = DOMAIN g \cup {asset} /\ h[asset] = new /\ \A k \in DOMAIN g \ {asset} : h[k] = g[k]
        <5>1. h = [k \in DOMAIN g \cup {asset} |-> IF k = asset THEN new ELSE g[k]]
          BY <4>1, Zenon DEF WithEntry
        <5>2. QED BY <5>1
      <4>3. QED BY <3>2, <4>1, <4>2
    <3>4. asset \in DOMAIN labels.media => entry = labels.media[asset] /\ key \notin DOMAIN entry
      BY <1>1, <1>2, <2>2 DEF KnownLabel
    <3>5. asset \in DOMAIN labels.media => Extends(labels.media[asset], new)
      BY <3>1, <3>4, EntryExtends
    <3>6. QED BY <3>2, <3>3, <3>5, ExtendsItself
  <2>3. QED BY <2>1, <2>2
<1>8. ASSUME NEW m \in Namespaces
      PROVE  /\ Extends(facts.labels[m].global, f.labels[m].global)
             /\ \A a \in DOMAIN facts.labels[m].media :
                  /\ a \in DOMAIN f.labels[m].media
                  /\ Extends(facts.labels[m].media[a], f.labels[m].media[a])
  <2>1. CASE m = ns
    BY <1>1, <1>6, <1>7, <2>1
  <2>2. CASE m # ns
    BY <1>6, <2>2, ExtendsItself
  <2>3. QED BY <2>1, <2>2
<1>9. QED BY <1>4, <1>6, <1>8 DEF MoreFacts

(* A missing label is never what makes a rule match: for any rules that do *)
(* not negate the media, a rule that matches still matches once any label  *)
(* the message or an asset lacks is known, whatever its value              *)
(* (evaluate_condition, _evaluate).                                        *)
THEOREM MatchesRestOnKnownLabels == Spec => UnknownNeverMatches
<1>1. ASSUME IInv, [Next]_vars
      PROVE  \A c \in Callers : Evaluates(c) =>
               \A r \in rules[call[c].policy] : ~NegatesMedia(r.condition) => MatchIsKnown(c, r)
  <2> SUFFICES ASSUME NEW c \in Callers, Evaluates(c),
                      NEW r \in rules[call[c].policy], ~NegatesMedia(r.condition)
               PROVE  MatchIsKnown(c, r)
    OBVIOUS
  <2>1. call[c].at = "load" /\ call[c].policy \in Policies /\ rules \in [Policies -> RuleSets]
    BY <1>1, AskedIsSound DEF Evaluates, IInv, TypeOK, AskIsSound
  <2>2. RuleSetShape(rules[call[c].policy])
    BY <2>1, DraftFollowsDecision
  <2>3. ConditionShape(r.condition)
    BY <2>2 DEF RuleSetShape, RuleShape
  <2>4. ASSUME EvaluateCondition(r.condition, Facts), NEW f \in Completions(Facts)
        PROVE  EvaluateCondition(r.condition, f)
    <3>1. PICK facts : facts = Facts
      OBVIOUS
    <3>2. PICK x \in {y \in Namespaces \X Identity \X LabelValues : ~KnownLabel(facts, y[1], y[2])} :
            f = WithLabel(facts, x[1], x[2], x[3])
      BY <2>4, <3>1 DEF Completions
    <3>3. x[1] \in Namespaces /\ ~KnownLabel(facts, x[1], x[2])
      OBVIOUS
    <3>4. MoreFacts(facts, f)
      BY <3>2, <3>3, CompletionIsMore
    <3>5. QED BY <2>3, <2>4, <3>1, <3>4, MatchesAreKept
  <2>5. QED BY <2>4 DEF MatchIsKnown
<1>2. QED BY <1>1, Invariant, PTL DEF Spec, UnknownNeverMatches

=============================================================================
