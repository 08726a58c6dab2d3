---------------------------- MODULE PolicyProofs ----------------------------
(***************************************************************************)
(* Proofs about the operator's policy: every rule in the table has been    *)
(* validated and has a position; whatever a source of crawler addresses    *)
(* answers, what is published names some and not too many; and what is     *)
(* published decides about every address as the tables mean it.            *)
(*                                                                         *)
(* For the last of these: a table of ranges that lie apart is the same in  *)
(* either order (Sets in order, Tables); a code is looked up to a country  *)
(* where a row of it is; merging loses and adds no address; the binary     *)
(* search finds what is there; and the first hit in the compiled list of   *)
(* rules is the first rule that matches.                                   *)
(***************************************************************************)
EXTENDS Policy, SequenceTheorems, FiniteSetTheorems, WellFoundedInduction, TLAPS

-----------------------------------------------------------------------------
(* Sets of ranges. *)

LEMMA AddrsFinite == IsFiniteSet(Addrs)
<1> DEFINE pairs == Families \X (0..Top)
           f == [p \in pairs |-> [fam |-> p[1], n |-> p[2]]]
<1>1. IsFiniteSet(Families)
  <2>1. IsFiniteSet({"v4"} \cup {"v6"})
    BY FS_Singleton, FS_Union
  <2>2. {"v4"} \cup {"v6"} = Families
    BY DEF Families
  <2> QED BY <2>1, <2>2
<1>2. IsFiniteSet(pairs)
  <2>1. IsFiniteSet(0..Top)
    BY FilesAssumption, FS_Interval
  <2> QED BY <1>1, <2>1, FS_Product
<1>3. f \in Surjection(pairs, Addrs)
  <2>1. f \in [pairs -> Addrs]
    BY DEF Addrs
  <2>2. ASSUME NEW a \in Addrs PROVE \E p \in pairs : f[p] = a
    <3>1. <<a.fam, a.n>> \in pairs /\ f[<<a.fam, a.n>>] = a
      BY DEF Addrs
    <3> QED BY <3>1
  <2> QED BY <2>1, <2>2 DEF Surjection
<1> QED BY <1>2, <1>3, FS_Surjection

\* A source answers with finitely many ranges, each of finitely many addresses.
LEMMA FeedFinite ==
    ASSUME NEW feed \in Feeds, NEW good \in SUBSET feed
    PROVE  /\ IsFiniteSet(good) /\ good \subseteq SUBSET Addrs
           /\ \A r \in good : IsFiniteSet(r)
<1>1. IsFiniteSet(SUBSET Addrs)
  BY AddrsFinite, FS_SUBSET
<1>2. good \in SUBSET (SUBSET Addrs)
  BY PolicyAssumption
<1> QED BY <1>1, <1>2, AddrsFinite, FS_Subset

\* What the recursion behind MapThenSumSet says of the function it goes by.
Unfolds(g, S) ==
    g = [s \in SUBSET S |->
            IF s = {} THEN 0
            ELSE Cardinality(CHOOSE x \in s : TRUE) + g[s \ {CHOOSE x \in s : TRUE}]]

LEMMA SumUnfolds ==
    ASSUME NEW S, NEW n, \E g : Unfolds(g, S), \A g : Unfolds(g, S) => g[S] = n
    PROVE  MapThenSumSet(Cardinality, S) = n
BY DEF MapThenSumSet, MapThenFoldSet, Unfolds

\* The addresses of some ranges, each as often as a range has it.
Marks(s) == {p \in s \X Addrs : p[2] \in p[1]}

LEMMA MarksAdd ==
    ASSUME NEW s, IsFiniteSet(s), NEW r, r \notin s, r \in SUBSET Addrs
    PROVE  /\ IsFiniteSet(Marks(s)) /\ Cardinality(Marks(s)) \in Nat
           /\ Cardinality(r) \in Nat
           /\ Cardinality(Marks(s \cup {r})) = Cardinality(r) + Cardinality(Marks(s))
<1> DEFINE old == Marks(s)
           new == {r} \X r
<1>1. IsFiniteSet(old)
  <2>1. IsFiniteSet(s \X Addrs)
    BY AddrsFinite, FS_Product
  <2>2. old \in SUBSET (s \X Addrs)
    BY DEF Marks
  <2> QED BY <2>1, <2>2, FS_Subset
<1>2. IsFiniteSet(r) /\ Cardinality(r) \in Nat
  BY AddrsFinite, FS_Subset, FS_CardinalityType
<1>3. IsFiniteSet(new) /\ Cardinality(new) = Cardinality(r)
  <2>1. IsFiniteSet({r}) /\ Cardinality({r}) = 1
    BY FS_Singleton
  <2>2. IsFiniteSet(new) /\ Cardinality(new) = Cardinality({r}) * Cardinality(r)
    BY <1>2, <2>1, FS_Product
  <2> QED BY <1>2, <2>1, <2>2
<1>4. Marks(s \cup {r}) = old \cup new
  BY DEF Marks
<1>5. old \cap new = {}
  BY DEF Marks
<1>6. Cardinality(old \cup new) = Cardinality(old) + Cardinality(new) - Cardinality(old \cap new)
  BY <1>1, <1>3, FS_Union
<1>7. Cardinality(old \cap new) = 0
  BY <1>5, FS_EmptySet
<1>8. Cardinality(old) \in Nat
  BY <1>1, FS_CardinalityType
<1>9. Cardinality(old \cup new) = Cardinality(r) + Cardinality(old)
  <2> HIDE DEF old, new
  <2> QED BY <1>2, <1>3, <1>6, <1>7, <1>8
<1> QED BY <1>1, <1>2, <1>4, <1>8, <1>9

\* The sum of the sizes of some ranges is the number of their marks: the numbers of marks obey
\* the recursion, and a smallest set on which something else that does disagrees would have a
\* smaller one.
LEMMA SumIsMarks ==
    ASSUME NEW S, IsFiniteSet(S), S \subseteq SUBSET Addrs
    PROVE  MapThenSumSet(Cardinality, S) = Cardinality(Marks(S))
<1> DEFINE marks(s) == Cardinality(Marks(s))
           some(s) == CHOOSE x \in s : TRUE
<1>1. marks({}) = 0
  <2>1. Marks({}) = {}
    BY DEF Marks
  <2> QED BY <2>1, FS_EmptySet
<1>2. ASSUME NEW s \in SUBSET S, s # {}
      PROVE  some(s) \in s /\ marks(s) = Cardinality(some(s)) + marks(s \ {some(s)})
  <2>1. some(s) \in s
    BY <1>2
  <2>2. IsFiniteSet(s \ {some(s)})
    BY FS_Subset, FS_RemoveElement
  <2>3. some(s) \in SUBSET Addrs /\ some(s) \notin s \ {some(s)}
    BY <2>1
  <2> HIDE DEF some
  <2>4. marks((s \ {some(s)}) \cup {some(s)}) = Cardinality(some(s)) + marks(s \ {some(s)})
    BY <2>2, <2>3, MarksAdd
  <2>5. (s \ {some(s)}) \cup {some(s)} = s
    BY <2>1
  <2> QED BY <2>1, <2>4, <2>5
<1> HIDE DEF marks
<1>3. \E g : Unfolds(g, S)
  <2> DEFINE g == [s \in SUBSET S |-> marks(s)]
  <2>1. \A s \in SUBSET S : s \ {some(s)} \in SUBSET S
    OBVIOUS
  <2>2. \A s \in SUBSET S :
            g[s] = IF s = {} THEN 0 ELSE Cardinality(some(s)) + g[s \ {some(s)}]
    BY <1>1, <1>2, <2>1
  <2>3. Unfolds(g, S)
    BY <2>2 DEF Unfolds
  <2> QED BY <2>3
<1>4. ASSUME NEW g, Unfolds(g, S) PROVE g[S] = marks(S)
  <2> DEFINE wrong == {s \in SUBSET S : g[s] # marks(s)}
  <2>1. \A s \in SUBSET S :
            g[s] = IF s = {} THEN 0 ELSE Cardinality(some(s)) + g[s \ {some(s)}]
    BY <1>4 DEF Unfolds
  <2>2. ASSUME wrong # {} PROVE FALSE
    <3>1. wrong \subseteq FiniteSubsetsOf(S)
      BY FS_Subset DEF FiniteSubsetsOf
    <3>2. PICK s \in wrong : \A r \in wrong : ~(<<r, s>> \in StrictSubsetOrdering(S))
      <4>1. IsWellFoundedOn(StrictSubsetOrdering(S), FiniteSubsetsOf(S))
        BY FS_StrictSubsetOrderingWellFounded
      <4> HIDE DEF wrong
      <4> QED BY <2>2, <3>1, <4>1, WFMin
    <3>3. s # {}
      BY <1>1, <2>1
    <3>4. s \ {some(s)} \in SUBSET S /\ <<s \ {some(s)}, s>> \in StrictSubsetOrdering(S)
      BY <1>2, <3>3 DEF StrictSubsetOrdering
    <3>5. g[s \ {some(s)}] = marks(s \ {some(s)})
      BY <3>2, <3>4
    <3> QED BY <1>2, <2>1, <3>3, <3>5
  <2> QED BY <2>2
<1> QED BY <1>3, <1>4, SumUnfolds DEF marks

\* Ranges cover no more addresses than they have together.
LEMMA UnionBound ==
    ASSUME NEW S, IsFiniteSet(S), S \subseteq SUBSET Addrs
    PROVE  /\ MapThenSumSet(Cardinality, S) \in Nat
           /\ IsFiniteSet(UNION S) /\ Cardinality(UNION S) \in Nat
           /\ Cardinality(UNION S) <= MapThenSumSet(Cardinality, S)
<1> DEFINE f == [p \in Marks(S) |-> p[2]]
<1>1. IsFiniteSet(Marks(S)) /\ Cardinality(Marks(S)) \in Nat
  <2>1. IsFiniteSet(S \X Addrs)
    BY AddrsFinite, FS_Product
  <2>2. Marks(S) \in SUBSET (S \X Addrs)
    BY DEF Marks
  <2> QED BY <2>1, <2>2, FS_Subset, FS_CardinalityType
<1>2. f \in Surjection(Marks(S), UNION S)
  <2>1. f \in [Marks(S) -> UNION S]
    BY DEF Marks
  <2>2. ASSUME NEW a \in UNION S PROVE \E p \in Marks(S) : f[p] = a
    <3>1. PICK r \in S : a \in r
      OBVIOUS
    <3>2. <<r, a>> \in Marks(S)
      BY <3>1 DEF Marks
    <3>3. f[<<r, a>>] = a
      BY <3>2
    <3> QED BY <3>2, <3>3
  <2> QED BY <2>1, <2>2 DEF Surjection
<1>3. IsFiniteSet(UNION S) /\ Cardinality(UNION S) <= Cardinality(Marks(S))
  BY <1>1, <1>2, FS_Surjection
<1> QED BY <1>1, <1>3, SumIsMarks, FS_CardinalityType

\* crawler.go Refresh: what replaces the ranges in use names somebody and stays below the
\* ceiling, and otherwise they stay.
LEMMA RefreshKeeps ==
    ASSUME CrawlersKept, crawl \subseteq Addrs, NEW feed \in Feeds
    PROVE  /\ Refreshed(feed) # {} /\ Cardinality(Refreshed(feed)) <= MaxTotal
           /\ Refreshed(feed) \subseteq Addrs
<1> DEFINE good == {r \in feed : ValidatePrefix(r)}
           total == MapThenSumSet(Cardinality, good)
<1>1. IsFiniteSet(good) /\ good \subseteq SUBSET Addrs
  BY FeedFinite
<1>2. ValidateRanges(feed) = IF total > MaxTotal THEN {} ELSE UNION good
  BY DEF ValidateRanges
<1> HIDE DEF good
<1>3. total \in Nat /\ Cardinality(UNION good) \in Nat /\ Cardinality(UNION good) <= total
  BY <1>1, UnionBound
<1> HIDE DEF total
<1>4. CASE ValidateRanges(feed) = {}
  BY <1>4 DEF Refreshed, CrawlersKept
<1>5. CASE ValidateRanges(feed) # {}
  <2>1. ~(total > MaxTotal) /\ Refreshed(feed) = UNION good
    BY <1>2, <1>5 DEF Refreshed
  <2>2. Cardinality(UNION good) <= MaxTotal
    BY <1>3, <2>1, PolicyAssumption
  <2> QED BY <1>1, <1>5, <2>1, <2>2, <1>2
<1> QED BY <1>4, <1>5

-----------------------------------------------------------------------------
(* Orders of the rules. *)

LEMMA Enumerable == ASSUME NEW S, IsFiniteSet(S) PROVE SetToSeqs(S) # {}
<1>1. PICK f : f \in Bijection(1..Cardinality(S), S)
  BY FS_CardinalityType DEF ExistsBijection
<1>2. f \in SetToSeqs(S)
  BY <1>1 DEF SetToSeqs, Bijection, Injection, IsInjective
<1> QED BY <1>2

\* In an order of the rules every one of them has a position.
LEMMA Positions ==
    ASSUME NEW S, IsFiniteSet(S), NEW ids \in SetToSeqs(S), NEW i \in S
    PROVE  /\ Cardinality(S) \in Nat /\ DOMAIN ids = 1..Cardinality(S)
           /\ \E k \in DOMAIN ids : ids[k] = i
<1>1. Cardinality(S) \in Nat
  BY FS_CardinalityType
<1>2. ids \in Injection(1..Cardinality(S), S)
  BY DEF SetToSeqs, Injection, IsInjective
<1>3. Cardinality(1..Cardinality(S)) = Cardinality(S)
  BY <1>1, FS_Interval
<1>4. ids \in Surjection(1..Cardinality(S), S)
  BY <1>2, <1>3, FS_Injection
<1> QED BY <1>1, <1>4 DEF Surjection

LEMMA PositionType ==
    ASSUME NEW S, IsFiniteSet(S), NEW ids \in SetToSeqs(S), NEW i \in S
    PROVE  Position(ids, i) \in 1..Cardinality(S)
BY Positions DEF Position

-----------------------------------------------------------------------------
(* The table of rules. *)

\* A rule has a position, which what stands for no rule has not.
LEMMA StoredIsRule == ASSUME NEW r \in StoredRules PROVE r # NoRule
BY DEF StoredRules, NoRule

LEMMA BottomType == /\ Bottom \in Nat /\ IsFiniteSet(Present)
                    /\ Cardinality(Present) \in Nat /\ Cardinality(Present) <= Bottom
                    /\ Present # RuleIds => Cardinality(Present) < Bottom
<1>1. Present \in SUBSET RuleIds /\ IsFiniteSet(RuleIds)
  BY PolicyAssumption DEF Present
<1>2. /\ IsFiniteSet(Present) /\ Cardinality(Present) <= Cardinality(RuleIds)
      /\ Cardinality(RuleIds) = Cardinality(Present) => RuleIds = Present
  BY <1>1, FS_Subset
<1>3. Cardinality(Present) \in Nat /\ Cardinality(RuleIds) \in Nat
  BY <1>1, <1>2, FS_CardinalityType
<1> QED BY <1>2, <1>3 DEF Bottom

\* The rules an earlier run has left.
LEMMA KeptRules ==
    ASSUME PolicyInit
    PROVE  /\ rules \in [RuleIds -> {NoRule} \cup StoredRules] /\ BornApart(rules)
           /\ \A i \in Present : rules[i].born <= 0
<1>1. PICK k \in Kept :
        LET ids == CHOOSE q \in SetToSeqs(RuleIds) : TRUE IN
        rules = [i \in RuleIds |->
                   LET n == CHOOSE p \in DOMAIN ids : ids[p] = i
                   IN  IF n > Len(k) THEN NoRule
                       ELSE [action |-> k[n].action, cond |-> k[n].cond, on |-> TRUE,
                             prio |-> Bottom + n - 1, born |-> n - Cardinality(RuleIds)]]
  BY DEF PolicyInit
<1> DEFINE ids == CHOOSE q \in SetToSeqs(RuleIds) : TRUE
           at(i) == CHOOSE p \in DOMAIN ids : ids[p] = i
           rule(n) == [action |-> k[n].action, cond |-> k[n].cond, on |-> TRUE,
                       prio |-> Bottom + n - 1, born |-> n - Cardinality(RuleIds)]
<1>2. rules = [i \in RuleIds |-> IF at(i) > Len(k) THEN NoRule ELSE rule(at(i))]
  BY <1>1
<1>3. ids \in SetToSeqs(RuleIds)
  BY PolicyAssumption, Enumerable
<1>4. ASSUME NEW i \in RuleIds PROVE at(i) \in 1..Bottom
  <2>1. at(i) = Position(ids, i)
    BY DEF Position
  <2> HIDE DEF ids, at
  <2>2. Position(ids, i) \in 1..Cardinality(RuleIds)
    BY <1>3, PolicyAssumption, PositionType
  <2> QED BY <2>1, <2>2 DEF Bottom
<1>5. ASSUME NEW n \in 1..Bottom, ~(n > Len(k)) PROVE rule(n) \in StoredRules
  <2>1. /\ Len(k) \in Nat /\ Bottom \in Nat /\ Cardinality(RuleIds) = Bottom
        /\ k \in Seq({d \in Drafts : ValidateAccessRule(d)})
    BY PolicyAssumption, BottomType DEF Bottom
  <2>2. n \in 1..Len(k)
    BY <1>5, <2>1
  <2>3. k[n] \in Drafts /\ ValidateAccessRule(k[n])
    BY <2>1, <2>2
  <2>4. k[n] \in [action : Actions, cond : Conditions]
    BY <2>3, PolicyAssumption
  <2>5. [action |-> k[n].action, cond |-> k[n].cond] = k[n]
    BY <2>4
  <2>6. Bottom + n - 1 \in 1..(2 * Bottom) /\ n - Cardinality(RuleIds) \in Int
    BY <2>1
  <2>7. Written(rule(n))
    BY <2>3, <2>5 DEF Written
  <2> QED BY <2>4, <2>6, <2>7 DEF StoredRules
<1>6. ASSUME NEW i \in RuleIds, NEW j \in RuleIds, at(i) = at(j) PROVE i = j
  <2>1. /\ \E p \in DOMAIN ids : ids[p] = i
        /\ \E p \in DOMAIN ids : ids[p] = j
    <3> HIDE DEF ids
    <3> QED BY <1>3, PolicyAssumption, Positions
  <2> QED BY <2>1, <1>6
<1>7. \A n \in 1..Bottom : rule(n).born = n - Bottom
  BY DEF Bottom
<1>8. Bottom \in Nat
  BY BottomType
<1> HIDE DEF rule, at
<1>9. rules \in [RuleIds -> {NoRule} \cup StoredRules]
  BY <1>2, <1>4, <1>5
<1>10. \A i \in RuleIds : rules[i] # NoRule => rules[i].born = at(i) - Bottom
  BY <1>2, <1>4, <1>7
<1> QED BY <1>4, <1>6, <1>8, <1>9, <1>10 DEF BornApart, Present

\* A rule a handler has put together is one that the table may hold.
LEMMA NewEdit ==
    ASSUME PolicyInv, NEW d \in Drafts, ValidateAccessRule(d), NEW i \in RuleIds,
           NEW on \in BOOLEAN, NEW p \in 1..(2 * Bottom),
           edit' = [id |-> i, action |-> d.action, cond |-> d.cond, on |-> on, prio |-> p]
    PROVE  EditOK'
<1>1. d \in [action : Actions, cond : Conditions]
  BY PolicyAssumption
<1>2. [action |-> d.action, cond |-> d.cond] = d
  BY <1>1
<1>3. Written(edit')
  BY <1>2 DEF Written
<1> QED BY <1>1, <1>3 DEF EditOK, Written

LEMMA CreateKeeps == PolicyInv /\ CreateRule => EditOK'
<1> SUFFICES ASSUME PolicyInv, CreateRule PROVE EditOK'
  OBVIOUS
<1>1. PICK d \in Drafts :
        /\ ValidateAccessRule(d)
        /\ edit' = [id |-> CHOOSE i \in RuleIds : i \notin Present, action |-> d.action,
                    cond |-> d.cond, on |-> TRUE, prio |-> Bottom + Cardinality(Present)]
  BY DEF CreateRule
<1>2. (CHOOSE i \in RuleIds : i \notin Present) \in RuleIds
  BY DEF CreateRule, Present
<1>3. Bottom + Cardinality(Present) \in 1..(2 * Bottom)
  BY BottomType DEF CreateRule
<1> QED BY <1>1, <1>2, <1>3, NewEdit

LEMMA UpdateKeeps == PolicyInv /\ UpdateRule => EditOK'
<1> SUFFICES ASSUME PolicyInv, UpdateRule PROVE EditOK'
  OBVIOUS
<1>1. PICK d \in Drafts, i \in Present :
        /\ ValidateAccessRule(d)
        /\ \E on \in {FALSE, rules[i].on} :
              edit' = [id |-> i, action |-> d.action, cond |-> d.cond, on |-> on,
                       prio |-> rules[i].prio]
  BY DEF UpdateRule
<1>2. i \in RuleIds /\ rules[i] \in StoredRules
  BY DEF Present, PolicyInv, PolicyTypeOK
<1>3. rules[i].on \in BOOLEAN /\ rules[i].prio \in 1..(2 * Bottom)
  BY <1>2 DEF StoredRules
<1> QED BY <1>1, <1>2, <1>3, NewEdit

LEMMA UpsertKeeps ==
    ASSUME PolicyInv, UpsertRule PROVE rules' \in [RuleIds -> {NoRule} \cup StoredRules]
<1> DEFINE born == IF rules[edit.id] = NoRule THEN edits ELSE rules[edit.id].born
           new == [action |-> edit.action, cond |-> edit.cond, on |-> edit.on,
                   prio |-> edit.prio, born |-> born]
<1>1. rules' = [rules EXCEPT ![edit.id] = new]
  BY DEF UpsertRule
<1>2. /\ edit \in [id : RuleIds, action : Actions, cond : Conditions, on : BOOLEAN,
                   prio : 1..(2 * Bottom)]
      /\ Written(edit)
  BY DEF PolicyInv, EditOK, UpsertRule
<1>3. rules \in [RuleIds -> {NoRule} \cup StoredRules] /\ edits \in Int
  <2>1. edits \in 0..MaxEdits /\ rules \in [RuleIds -> {NoRule} \cup StoredRules]
    BY Zenon DEF PolicyInv, PolicyTypeOK
  <2> QED BY <2>1
<1>4. born \in Int
  BY <1>2, <1>3 DEF StoredRules
<1> HIDE DEF born
<1>5. new \in [action : Actions, cond : Conditions, on : BOOLEAN, prio : 1..(2 * Bottom), born : Int]
  BY <1>2, <1>4
<1>6. Written(new)
  BY <1>2 DEF Written
<1>7. new \in StoredRules
  BY <1>5, <1>6 DEF StoredRules
<1> HIDE DEF new
<1> QED BY <1>1, <1>3, <1>7

\* A reorder gives every rule a position and leaves the rest of it.
LEMMA ReorderKeeps ==
    ASSUME PolicyInv, Reorder PROVE rules' \in [RuleIds -> {NoRule} \cup StoredRules]
<1>1. PICK ids \in SetToSeqs(Present) :
        rules' = [i \in RuleIds |->
                    IF i \in Present THEN [rules[i] EXCEPT !.prio = Position(ids, i)] ELSE NoRule]
  BY DEF Reorder
<1>2. ASSUME NEW i \in Present
      PROVE  [rules[i] EXCEPT !.prio = Position(ids, i)] \in StoredRules
  <2> DEFINE r == rules[i]
             p == Position(ids, i)
  <2>1. r \in StoredRules
    BY DEF Present, PolicyInv, PolicyTypeOK
  <2>2. p \in 1..(2 * Bottom)
    <3>1. p \in 1..Cardinality(Present)
      BY BottomType, PositionType
    <3> HIDE DEF p
    <3> QED BY <3>1, BottomType
  <2> HIDE DEF r, p
  <2>3. [r EXCEPT !.prio = p] \in [action : Actions, cond : Conditions, on : BOOLEAN,
                                   prio : 1..(2 * Bottom), born : Int]
    BY <2>1, <2>2 DEF StoredRules
  <2>4. [r EXCEPT !.prio = p].action = r.action /\ [r EXCEPT !.prio = p].cond = r.cond
    BY <2>1 DEF StoredRules
  <2>5. Written([r EXCEPT !.prio = p])
    BY <2>1, <2>4 DEF StoredRules, Written
  <2>6. [r EXCEPT !.prio = p] \in StoredRules
    BY <2>3, <2>5 DEF StoredRules
  <2> QED BY <2>6 DEF r, p
<1> QED BY <1>1, <1>2

\* A request that inserts nothing takes no created_at, and leaves the ones there are.
LEMMA SamePlaces ==
    ASSUME BornApart(rules), Aged, rules \in [RuleIds -> {NoRule} \cup StoredRules],
           edits \in Int, edits' = edits + 1,
           \A i \in RuleIds : rules'[i] = NoRule
                               \/ (rules[i] # NoRule /\ rules'[i].born = rules[i].born)
    PROVE  (BornApart(rules) /\ Aged)'
<1>1. \A i \in Present : rules[i].born \in Int
  BY DEF Present, StoredRules
<1>2. \A i \in Present' : i \in Present /\ rules'[i].born = rules[i].born
  BY DEF Present
<1>3. BornApart(rules)'
  BY DEF BornApart
<1>4. Aged'
  BY <1>1, <1>2 DEF Aged
<1> QED BY <1>3, <1>4

\* A rule that is inserted is younger than all the others.
LEMMA UpsertPlaces == ASSUME PolicyInv, UpsertRule PROVE (BornApart(rules) /\ Aged)'
<1> DEFINE new == rules'[edit.id]
<1>1. /\ rules \in [RuleIds -> {NoRule} \cup StoredRules] /\ edits \in Int
      /\ BornApart(rules) /\ Aged /\ edit # NoEdit /\ edit.id \in RuleIds
  <2>1. edits \in 0..MaxEdits /\ rules \in [RuleIds -> {NoRule} \cup StoredRules]
    BY Zenon DEF PolicyInv, PolicyTypeOK
  <2> QED BY <2>1 DEF PolicyInv, EditOK, UpsertRule
<1>2. /\ new.born = IF rules[edit.id] = NoRule THEN edits ELSE rules[edit.id].born
      /\ \A i \in RuleIds : i # edit.id => rules'[i] = rules[i]
      /\ edit' = NoEdit /\ edits' = edits
  BY <1>1 DEF UpsertRule
<1>3. \A i \in Present : rules[i].born \in Int /\ rules[i].born < edits
  BY <1>1 DEF Present, StoredRules, Aged
<1>4. edit.id \notin Present => new.born = edits
  BY <1>1, <1>2 DEF Present
<1>5. edit.id \in Present => new.born = rules[edit.id].born
  BY <1>2 DEF Present
<1>6. \A i \in RuleIds : i # edit.id /\ rules'[i] # NoRule => i \in Present
  BY <1>2 DEF Present
<1> HIDE DEF new
<1>7. BornApart(rules)'
  <2>1. ASSUME NEW i \in RuleIds, NEW j \in RuleIds, i # j,
               rules'[i] # NoRule, rules'[j] # NoRule
        PROVE  rules'[i].born # rules'[j].born
    <3>1. CASE i # edit.id /\ j # edit.id
      BY <1>1, <1>2, <2>1, <3>1 DEF BornApart
    <3>2. CASE edit.id \in Present
      BY <1>1, <1>2, <1>5, <2>1, <3>1, <3>2 DEF BornApart, Present, new
    <3>3. CASE edit.id \notin Present
      BY <1>2, <1>3, <1>4, <1>6, <2>1, <3>1, <3>3 DEF new
    <3> QED BY <3>2, <3>3
  <2> QED BY <2>1 DEF BornApart
<1>8. Aged'
  <2>1. ASSUME NEW i \in RuleIds, rules'[i] # NoRule PROVE rules'[i].born <= edits
    <3>1. CASE i # edit.id
      BY <1>2, <1>3, <1>6, <1>1, <2>1, <3>1
    <3>2. CASE i = edit.id
      BY <1>1, <1>3, <1>4, <1>5, <3>2 DEF new
    <3> QED BY <3>1, <3>2
  <2> QED BY <1>2, <2>1 DEF Aged, Present
<1> QED BY <1>7, <1>8

LEMMA HandlerPlaces == ASSUME PolicyInv, Handler PROVE (BornApart(rules) /\ Aged)'
<1>1. /\ rules \in [RuleIds -> {NoRule} \cup StoredRules] /\ edits \in Int
      /\ BornApart(rules) /\ Aged
  <2>1. edits \in 0..MaxEdits /\ rules \in [RuleIds -> {NoRule} \cup StoredRules]
    BY Zenon DEF PolicyInv, PolicyTypeOK
  <2> QED BY <2>1 DEF PolicyInv
<1>2. CASE DeleteRule
  <2>1. \A i \in RuleIds : rules'[i] = NoRule \/ (rules[i] # NoRule /\ rules'[i] = rules[i])
    BY <1>1, <1>2 DEF DeleteRule
  <2> QED BY <1>1, <1>2, <2>1, SamePlaces DEF DeleteRule, Request
<1>3. CASE Reorder
  <2>1. PICK ids \in SetToSeqs(Present) :
          rules' = [i \in RuleIds |->
                      IF i \in Present THEN [rules[i] EXCEPT !.prio = Position(ids, i)] ELSE NoRule]
    BY <1>3 DEF Reorder
  <2>2. ASSUME NEW i \in Present PROVE rules'[i].born = rules[i].born
    <3> DEFINE p == Position(ids, i)
    <3>1. rules[i] \in StoredRules /\ i \in RuleIds
      BY <1>1 DEF Present
    <3>2. rules'[i] = [rules[i] EXCEPT !.prio = p]
      BY <2>1, <3>1
    <3> HIDE DEF p
    <3> QED BY <3>1, <3>2 DEF StoredRules
  <2>3. \A i \in RuleIds : rules'[i] = NoRule
                            \/ (rules[i] # NoRule /\ rules'[i].born = rules[i].born)
    BY <2>1, <2>2 DEF Present
  <2> QED BY <1>1, <1>3, <2>3, SamePlaces DEF Reorder, Request
<1>4. CASE SetCountryRule \/ CreateRule \/ UpdateRule \/ EditList
  <2>1. edits' = edits + 1 /\ rules' = rules
    BY <1>4 DEF SetCountryRule, CreateRule, UpdateRule, EditList, AddIP, DeleteIP, SetEntry,
                Request, tables
  <2> QED BY <1>1, <2>1, SamePlaces
<1> QED BY <1>2, <1>3, <1>4, UpsertPlaces DEF Handler

-----------------------------------------------------------------------------
(* The invariant. *)

\* Whatever a request says of a country rule, what is stored is one.
LEMMA NormalisedType ==
    ASSUME NEW c \in CountryLists \cup {{}}, NEW mode \in {"block", "allow", "off", ""}
    PROVE  NormaliseGeo(mode, c) \in CountryRules /\ NormaliseSiteGeo(mode, c) \in CountryRules
<1>1. Off \in CountryRules /\ Follow \in CountryRules
  BY Zenon DEF Off, Follow, CountryRules
<1>2. [mode |-> mode, of |-> c] \in CountryRules
  BY Zenon DEF CountryRules
<1>3. NormaliseGeo(mode, c) \in CountryRules
  BY <1>1, <1>2, Zenon DEF NormaliseGeo
<1> QED BY <1>1, <1>3, Zenon DEF NormaliseSiteGeo

LEMMA CountryKeeps ==
    ASSUME PolicyInv, SetCountryRule PROVE country' \in [{"global", "site"} -> CountryRules]
<1>1. PICK c \in CountryLists \cup {{}}, mode \in {"block", "allow", "off", ""} :
        \/ country' = [country EXCEPT !["global"] = NormaliseGeo(mode, c)]
        \/ country' = [country EXCEPT !["site"] = NormaliseSiteGeo(mode, c)]
  BY Zenon DEF SetCountryRule
<1>2. NormaliseGeo(mode, c) \in CountryRules /\ NormaliseSiteGeo(mode, c) \in CountryRules
  BY NormalisedType, Zenon
<1>3. country \in [{"global", "site"} -> CountryRules]
  BY DEF PolicyInv, PolicyTypeOK
<1> QED BY <1>1, <1>2, <1>3

LEMMA PolicyInitially == PolicyInit => PolicyInv
<1> SUFFICES ASSUME PolicyInit PROVE PolicyInv
  OBVIOUS
<1>1. country \in [{"global", "site"} -> CountryRules]
  <2>1. Off \in CountryRules /\ Follow \in CountryRules
    BY Zenon DEF Off, Follow, CountryRules
  <2> QED BY <2>1 DEF PolicyInit
<1>2. rules \in [RuleIds -> {NoRule} \cup StoredRules]
  BY KeptRules
<1>3. list \in [Listed -> {"none", "kept", "timed", "over"}] /\ phase = "first" /\ due = TRUE
  BY DEF PolicyInit
<1>4. month \in 0..Len(Files) /\ crawl \subseteq Addrs /\ CrawlersKept
  BY FilesAssumption, PolicyAssumption, LenProperties DEF PolicyInit, CrawlersKept
<1>5. live = Defaults /\ live.data \in 0..Len(Files) /\ live.list \subseteq Listed
  BY FilesAssumption, LenProperties DEF PolicyInit, Defaults
<1>6. edits \in 0..MaxEdits /\ faults \in 0..MaxFaults
  BY PolicyAssumption DEF PolicyInit
<1>7. EditOK /\ read = NotReading
  BY DEF PolicyInit, EditOK
<1>8. BornApart(rules) /\ Aged
  <2>1. edit = NoEdit /\ edits = 0
    BY DEF PolicyInit
  <2> QED BY <2>1, KeptRules DEF Aged
<1> QED BY <1>1, <1>2, <1>3, <1>4, <1>5, <1>6, <1>7, <1>8
        DEF PolicyInv, PolicyTypeOK, CrawlersKnown

\* What an operator does to the tables.
LEMMA HandlerKeeps == ASSUME PolicyInv, Handler PROVE PolicyInv'
<1> USE DEF PolicyInv, PolicyTypeOK, CrawlersKnown, CrawlersKept, EditOK
<1>1. UNCHANGED <<month, crawl, phase, read, live, faults>>
  BY DEF Handler, SetCountryRule, CreateRule, UpdateRule, UpsertRule, DeleteRule, Reorder,
         EditList, AddIP, DeleteIP, SetEntry
<1>2. due' \in BOOLEAN
  BY DEF Handler, SetCountryRule, CreateRule, UpdateRule, UpsertRule, DeleteRule, Reorder,
         EditList, AddIP, DeleteIP, SetEntry
<1>3. edits' \in 0..MaxEdits
  <2>1. Request \/ UNCHANGED edits
    BY DEF Handler, SetCountryRule, CreateRule, UpdateRule, UpsertRule, DeleteRule, Reorder,
           EditList, AddIP, DeleteIP, SetEntry
  <2> QED BY <2>1, PolicyAssumption DEF Request
<1>4. country' \in [{"global", "site"} -> CountryRules]
  <2>1. SetCountryRule \/ UNCHANGED country
    BY DEF Handler, CreateRule, UpdateRule, UpsertRule, DeleteRule, Reorder,
           EditList, AddIP, DeleteIP, SetEntry, tables
  <2> QED BY <2>1, CountryKeeps
<1>5. rules' \in [RuleIds -> {NoRule} \cup StoredRules]
  <2>1. UpsertRule \/ DeleteRule \/ Reorder \/ UNCHANGED rules
    BY DEF Handler, SetCountryRule, CreateRule, UpdateRule, EditList, AddIP, DeleteIP,
           SetEntry, tables
  <2>2. CASE DeleteRule
    BY <2>2 DEF DeleteRule, Present
  <2> QED BY <2>1, <2>2, UpsertKeeps, ReorderKeeps
<1>6. EditOK'
  <2>1. CreateRule \/ UpdateRule \/ edit' = NoEdit \/ UNCHANGED edit
    BY DEF Handler, SetCountryRule, UpsertRule, DeleteRule, Reorder, EditList, AddIP,
           DeleteIP, SetEntry
  <2> QED BY <2>1, CreateKeeps, UpdateKeeps DEF Written, NoEdit
<1>7. list' \in [Listed -> {"none", "kept", "timed", "over"}]
  <2>1. EditList \/ UNCHANGED list
    BY DEF Handler, SetCountryRule, CreateRule, UpdateRule, UpsertRule, DeleteRule, Reorder, tables
  <2> QED BY <2>1 DEF EditList, AddIP, DeleteIP, SetEntry
<1>8. (BornApart(rules) /\ Aged)' /\ (read' # NotReading => Readable(read'))
  BY <1>1, HandlerPlaces
<1> QED BY <1>1, <1>2, <1>3, <1>4, <1>5, <1>6, <1>7, <1>8

\* What happens by itself: time, the downloads, and the daemon's own start.
LEMMA ByItselfKeeps ==
    ASSUME PolicyInv, EntryExpires \/ Janitor \/ GeoRefresh \/ CrawlerRefresh \/ Attach \/ Restart
    PROVE  PolicyInv'
<1> USE DEF PolicyInv, PolicyTypeOK, CrawlersKnown, CrawlersKept, EditOK
<1>1. UNCHANGED <<country, rules, live, edits>>
  BY DEF EntryExpires, Janitor, GeoRefresh, CrawlerRefresh, Attach, Restart, tables
<1>2. list' \in [Listed -> {"none", "kept", "timed", "over"}]
  BY DEF EntryExpires, Janitor, GeoRefresh, CrawlerRefresh, Attach, Restart, tables
<1>3. month' \in 0..Len(Files)
  <2>1. month \in 0..Len(Files) /\ Len(Files) \in Nat
    BY FilesAssumption, LenProperties
  <2>2. month' \in (month + 1)..Len(Files) \/ month' = 0 \/ month' = month
    BY DEF EntryExpires, Janitor, GeoRefresh, CrawlerRefresh, Attach, Restart
  <2> QED BY <2>1, <2>2
<1>4. crawl' # {} /\ Cardinality(crawl') <= MaxTotal /\ crawl' \subseteq Addrs
  <2>1. CrawlerRefresh \/ crawl' = Bundled \/ crawl' = crawl
    BY DEF EntryExpires, Janitor, GeoRefresh, Attach, Restart
  <2>2. CASE CrawlerRefresh
    BY <2>2, RefreshKeeps DEF CrawlerRefresh
  <2> QED BY <2>1, <2>2, PolicyAssumption
<1>5. phase' \in {"first", "published", "attached"} /\ due' \in BOOLEAN
  BY DEF EntryExpires, Janitor, GeoRefresh, CrawlerRefresh, Attach, Restart
<1>6. faults' \in 0..MaxFaults
  <2>1. Fault \/ UNCHANGED faults
    BY DEF EntryExpires, Janitor, GeoRefresh, CrawlerRefresh, Attach, Restart
  <2> QED BY <2>1, PolicyAssumption DEF Fault
<1>7. (edit' = NoEdit \/ edit' = edit) /\ (read' = NotReading \/ read' = read)
  BY DEF EntryExpires, Janitor, GeoRefresh, CrawlerRefresh, Attach, Restart
<1>8. EditOK'
  BY <1>7 DEF Written, NoEdit
<1>9. (BornApart(rules) /\ Aged)' /\ (read' # NotReading => Readable(read'))
  BY <1>1, <1>7 DEF Aged, Present, BornApart
<1> QED BY <1>1, <1>2, <1>3, <1>4, <1>5, <1>6, <1>7, <1>8, <1>9

\* A publish takes what is there: the crawlers of the moment, of which there are some.
LEMMA PublishKeeps == ASSUME PolicyInv, Publishing PROVE PolicyInv'
<1> USE DEF PolicyInv, PolicyTypeOK, CrawlersKnown, CrawlersKept, EditOK
<1>1. UNCHANGED <<country, rules, list, edit, month, crawl, edits>>
  BY DEF Publishing, ReadTables, Store, PublishFails, tables
<1>2. phase' \in {"first", "published", "attached"} /\ due' \in BOOLEAN
  BY DEF Publishing, ReadTables, Store, PublishFails, Published
<1>3. faults' \in 0..MaxFaults
  <2>1. Fault \/ UNCHANGED faults
    BY DEF Publishing, ReadTables, Store, PublishFails
  <2> QED BY <2>1, PolicyAssumption DEF Fault
<1>4. (BornApart(rules) /\ Aged)' /\ (read' # NotReading => Readable(read'))
  <2>1. CASE ReadTables
    <3>1. /\ Now.list \subseteq Listed /\ Now.rules = rules /\ Now.country = country
          /\ read' = Now
      BY <2>1 DEF ReadTables, Now
    <3>2. /\ country \in [{"global", "site"} -> CountryRules]
          /\ rules \in [RuleIds -> {NoRule} \cup StoredRules]
      BY Zenon
    <3>3. Readable(read')
      BY <3>1, <3>2 DEF Readable
    <3> QED BY <1>1, <3>3 DEF Aged, Present, BornApart
  <2>2. (read' = NotReading \/ read' = read) /\ UNCHANGED <<rules, edit, edits>>
        => (BornApart(rules) /\ Aged)' /\ (read' # NotReading => Readable(read'))
    BY DEF Aged, Present, BornApart
  <2> QED BY <1>1, <2>1, <2>2 DEF Publishing, Store, PublishFails
<1>5. /\ live'.data \in 0..Len(Files) /\ live'.list \subseteq Listed
      /\ live' # Defaults => live'.crawl # {} /\ Cardinality(live'.crawl) <= MaxTotal
  <2>1. CASE Store
    <3>1. /\ live'.list = read.list /\ live'.data = Sources.data /\ live'.crawl = crawl
          /\ read # NotReading /\ read.list \subseteq Listed
      BY <2>1 DEF Store, Sources, Readable
    <3>2. Sources.data \in 0..Len(Files)
      <4>1. Len(Files) \in Nat
        BY FilesAssumption, LenProperties
      <4> QED BY <4>1 DEF Sources
    <3> QED BY <3>1, <3>2
  <2>2. CASE UNCHANGED live
    BY <2>2 DEF Defaults
  <2> QED BY <2>1, <2>2 DEF Publishing, ReadTables, PublishFails
<1>6. EditOK'
  BY <1>1 DEF Written, NoEdit
<1> QED BY <1>1, <1>2, <1>3, <1>4, <1>5, <1>6 DEF Defaults

LEMMA PolicyStep == PolicyInv /\ [PolicyNext]_policyVars => PolicyInv'
<1>1. ASSUME PolicyInv, UNCHANGED policyVars PROVE PolicyInv'
  BY <1>1 DEF policyVars, PolicyInv, PolicyTypeOK, CrawlersKnown, CrawlersKept, EditOK, Written,
              NoEdit, NotReading, Defaults, BornApart, Aged, Present, Readable
<1> QED BY <1>1, HandlerKeeps, ByItselfKeeps, PublishKeeps DEF PolicyNext

\* PolicyInv is an inductive invariant, whatever the requests, lists and downloads.
THEOREM PolicyInvariance == PolicySpec => []PolicyInv
<1> QED BY PolicyInitially, PolicyStep, PTL DEF PolicySpec

\* Every rule in the table has been validated and has a position, in every order of requests,
\* reorders and restarts (accessrules.go ReorderAccessRules: 0 would mean none was given).
THEOREM PolicyTypeCorrect == PolicySpec => []PolicyTypeOK
BY PolicyInvariance, PTL DEF PolicyInv

\* Whatever a source answers, a published crawler list names somebody and stays below the
\* ceiling (crawlers.go Refresh).
THEOREM CrawlersAlwaysKnown == PolicySpec => []CrawlersKnown
BY PolicyInvariance, PTL DEF PolicyInv

-----------------------------------------------------------------------------
(* Sets in order. *)

LEMMA LeastNumber ==
    ASSUME NEW T \in SUBSET Nat, T # {}
    PROVE  \E n \in T : \A m \in T : n <= m
<1>1. IsWellFoundedOn(OpToRel(<, Nat), Nat)
  BY NatLessThanWellFounded
<1>2. PICK n \in T : \A m \in T : ~ (<<m, n>> \in OpToRel(<, Nat))
  <2> DEFINE R == OpToRel(<, Nat)
  <2>1. IsWellFoundedOn(R, Nat)
    BY <1>1
  <2> HIDE DEF R
  <2>2. \E n \in T : \A m \in T : ~ (<<m, n>> \in R)
    BY <2>1, WFMin
  <2> QED BY <2>2 DEF R
<1>3. \A m \in T : ~ (m < n)
  BY <1>2 DEF OpToRel
<1> QED BY <1>3

StrictOrder(S, R) ==
    /\ \A x \in S : <<x, x>> \notin R
    /\ \A x, y, z \in S : <<x, y>> \in R /\ <<y, z>> \in R => <<x, z>> \in R
    /\ \A x, y \in S : x = y \/ <<x, y>> \in R \/ <<y, x>> \in R

Ranked(S, ahead) == [k \in 1..Cardinality(S) |-> CHOOSE x \in S : ahead[x] = k - 1]

\* What InOrder makes of a finite set and a strict order on it: the number of those that come
\* before is an injection of the set into as many numbers, so every number is somebody's.
LEMMA RankedOrder ==
    ASSUME NEW S, IsFiniteSet(S), NEW R, StrictOrder(S, R),
           NEW ahead, \A x \in S : ahead[x] = Cardinality({y \in S : <<y, x>> \in R})
    PROVE  LET q == Ranked(S, ahead) IN
           /\ q \in Seq(S) /\ Len(q) = Cardinality(S)
           /\ \A x \in S : \E k \in 1..Cardinality(S) : q[k] = x
           /\ \A i, j \in 1..Cardinality(S) : i < j => <<q[i], q[j]>> \in R
<1> DEFINE n == Cardinality(S)
           under(x) == {y \in S : <<y, x>> \in R}
           rank == [x \in S |-> Cardinality(under(x)) + 1]
           q == Ranked(S, ahead)
<1>1. n \in Nat /\ IsFiniteSet(1..n) /\ Cardinality(1..n) = n
  BY FS_CardinalityType, FS_Interval
<1>2. \A x \in S : /\ under(x) \in SUBSET S /\ IsFiniteSet(under(x))
                   /\ Cardinality(under(x)) \in Nat /\ Cardinality(under(x)) <= n
  BY FS_Subset, FS_CardinalityType
<1>3. ASSUME NEW x \in S PROVE rank[x] \in 1..n
  <2>1. Cardinality(under(x)) # n
    <3>1. x \notin under(x)
      BY DEF StrictOrder
    <3>2. under(x) # S
      BY <3>1
    <3> HIDE DEF under
    <3> QED BY <1>2, <3>2, FS_Subset
  <2> HIDE DEF under
  <2> QED BY <1>1, <1>2, <2>1
<1>4. ASSUME NEW x \in S, NEW y \in S, <<x, y>> \in R
      PROVE  rank[x] < rank[y]
  <2>1. under(x) \cup {x} \in SUBSET under(y) /\ x \notin under(x)
    BY <1>4 DEF StrictOrder
  <2> HIDE DEF under
  <2>2. Cardinality(under(x) \cup {x}) = Cardinality(under(x)) + 1
    BY <1>2, <2>1, FS_AddElement
  <2>3. Cardinality(under(x) \cup {x}) <= Cardinality(under(y))
    BY <1>2, <2>1, FS_Subset
  <2> QED BY <1>2, <2>2, <2>3
<1>5. ASSUME NEW x \in S, NEW y \in S, rank[x] = rank[y] PROVE x = y
  <2>1. rank[x] \in Int
    BY <1>3, <1>1
  <2> HIDE DEF rank
  <2>2. ~(rank[x] < rank[y]) /\ ~(rank[y] < rank[x])
    BY <1>5, <2>1
  <2> QED BY <1>4, <2>2 DEF StrictOrder
<1>6. rank \in Injection(S, 1..n)
  <2>1. rank \in [S -> 1..n]
    BY <1>3
  <2> HIDE DEF rank
  <2> QED BY <1>5, <2>1 DEF Injection, IsInjective
<1>7. \A k \in 1..n : \E x \in S : rank[x] = k
  <2> HIDE DEF rank
  <2>1. rank \in Surjection(S, 1..n)
    BY <1>1, <1>6, FS_Injection
  <2> QED BY <2>1 DEF Surjection
<1>8. ASSUME NEW k \in 1..n PROVE q[k] \in S /\ rank[q[k]] = k
  <2>1. q[k] = CHOOSE x \in S : ahead[x] = k - 1
    BY DEF Ranked
  <2>2. PICK x \in S : rank[x] = k
    BY <1>7
  <2>3. \A z \in S : rank[z] = ahead[z] + 1 /\ ahead[z] \in Nat
    BY <1>2
  <2>4. ahead[x] = k - 1
    <3> HIDE DEF rank
    <3> QED BY <2>2, <2>3
  <2>5. q[k] \in S /\ ahead[q[k]] = k - 1
    <3> HIDE DEF q
    <3> QED BY <2>1, <2>4
  <2> HIDE DEF rank, q
  <2> QED BY <2>3, <2>5
<1>9. q \in Seq(S) /\ Len(q) = n
  <2> DEFINE at(k) == CHOOSE x \in S : ahead[x] = k - 1
  <2>1. q = [k \in 1..n |-> at(k)]
    BY DEF Ranked
  <2> HIDE DEF q, n, at
  <2>2. q \in [1..n -> S]
    BY <1>8, <2>1
  <2> QED BY <1>1, <2>2
<1> HIDE DEF q, n, rank
<1>10. ASSUME NEW x \in S PROVE \E k \in 1..n : q[k] = x
  <2>1. rank[x] \in 1..n
    BY <1>3 DEF rank
  <2> QED BY <1>5, <1>8, <2>1
<1>11. ASSUME NEW i \in 1..n, NEW j \in 1..n, i < j PROVE <<q[i], q[j]>> \in R
  <2>1. rank[q[i]] = i /\ rank[q[j]] = j /\ q[i] \in S /\ q[j] \in S
    BY <1>8
  <2>2. ~(rank[q[j]] < rank[q[i]]) /\ q[i] # q[j]
    BY <2>1, <1>11, <1>1
  <2> QED BY <1>4, <2>1, <2>2 DEF StrictOrder
<1> QED BY <1>9, <1>10, <1>11 DEF q, n

-----------------------------------------------------------------------------
(* Tables. *)

\* Ranges from left to right.
InLine(q) ==
    /\ \A i \in 1..Len(q) : q[i].lo <= q[i].hi
    /\ \A i, j \in 1..Len(q) : i < j => q[i].hi < q[j].lo

Apart(S) ==
    /\ \A r \in S : r.lo <= r.hi
    /\ \A r, s \in S : r = s \/ r.hi < s.lo \/ s.hi < r.lo

\* The members of S from left to right.
Lines(q, S) ==
    /\ q \in Seq(S) /\ Len(q) = Cardinality(S) /\ InLine(q)
    /\ \A r \in S : \E k \in 1..Len(q) : q[k] = r

LEMMA RowTypes == Rows \subseteq [fam : Families, lo : Nat, hi : Nat, cc : STRING]
BY FilesAssumption DEF Rows

\* For ranges that lie apart it makes no difference by which end they are sorted.
LEMMA ByUpperEnd ==
    ASSUME NEW S, IsFiniteSet(S), S \subseteq Rows, Apart(S)
    PROVE  Lines(InOrder(S, LAMBDA r, s : r.hi < s.hi), S)
<1> DEFINE R == {p \in S \X S : p[1].hi < p[2].hi}
           ahead == [x \in S |-> Cardinality({y \in S : y.hi < x.hi})]
           q == Ranked(S, ahead)
<1>1. \A r \in S : r.lo \in Nat /\ r.hi \in Nat
  BY RowTypes
<1>2. /\ InOrder(S, LAMBDA r, s : r.hi < s.hi) = q
      /\ \A x \in S : ahead[x] = Cardinality({y \in S : <<y, x>> \in R})
  <2>1. \A x \in S : {y \in S : y.hi < x.hi} = {y \in S : <<y, x>> \in R}
    OBVIOUS
  <2>2. InOrder(S, LAMBDA r, s : r.hi < s.hi) = q
    BY DEF InOrder, Ranked
  <2> HIDE DEF R
  <2> QED BY <2>1, <2>2
<1>3. StrictOrder(S, R)
  <2>1. \A x, y \in S : <<x, y>> \in R <=> x.hi < y.hi
    OBVIOUS
  <2> HIDE DEF R
  <2> QED BY <1>1, <2>1 DEF StrictOrder, Apart
<1>4. \A x, y \in S : <<x, y>> \in R => x.hi < y.lo
  BY <1>1 DEF Apart
<1> HIDE DEF R, ahead
<1>5. /\ q \in Seq(S) /\ Len(q) = Cardinality(S)
      /\ \A x \in S : \E k \in 1..Cardinality(S) : q[k] = x
      /\ \A i, j \in 1..Cardinality(S) : i < j => <<q[i], q[j]>> \in R
  BY <1>2, <1>3, RankedOrder
<1> HIDE DEF q
<1>6. \A i \in 1..Len(q) : q[i] \in S
  BY <1>5
<1>7. InLine(q)
  BY <1>4, <1>5, <1>6 DEF InLine, Apart
<1> QED BY <1>2, <1>5, <1>7 DEF Lines

LEMMA ByLowerEnd ==
    ASSUME NEW S, IsFiniteSet(S), S \subseteq Rows, Apart(S)
    PROVE  Lines(InOrder(S, LAMBDA r, s : r.lo < s.lo), S)
<1> DEFINE R == {p \in S \X S : p[1].lo < p[2].lo}
           ahead == [x \in S |-> Cardinality({y \in S : y.lo < x.lo})]
           q == Ranked(S, ahead)
<1>1. \A r \in S : r.lo \in Nat /\ r.hi \in Nat
  BY RowTypes
<1>2. /\ InOrder(S, LAMBDA r, s : r.lo < s.lo) = q
      /\ \A x \in S : ahead[x] = Cardinality({y \in S : <<y, x>> \in R})
  <2>1. \A x \in S : {y \in S : y.lo < x.lo} = {y \in S : <<y, x>> \in R}
    OBVIOUS
  <2>2. InOrder(S, LAMBDA r, s : r.lo < s.lo) = q
    BY DEF InOrder, Ranked
  <2> HIDE DEF R
  <2> QED BY <2>1, <2>2
<1>3. StrictOrder(S, R)
  <2>1. \A x, y \in S : <<x, y>> \in R <=> x.lo < y.lo
    OBVIOUS
  <2> HIDE DEF R
  <2> QED BY <1>1, <2>1 DEF StrictOrder, Apart
<1>4. \A x, y \in S : <<x, y>> \in R => x.hi < y.lo
  BY <1>1 DEF Apart
<1> HIDE DEF R, ahead
<1>5. /\ q \in Seq(S) /\ Len(q) = Cardinality(S)
      /\ \A x \in S : \E k \in 1..Cardinality(S) : q[k] = x
      /\ \A i, j \in 1..Cardinality(S) : i < j => <<q[i], q[j]>> \in R
  BY <1>2, <1>3, RankedOrder
<1> HIDE DEF q
<1>6. \A i \in 1..Len(q) : q[i] \in S
  BY <1>5
<1>7. InLine(q)
  BY <1>4, <1>5, <1>6 DEF InLine, Apart
<1> QED BY <1>2, <1>5, <1>7 DEF Lines

\* The readable rows of one family in a dataset.
GoodRows(m, f) == {r \in ToSet(Files[m]) : Good(r) /\ r.fam = f}

LEMMA FileRows ==
    ASSUME NEW m \in DOMAIN Files
    PROVE  /\ Files[m] \in Seq(Rows) /\ DOMAIN Files[m] = 1..Len(Files[m]) /\ Len(Files[m]) \in Nat
           /\ ToSet(Files[m]) \subseteq Rows /\ IsFiniteSet(ToSet(Files[m]))
<1>1. Files[m] \in Seq(Rows)
  BY FilesAssumption
<1>2. Len(Files[m]) \in Nat /\ Files[m] \in [1..Len(Files[m]) -> Rows]
  BY <1>1, LenProperties
<1>3. ToSet(Files[m]) \subseteq Rows
  BY <1>2 DEF ToSet
<1>4. Files[m] \in Surjection(1..Len(Files[m]), ToSet(Files[m]))
  BY <1>2 DEF Surjection, ToSet
<1> QED BY <1>1, <1>2, <1>3, <1>4, FS_Interval, FS_Surjection

LEMMA GoodRowsApart ==
    ASSUME NEW m \in DOMAIN Files, NEW f \in Families
    PROVE  /\ GoodRows(m, f) \subseteq Rows /\ IsFiniteSet(GoodRows(m, f)) /\ Apart(GoodRows(m, f))
<1>1. GoodRows(m, f) \in SUBSET ToSet(Files[m])
  BY DEF GoodRows
<1>2. GoodRows(m, f) \subseteq Rows /\ IsFiniteSet(GoodRows(m, f))
  BY <1>1, FileRows, FS_Subset
<1>3. ASSUME NEW r \in GoodRows(m, f), NEW s \in GoodRows(m, f)
      PROVE  r = s \/ r.hi < s.lo \/ s.hi < r.lo
  <2>1. PICK i \in DOMAIN Files[m], j \in DOMAIN Files[m] : r = Files[m][i] /\ s = Files[m][j]
    BY DEF GoodRows, ToSet
  <2>2. Good(r) /\ Good(s) /\ r.fam = s.fam
    BY DEF GoodRows
  <2> QED BY <2>1, <2>2, FilesAssumption
<1>4. \A r \in GoodRows(m, f) : r.lo <= r.hi
  BY DEF GoodRows, Good
<1> QED BY <1>2, <1>3, <1>4 DEF Apart

LEMMA TableLines ==
    ASSUME NEW m \in DOMAIN Files, NEW f \in Families
    PROVE  Lines(ParseCSV(Files[m])[f], GoodRows(m, f))
BY GoodRowsApart, ByUpperEnd DEF ParseCSV, GoodRows

\* The rows a rule picks from a table.
Named(m, f, C) == {r \in GoodRows(m, f) : r.cc \in C}

LEMMA PickedLines ==
    ASSUME NEW m \in DOMAIN Files, NEW f \in Families, NEW C
    PROVE  /\ Lines(Picked(ParseCSV(Files[m])[f], C), Named(m, f, C))
           /\ Named(m, f, C) \subseteq Rows /\ IsFiniteSet(Named(m, f, C)) /\ Apart(Named(m, f, C))
<1> DEFINE t == ParseCSV(Files[m])[f]
<1>1. Lines(t, GoodRows(m, f))
  BY TableLines
<1>2. ToSet(t) = GoodRows(m, f)
  <2> HIDE DEF t
  <2>1. DOMAIN t = 1..Len(t) /\ \A k \in 1..Len(t) : t[k] \in GoodRows(m, f)
    BY <1>1, LenProperties DEF Lines
  <2> QED BY <1>1, <2>1 DEF Lines, ToSet
<1> HIDE DEF t
<1>3. Named(m, f, C) = {r \in ToSet(t) : r.cc \in C}
  BY <1>2 DEF Named
<1>4. Named(m, f, C) \in SUBSET GoodRows(m, f)
  BY DEF Named
<1>5. /\ Named(m, f, C) \subseteq Rows /\ IsFiniteSet(Named(m, f, C)) /\ Apart(Named(m, f, C))
  BY <1>4, GoodRowsApart, FS_Subset DEF Apart
<1>6. Lines(InOrder(Named(m, f, C), LAMBDA r, s : r.lo < s.lo), Named(m, f, C))
  BY <1>5, ByLowerEnd
<1> QED BY <1>3, <1>5, <1>6 DEF Picked, t

\* A code is looked up to one of some countries exactly where a row of theirs is.
LEMMA CodeOfRow ==
    ASSUME NEW m \in DOMAIN Files, NEW a \in Addrs, NEW C, NoCode \notin C
    PROVE  Code(ParseCSV(Files[m]), a) \in C
              <=> \E r \in Named(m, a.fam, C) : r.lo <= a.n /\ a.n <= r.hi
<1> DEFINE t == ParseCSV(Files[m])[a.fam]
           ends == {i \in DOMAIN t : t[i].hi >= a.n}
           k == CHOOSE i \in ends : \A j \in ends : i <= j
           code == Code(ParseCSV(Files[m]), a)
<1>1. code = IF ends # {} /\ t[k].lo <= a.n THEN t[k].cc ELSE NoCode
  BY DEF Code
<1>2. a.fam \in Families /\ a.n \in Nat
  BY FilesAssumption DEF Addrs
<1>3. Lines(t, GoodRows(m, a.fam)) /\ GoodRows(m, a.fam) \subseteq Rows
  BY <1>2, TableLines, GoodRowsApart
<1> HIDE DEF t
<1>4. /\ DOMAIN t = 1..Len(t) /\ Len(t) \in Nat
      /\ \A i \in 1..Len(t) : /\ t[i] \in GoodRows(m, a.fam)
                             /\ t[i].lo \in Nat /\ t[i].hi \in Nat
  BY <1>3, RowTypes DEF Lines
<1>5. ends # {} => k \in ends /\ \A j \in ends : k <= j
  <2>1. ends \subseteq Nat
    BY <1>4
  <2> HIDE DEF ends
  <2> QED BY <2>1, LeastNumber
<1> HIDE DEF code, k
<1>6. ASSUME NEW r \in Named(m, a.fam, C), r.lo <= a.n, a.n <= r.hi
      PROVE  code \in C
  <2>1. PICK i \in 1..Len(t) : t[i] = r
    BY <1>3 DEF Lines, Named
  <2>2. i \in ends
    BY <1>2, <1>4, <1>6, <2>1
  <2>3. k \in 1..Len(t) /\ t[k].hi >= a.n /\ k <= i
    BY <1>4, <1>5, <2>2
  <2>4. ~(k < i)
    <3>1. k < i => t[k].hi < t[i].lo
      BY <1>3, <2>3 DEF Lines, InLine
    <3> QED BY <1>2, <1>4, <1>6, <2>1, <2>3, <3>1
  <2>5. t[k] = r
    BY <2>1, <2>3, <2>4
  <2> QED BY <1>1, <1>6, <2>2, <2>5 DEF Named
<1>7. ASSUME code \in C
      PROVE  \E r \in Named(m, a.fam, C) : r.lo <= a.n /\ a.n <= r.hi
  <2>1. ends # {} /\ t[k].lo <= a.n /\ t[k].cc \in C
    BY <1>1, <1>7
  <2>2. k \in 1..Len(t) /\ t[k].hi >= a.n
    BY <1>4, <1>5, <2>1
  <2>3. t[k] \in Named(m, a.fam, C) /\ a.n <= t[k].hi
    BY <1>2, <1>4, <2>1, <2>2 DEF Named
  <2> QED BY <2>1, <2>3
<1> QED BY <1>6, <1>7 DEF code

-----------------------------------------------------------------------------
(* Counting rows. *)

NamedLines(m, C) == {i \in DOMAIN Files[m] : Good(Files[m][i]) /\ Files[m][i].cc \in C}

\* As many lines of the file name the countries as rows of the two tables do.
LEMMA CountedRows ==
    ASSUME NEW m \in DOMAIN Files, NEW C
    PROVE  /\ \A f \in Families : Cardinality(Named(m, f, C)) \in Nat
           /\ IsFiniteSet(NamedLines(m, C))
           /\ Cardinality(NamedLines(m, C))
                = Cardinality(Named(m, "v4", C)) + Cardinality(Named(m, "v6", C))
           /\ NamedLines(m, C) = {} <=> Named(m, "v4", C) = {} /\ Named(m, "v6", C) = {}
<1> DEFINE A == Named(m, "v4", C)
           B == Named(m, "v6", C)
           L == NamedLines(m, C)
           row == [i \in L |-> Files[m][i]]
<1>1. IsFiniteSet(A) /\ IsFiniteSet(B) /\ \A f \in Families : IsFiniteSet(Named(m, f, C))
  BY PickedLines DEF Families
<1>2. A \cap B = {}
  BY DEF Named, GoodRows
<1>3. IsFiniteSet(L)
  <2>1. IsFiniteSet(DOMAIN Files[m])
    BY FileRows, FS_Interval
  <2>2. L \in SUBSET (DOMAIN Files[m])
    BY DEF NamedLines
  <2> HIDE DEF L
  <2> QED BY <2>1, <2>2, FS_Subset
<1>4. \A i \in L : Files[m][i] \in A \cup B
  <2>1. ASSUME NEW i \in L PROVE Files[m][i] \in A \cup B
    <3>1. i \in DOMAIN Files[m] /\ Good(Files[m][i]) /\ Files[m][i].cc \in C
      BY DEF NamedLines
    <3>2. Files[m][i] \in Rows /\ Files[m][i] \in ToSet(Files[m])
      BY <3>1, FileRows DEF ToSet
    <3>3. Files[m][i].fam = "v4" \/ Files[m][i].fam = "v6"
      BY <3>2 DEF Rows, Families
    <3> QED BY <3>1, <3>2, <3>3 DEF Named, GoodRows
  <2> QED BY <2>1
<1>5. \A r \in A \cup B : \E i \in L : Files[m][i] = r
  BY DEF Named, GoodRows, NamedLines, ToSet
<1>6. \A i, j \in L : Files[m][i] = Files[m][j] => i = j
  <2>1. ASSUME NEW i \in L, NEW j \in L, Files[m][i] = Files[m][j], i # j PROVE FALSE
    <3>1. i \in DOMAIN Files[m] /\ j \in DOMAIN Files[m] /\ Good(Files[m][i])
      BY DEF NamedLines
    <3>2. Files[m][i] \in Rows
      BY <3>1, FileRows
    <3>3. Files[m][i].lo \in Nat /\ Files[m][i].hi \in Nat
      BY <3>2, RowTypes
    <3>4. Files[m][i].hi < Files[m][i].lo
      BY <2>1, <3>1, FilesAssumption
    <3> QED BY <3>1, <3>3, <3>4 DEF Good
  <2> QED BY <2>1
<1> HIDE DEF L, A, B
<1>7. row \in Bijection(L, A \cup B)
  <2>1. row \in [L -> A \cup B]
    BY <1>4
  <2>2. \A i \in L : row[i] = Files[m][i]
    OBVIOUS
  <2> HIDE DEF row
  <2> QED BY <1>5, <1>6, <2>1, <2>2 DEF Bijection, Injection, IsInjective, Surjection
<1>8. Cardinality(L) = Cardinality(A \cup B)
  BY <1>3, <1>7, FS_Bijection DEF ExistsBijection
<1>9. Cardinality(A \cup B) = Cardinality(A) + Cardinality(B)
  <2>1. Cardinality(A \cup B) = Cardinality(A) + Cardinality(B) - Cardinality(A \cap B)
    BY <1>1, FS_Union
  <2>2. Cardinality(A \cap B) = 0
    BY <1>2, FS_EmptySet
  <2> QED BY <1>1, <2>1, <2>2, FS_CardinalityType
<1>10. L = {} <=> A = {} /\ B = {}
  BY <1>4, <1>5
<1>11. \A f \in Families : Cardinality(Named(m, f, C)) \in Nat
  BY <1>1, FS_CardinalityType
<1> QED BY <1>3, <1>8, <1>9, <1>10, <1>11 DEF L, A, B

-----------------------------------------------------------------------------
(* Merging. *)

LEMMA LastOne ==
    ASSUME NEW n \in Nat, NEW s \in SUBSET (1..n), s # {}
    PROVE  Max(s) \in s /\ \A x \in s : x <= Max(s)
<1> DEFINE gap == {n - x : x \in s}
<1>1. gap \in SUBSET Nat /\ gap # {}
  <2>1. \A x \in s : n - x \in Nat
    OBVIOUS
  <2> QED BY <2>1
<1>2. PICK d \in gap : \A e \in gap : d <= e
  <2> HIDE DEF gap
  <2> QED BY <1>1, LeastNumber
<1>3. PICK y \in s : d = n - y
  OBVIOUS
<1>4. \A x \in s : y >= x
  BY <1>2, <1>3
<1>5. Max(s) \in s /\ \A x \in s : Max(s) >= x
  BY <1>4 DEF Max
<1> QED BY <1>5

\* What the recursion behind FoldLeft says of the function it goes by.
Merging(f, q, g, D) ==
    g = [s \in D |-> IF s = {} THEN <<>> ELSE Merge(f, g[s \ {Max(s)}], q[Max(s)])]

Smaller(n, k) == {s \in SUBSET (1..n) : Cardinality(s) < k}

\* There is such a function: one for the sets below a size gives one for those of that size.
LEMMA MergingExists ==
    ASSUME NEW n \in Nat, NEW f, NEW q PROVE \E g : Merging(f, q, g, SUBSET (1..n))
<1> DEFINE Bad == {k \in Nat : ~ \E g : Merging(f, q, g, Smaller(n, k))}
<1>1. \A s \in SUBSET (1..n) : IsFiniteSet(s) /\ Cardinality(s) \in Nat
  <2>1. IsFiniteSet(1..n)
    BY FS_Interval
  <2> QED BY <2>1, FS_Subset, FS_CardinalityType
<1>2. ASSUME NEW k \in Nat, NEW s \in Smaller(n, k + 1), s # {}
      PROVE  s \ {Max(s)} \in Smaller(n, k)
  <2>1. s \in SUBSET (1..n) /\ Cardinality(s) < k + 1 /\ s \ {Max(s)} \in SUBSET (1..n)
    BY DEF Smaller
  <2>2. Max(s) \in s
    BY <1>2, <2>1, LastOne
  <2>3. Cardinality(s \ {Max(s)}) = Cardinality(s) - 1
    BY <1>1, <2>1, <2>2, FS_RemoveElement
  <2>4. Cardinality(s \ {Max(s)}) < k
    BY <1>1, <2>1, <2>3
  <2> QED BY <2>1, <2>4 DEF Smaller
<1>3. Bad = {}
  <2> SUFFICES ASSUME Bad # {} PROVE FALSE
    OBVIOUS
  <2>1. PICK m \in Bad : \A k \in Bad : m <= k
    <3>1. Bad \in SUBSET Nat
      OBVIOUS
    <3> HIDE DEF Bad
    <3> QED BY <3>1, LeastNumber
  <2>2. m # 0
    <3>1. Smaller(n, 0) = {}
      BY <1>1 DEF Smaller
    <3>2. Merging(f, q, [s \in {} |-> <<>>], {})
      BY DEF Merging
    <3>3. 0 \notin Bad
      BY <3>1, <3>2
    <3> QED BY <3>3
  <2> DEFINE k == m - 1
  <2>3. k \in Nat /\ m = k + 1 /\ k \notin Bad
    BY <2>1, <2>2
  <2> HIDE DEF k
  <2>4. PICK h : Merging(f, q, h, Smaller(n, k))
    BY <2>3
  <2> DEFINE next(u, s) == IF s = {} THEN <<>> ELSE Merge(f, u[s \ {Max(s)}], q[Max(s)])
             g == [s \in Smaller(n, m) |-> next(h, s)]
  <2>5. \A s \in Smaller(n, k) : h[s] = next(h, s)
    BY <2>4 DEF Merging
  <2>6. \A s \in Smaller(n, k) : s \in Smaller(n, m)
    BY <1>1, <2>3 DEF Smaller
  <2>7. \A s \in Smaller(n, k) : g[s] = h[s]
    BY <2>5, <2>6
  <2>8. \A s \in Smaller(n, m) : next(g, s) = next(h, s)
    <3> HIDE DEF g
    <3> QED BY <1>2, <2>3, <2>7
  <2>9. g = [s \in Smaller(n, m) |-> next(g, s)]
    <3> HIDE DEF next
    <3> QED BY <2>8
  <2>10. Merging(f, q, g, Smaller(n, m))
    <3> HIDE DEF g
    <3> QED BY <2>9 DEF Merging
  <2> QED BY <2>10
<1>4. Smaller(n, n + 1) = SUBSET (1..n)
  <2>1. \A s \in SUBSET (1..n) : Cardinality(s) <= n
    <3>1. IsFiniteSet(1..n) /\ Cardinality(1..n) = n
      BY FS_Interval
    <3> QED BY <3>1, FS_Subset
  <2> QED BY <1>1, <2>1 DEF Smaller
<1>5. \E g : Merging(f, q, g, Smaller(n, n + 1))
  BY <1>3
<1> QED BY <1>4, <1>5

Fold(f, q) == FoldLeft(LAMBDA out, r : Merge(f, out, r), <<>>, q)

ByPrefix(f, q, n, g) ==
    /\ g[0] = <<>> /\ \A k \in 1..n : g[k] = Merge(f, g[k - 1], q[k])
    /\ Fold(f, q) = g[n]

\* FoldLeft goes through a list from its first member to its last.
LEMMA MergedByPrefix ==
    ASSUME NEW n \in Nat, NEW f, NEW q, DOMAIN q = 1..n
    PROVE  \E g : ByPrefix(f, q, n, g)
<1> DEFINE iter == CHOOSE g : Merging(f, q, g, SUBSET (1..n))
<1>1. Fold(f, q) = iter[1..n]
  BY DEF Fold, FoldLeft, MapThenFoldSet, Merging
<1>2. Merging(f, q, iter, SUBSET (1..n))
  BY MergingExists
<1> HIDE DEF iter
<1>3. iter[1..0] = <<>>
  BY <1>2 DEF Merging
<1>4. ASSUME NEW k \in 1..n PROVE iter[1..k] = Merge(f, iter[1..(k - 1)], q[k])
  <2>1. 1..k \in SUBSET (1..n) /\ k \in 1..k
    <3>1. \A x \in 1..k : x \in 1..n
      OBVIOUS
    <3> QED BY <3>1
  <2>2. Max(1..k) = k
    <3>1. Max(1..k) \in 1..k /\ \A x \in 1..k : x <= Max(1..k)
      BY <2>1, LastOne
    <3> HIDE DEF Max
    <3> QED BY <2>1, <3>1
  <2>3. (1..k) \ {k} = 1..(k - 1)
    OBVIOUS
  <2>4. iter[1..k] = Merge(f, iter[(1..k) \ {Max(1..k)}], q[Max(1..k)])
    BY <1>2, <2>1 DEF Merging
  <2> QED BY <2>2, <2>3, <2>4
<1> DEFINE g == [k \in 0..n |-> iter[1..k]]
<1>5. g[0] = <<>> /\ g[n] = iter[1..n] /\ \A k \in 1..n : g[k] = Merge(f, g[k - 1], q[k])
  BY <1>3, <1>4
<1> HIDE DEF g
<1>6. ByPrefix(f, q, n, g)
  BY <1>1, <1>5 DEF ByPrefix
<1> QED BY <1>6

Ranges == [lo : 0..Top, hi : 0..Top]
Covers(q, x) == \E i \in 1..Len(q) : q[i].lo <= x /\ x <= q[i].hi

\* What the first k ranges of p are merged into: ranges that lie apart, the last of which ends
\* where the last of them does, and that have the same addresses.
Merged(out, p, k) ==
    /\ out \in Seq(Ranges) /\ InLine(out) /\ (out = <<>> <=> k = 0)
    /\ k > 0 => out[Len(out)].hi = p[k].hi
    /\ \A x \in Nat : Covers(out, x) <=> \E j \in 1..k : p[j].lo <= x /\ x <= p[j].hi

LEMMA SmallRemainder == ASSUME NEW a \in Nat, NEW b \in Nat, a < b PROVE a % b = a
OBVIOUS

\* The next range is to the right of all there is, so the sum in 32 bits does not overflow.
LEMMA MergeStep ==
    ASSUME NEW f, NEW p \in Seq(Rows), InLine(p), NEW k \in 1..Len(p),
           NEW out, Merged(out, p, k - 1)
    PROVE  Merged(Merge(f, out, p[k]), p, k)
<1> DEFINE r == p[k]
           n == Len(out)
           new == Merge(f, out, r)
           add == [lo |-> r.lo, hi |-> r.hi]
<1>1. /\ r.lo \in 0..Top /\ r.hi \in 0..Top /\ Top \in Nat /\ r.lo <= r.hi /\ k \in Nat
      /\ \A j \in 1..Len(p) : p[j].lo \in Nat /\ p[j].hi \in Nat
  <2>1. r \in Rows /\ k \in 1..Len(p) /\ Len(p) \in Nat /\ \A j \in 1..Len(p) : p[j] \in Rows
    OBVIOUS
  <2>2. Top \in Nat
    BY FilesAssumption
  <2> HIDE DEF r
  <2>3. r.lo <= r.hi
    BY DEF InLine, r
  <2>4. \A e \in Rows : /\ e.lo \in 0..Top /\ e.hi \in 0..Top
                        /\ e.lo \in Nat /\ e.hi \in Nat
    BY <2>2 DEF Rows
  <2> QED BY <2>1, <2>2, <2>3, <2>4
<1>2. /\ out \in Seq(Ranges) /\ n \in Nat
      /\ \A i \in 1..n : out[i] \in Ranges
      /\ \A i \in 1..n : out[i].lo \in Nat /\ out[i].hi \in Nat
  <2>1. out \in Seq(Ranges)
    BY DEF Merged
  <2>2. n \in Nat /\ \A i \in 1..n : out[i] \in Ranges
    BY <2>1
  <2>3. \A e \in Ranges : e.lo \in Nat /\ e.hi \in Nat
    BY <1>1 DEF Ranges
  <2> QED BY <2>1, <2>2, <2>3
<1>3. out # <<>> => /\ n \in 1..n /\ out[n].hi < r.lo /\ Last(out) = out[n]
  <2> SUFFICES ASSUME out # <<>> PROVE n \in 1..n /\ out[n].hi < r.lo /\ Last(out) = out[n]
    OBVIOUS
  <2>1. n \in 1..n
    BY <1>2
  <2>2. k - 1 > 0 /\ k - 1 \in 1..Len(p) /\ out[n].hi = p[k - 1].hi
    BY <1>1 DEF Merged
  <2>3. p[k - 1].hi < r.lo
    BY <1>1, <2>2 DEF InLine
  <2> QED BY <2>1, <2>2, <2>3 DEF Last
<1>4. \A i \in 1..n : out[i].lo <= out[i].hi /\ out[i].hi < r.lo
  <2>1. ASSUME NEW i \in 1..n PROVE out[i].lo <= out[i].hi /\ out[i].hi < r.lo
    <3>1. out[i].lo <= out[i].hi /\ (i < n => out[i].hi < out[n].lo /\ out[n].lo <= out[n].hi)
      BY <1>2 DEF Merged, InLine
    <3>2. out # <<>>
      BY <1>2
    <3>3. n \in 1..n /\ out[n].hi < r.lo
      BY <1>3, <3>2
    <3>4. /\ r.lo \in Nat /\ out[i].lo \in Nat /\ out[i].hi \in Nat
          /\ out[n].lo \in Nat /\ out[n].hi \in Nat /\ n \in Nat /\ i \in 1..n
      BY <1>1, <1>2, <3>3
    <3>5. i = n \/ i < n
      BY <3>4
    <3>6. ASSUME i < n PROVE out[i].hi < r.lo
      <4> HIDE DEF r, n
      <4> QED BY <3>1, <3>3, <3>4, <3>6
    <3> QED BY <3>1, <3>3, <3>5, <3>6
  <2> QED BY <2>1
<1>5. \A i, j \in 1..n : i < j => out[i].hi < out[j].lo
  BY DEF Merged, InLine
<1>6. ASSUME NEW x \in Nat
      PROVE  (\E j \in 1..k : p[j].lo <= x /\ x <= p[j].hi)
                <=> Covers(out, x) \/ (r.lo <= x /\ x <= r.hi)
  <2>1. 1..k = (1..(k - 1)) \cup {k}
    BY <1>1
  <2> QED BY <2>1 DEF Merged
<1> HIDE DEF r
<1>7. CASE out # <<>> /\ Touches(f, r, Last(out).hi)
  <2>1. r.lo = out[n].hi + 1
    <3> DEFINE h == out[n].hi
    <3>range. h \in Nat /\ h + 1 \in Nat /\ Top + 1 \in Nat /\ h + 1 < Top + 1
      BY <1>1, <1>2, <1>3, <1>7
    <3> HIDE DEF h
    <3>1. (h + 1) % (Top + 1) = h + 1
      BY <3>range, SmallRemainder
    <3> USE DEF h
    <3>2. r.lo <= out[n].hi + 1
      BY <1>1, <1>2, <1>3, <1>7, <3>1 DEF Touches
    <3> QED BY <1>1, <1>2, <1>3, <1>7, <3>2
  <2>2. new = [out EXCEPT ![n].hi = r.hi]
    <3>1. r.hi > out[n].hi
      BY <1>1, <1>2, <1>3, <1>7
    <3> QED BY <1>7, <1>2, <1>3, <3>1 DEF Merge
  <2>3. /\ Len(new) = n /\ new \in Seq(Ranges)
        /\ new[n].lo = out[n].lo /\ new[n].hi = r.hi
        /\ \A i \in 1..(n - 1) : new[i] = out[i]
    <3>1. out[n] \in Ranges /\ n \in 1..n
      BY <1>2, <1>3, <1>7
    <3>2. [out[n] EXCEPT !.hi = r.hi] \in Ranges
      BY <1>1, <3>1 DEF Ranges
    <3>3. new = [out EXCEPT ![n] = [out[n] EXCEPT !.hi = r.hi]]
      BY <2>2
    <3> QED BY <1>2, <3>1, <3>2, <3>3
  <2> HIDE DEF new
  <2>4. /\ n \in Nat /\ n \in 1..n /\ r.lo \in Nat /\ r.hi \in Nat /\ r.lo <= r.hi
        /\ \A i \in 1..n : out[i].lo \in Nat /\ out[i].hi \in Nat
    BY <1>1, <1>2, <1>3, <1>7
  <2> HIDE DEF n
  <2>5. /\ \A i \in 1..n : new[i].lo = out[i].lo
        /\ \A i \in 1..n : i # n => new[i].hi = out[i].hi
    <3>1. \A i \in 1..n : i = n \/ i \in 1..(n - 1)
      BY <2>4
    <3> QED BY <2>3, <3>1
  <2>last. /\ out[n].lo \in Nat /\ out[n].hi \in Nat /\ out[n].lo <= out[n].hi /\ out[n].hi < r.lo
        /\ new[n].lo = out[n].lo /\ new[n].hi = r.hi /\ r.lo \in Nat /\ r.hi \in Nat
        /\ r.lo <= r.hi
    BY <1>4, <2>3, <2>4
  <2>6. InLine(new)
    <3>1. \A i \in 1..n : new[i].lo <= new[i].hi
      <4>1. new[n].lo <= new[n].hi
        BY <2>last
      <4> QED BY <1>4, <2>5, <4>1
    <3>2. \A i, j \in 1..n : i < j => new[i].hi < new[j].lo
      <4>1. \A i, j \in 1..n : i < j => i # n
        BY <2>4
      <4> QED BY <1>5, <2>5, <4>1
    <3> QED BY <2>3, <3>1, <3>2 DEF InLine
  <2>7. ASSUME NEW x \in Nat PROVE Covers(new, x) <=> Covers(out, x) \/ (r.lo <= x /\ x <= r.hi)
    <3>1. new[n].lo <= x /\ x <= new[n].hi
             <=> (out[n].lo <= x /\ x <= out[n].hi) \/ (r.lo <= x /\ x <= r.hi)
      BY <2>last, <2>1
    <3>2. \A i \in 1..n : i # n => (new[i].lo <= x /\ x <= new[i].hi <=> out[i].lo <= x /\ x <= out[i].hi)
      BY <2>5
    <3> QED BY <2>3, <2>4, <3>1, <3>2 DEF Covers, n
  <2>8. new # <<>> /\ Len(new) = n
    BY <2>3, <2>4
  <2> QED BY <1>1, <1>6, <2>3, <2>6, <2>7, <2>8 DEF Merged, new, r
<1>8. CASE ~(out # <<>> /\ Touches(f, r, Last(out).hi))
  <2>1. new = Append(out, add)
    BY <1>8 DEF Merge
  <2>2. add \in Ranges /\ add.lo = r.lo /\ add.hi = r.hi
    BY <1>1 DEF Ranges
  <2> HIDE DEF add
  <2>3. /\ Len(new) = n + 1 /\ new \in Seq(Ranges)
        /\ new[n + 1] = add /\ \A i \in 1..n : new[i] = out[i]
    BY <1>2, <2>1, <2>2
  <2> HIDE DEF new
  <2>4. /\ n \in Nat /\ r.lo <= r.hi /\ new[n + 1].lo = r.lo /\ new[n + 1].hi = r.hi
        /\ \A i \in 1..(n + 1) : i = n + 1 \/ i \in 1..n
        /\ \A i \in 1..n : i \in 1..(n + 1) /\ i # n + 1
    BY <1>1, <1>2, <2>2, <2>3
  <2> HIDE DEF n
  <2>5. InLine(new)
    <3>1. \A i \in 1..(n + 1) : new[i].lo <= new[i].hi
      BY <1>4, <2>3, <2>4
    <3>2. \A i, j \in 1..(n + 1) : i < j => new[i].hi < new[j].lo
      <4>1. \A i, j \in 1..(n + 1) : i < j => i \in 1..n
        BY <2>4
      <4> QED BY <1>4, <1>5, <2>3, <2>4, <4>1
    <3> QED BY <2>3, <3>1, <3>2 DEF InLine
  <2>6. ASSUME NEW x \in Nat PROVE Covers(new, x) <=> Covers(out, x) \/ (r.lo <= x /\ x <= r.hi)
    <3>1. Covers(new, x) <=> \E i \in 1..(n + 1) : new[i].lo <= x /\ x <= new[i].hi
      BY <2>3 DEF Covers
    <3>2. Covers(out, x) <=> \E i \in 1..n : out[i].lo <= x /\ x <= out[i].hi
      BY DEF Covers, n
    <3>3. n + 1 \in 1..(n + 1)
      BY <2>4
    <3> QED BY <2>3, <2>4, <3>1, <3>2, <3>3
  <2>7. new # <<>> /\ Len(new) = n + 1
    BY <2>3, <2>4
  <2> QED BY <1>1, <1>6, <2>3, <2>4, <2>5, <2>6, <2>7 DEF Merged, new, r
<1> QED BY <1>7, <1>8 DEF r

\* A merged list lies in order and has the addresses of the rows it was made from.
LEMMA MergedList ==
    ASSUME NEW f, NEW p \in Seq(Rows), InLine(p)
    PROVE  Merged(Fold(f, p), p, Len(p))
<1> DEFINE n == Len(p)
<1>1. n \in Nat /\ DOMAIN p = 1..n
  OBVIOUS
<1> HIDE DEF n
<1>2. PICK g : ByPrefix(f, p, n, g)
  BY <1>1, MergedByPrefix
<1> DEFINE Bad == {k \in Nat : k <= n /\ ~ Merged(g[k], p, k)}
<1>3. Bad = {}
  <2> SUFFICES ASSUME Bad # {} PROVE FALSE
    OBVIOUS
  <2>1. PICK k \in Bad : \A j \in Bad : k <= j
    <3>1. Bad \in SUBSET Nat
      OBVIOUS
    <3> HIDE DEF Bad
    <3> QED BY <3>1, LeastNumber
  <2>2. Merged(<<>>, p, 0)
    <3>1. /\ <<>> \in Seq(Ranges) /\ Len(<<>>) = 0
          /\ ~ \E i \in 1..0 : TRUE
      OBVIOUS
    <3> QED BY <3>1 DEF Merged, InLine, Covers
  <2>3. k # 0 /\ k \in 1..n
    <3>1. k \in Nat /\ k <= n /\ ~ Merged(g[k], p, k)
      BY <2>1
    <3>2. k # 0
      BY <1>2, <2>2, <3>1 DEF ByPrefix
    <3> QED BY <1>1, <3>1, <3>2
  <2>4. k - 1 \in Nat /\ k - 1 <= n /\ k - 1 \notin Bad
    BY <1>1, <2>1, <2>3
  <2>5. Merged(g[k - 1], p, k - 1)
    BY <2>4
  <2>6. Merged(Merge(f, g[k - 1], p[k]), p, k)
    BY <2>3, <2>5, MergeStep DEF n
  <2> QED BY <1>2, <2>1, <2>3, <2>6 DEF ByPrefix
<1>4. Merged(g[n], p, n)
  BY <1>1, <1>3
<1> QED BY <1>2, <1>4 DEF ByPrefix, n

-----------------------------------------------------------------------------
(* Searching. *)

Within(q, x, lo, hi) == \E i \in lo..hi : q[i].lo <= x /\ x <= q[i].hi

\* What the search says of the function it goes by, at the places w.
Probe(q, x, g, w) ==
    LET lo == w[1]  hi == w[2]  mid == (lo + hi) \div 2
    IN  IF lo > hi THEN FALSE
        ELSE IF x < q[mid].lo THEN g[<<lo, mid - 1>>]
        ELSE IF x > q[mid].hi THEN g[<<mid + 1, hi>>]
        ELSE TRUE
Searching(q, x, g) ==
    g = [w \in (1..(Len(q) + 1)) \X (0..Len(q)) |-> Probe(q, x, g, w)]

LEMMA MidBetween ==
    ASSUME NEW n \in Nat, NEW lo \in 1..(n + 1), NEW hi \in 0..n, lo <= hi
    PROVE  /\ (lo + hi) \div 2 \in lo..hi /\ (lo + hi) \div 2 \in 1..n
           /\ (lo + hi) \div 2 - 1 \in 0..n /\ (lo + hi) \div 2 + 1 \in 1..(n + 1)
OBVIOUS

\* Half of the ranges between two places can be left aside.
LEMMA HalfIsLeft ==
    ASSUME NEW q \in Seq(Ranges), InLine(q), NEW x \in Nat,
           NEW lo \in 1..(Len(q) + 1), NEW hi \in 0..Len(q), NEW mid \in lo..hi
    PROVE  /\ x < q[mid].lo => (Within(q, x, lo, hi) <=> Within(q, x, lo, mid - 1))
           /\ x > q[mid].hi => (Within(q, x, lo, hi) <=> Within(q, x, mid + 1, hi))
           /\ ~(x < q[mid].lo) /\ ~(x > q[mid].hi) => Within(q, x, lo, hi)
<1> DEFINE n == Len(q)
<1>1. /\ n \in Nat /\ mid \in 1..n
      /\ \A i \in lo..hi : i \in 1..n
  OBVIOUS
<1>2. \A i \in 1..n : q[i].lo \in Nat /\ q[i].hi \in Nat
  <2>1. \A i \in 1..n : q[i] \in Ranges
    OBVIOUS
  <2>2. \A e \in Ranges : e.lo \in Nat /\ e.hi \in Nat
    BY FilesAssumption DEF Ranges
  <2> QED BY <2>1, <2>2
<1>3. \A i \in 1..n : q[i].lo <= q[i].hi
  BY DEF InLine
<1>4. \A i, j \in 1..n : i < j => q[i].hi < q[j].lo
  BY DEF InLine
<1> HIDE DEF n
<1>5. ASSUME x < q[mid].lo PROVE Within(q, x, lo, hi) <=> Within(q, x, lo, mid - 1)
  <2>1. \A i \in lo..hi : i < mid \/ i = mid \/ mid < i
    BY <1>1
  <2>2. ASSUME NEW i \in lo..hi, q[i].lo <= x PROVE i < mid
    <3>1. i \in 1..n /\ (i < mid \/ i = mid \/ mid < i)
      BY <1>1, <2>1
    <3>2. /\ q[i].lo \in Nat /\ q[mid].lo \in Nat /\ q[mid].hi \in Nat /\ q[mid].lo <= q[mid].hi
          /\ mid < i => q[mid].hi < q[i].lo
      BY <1>1, <1>2, <1>3, <1>4, <3>1
    <3> QED BY <1>5, <2>2, <3>1, <3>2
  <2>3. \A i \in lo..hi : i < mid <=> i \in lo..(mid - 1)
    BY <1>1
  <2>4. \A i \in lo..(mid - 1) : i \in lo..hi
    BY <1>1
  <2> QED BY <2>2, <2>3, <2>4 DEF Within
<1>6. ASSUME x > q[mid].hi PROVE Within(q, x, lo, hi) <=> Within(q, x, mid + 1, hi)
  <2>1. \A i \in lo..hi : i < mid \/ i = mid \/ mid < i
    BY <1>1
  <2>2. ASSUME NEW i \in lo..hi, x <= q[i].hi PROVE mid < i
    <3>1. i \in 1..n /\ (i < mid \/ i = mid \/ mid < i)
      BY <1>1, <2>1
    <3>2. /\ q[i].hi \in Nat /\ q[mid].lo \in Nat /\ q[mid].hi \in Nat /\ q[mid].lo <= q[mid].hi
          /\ i < mid => q[i].hi < q[mid].lo
      BY <1>1, <1>2, <1>3, <1>4, <3>1
    <3> QED BY <1>6, <2>2, <3>1, <3>2
  <2>3. \A i \in lo..hi : mid < i <=> i \in (mid + 1)..hi
    BY <1>1
  <2>4. \A i \in (mid + 1)..hi : i \in lo..hi
    BY <1>1
  <2> QED BY <2>2, <2>3, <2>4 DEF Within
<1>7. ~(x < q[mid].lo) /\ ~(x > q[mid].hi) => Within(q, x, lo, hi)
  <2>1. q[mid].lo \in Nat /\ q[mid].hi \in Nat
    BY <1>1, <1>2
  <2> QED BY <2>1 DEF Within
<1> QED BY <1>5, <1>6, <1>7

\* At every two places the search goes by a function that answers as Within does.
LEMMA ProbeWithin ==
    ASSUME NEW q \in Seq(Ranges), InLine(q), NEW x \in Nat, NEW g,
           NEW lo \in 1..(Len(q) + 1), NEW hi \in 0..Len(q),
           \A a \in 1..(Len(q) + 1), b \in 0..Len(q) :
              lo <= hi /\ b - a < hi - lo => g[<<a, b>>] = Within(q, x, a, b)
    PROVE  Probe(q, x, g, <<lo, hi>>) = Within(q, x, lo, hi)
<1> DEFINE n == Len(q)
           mid == (lo + hi) \div 2
<1>1. Probe(q, x, g, <<lo, hi>>) = IF lo > hi THEN FALSE
                                   ELSE IF x < q[mid].lo THEN g[<<lo, mid - 1>>]
                                   ELSE IF x > q[mid].hi THEN g[<<mid + 1, hi>>]
                                   ELSE TRUE
  BY DEF Probe
<1>2. n \in Nat
  OBVIOUS
<1> HIDE DEF n
<1>3. CASE lo > hi
  <2>1. lo..hi = {}
    BY <1>3, <1>2
  <2>2. Within(q, x, lo, hi) = FALSE
    BY <2>1, Zenon DEF Within
  <2> QED BY <1>1, <1>3, <2>2, Zenon
<1>4. CASE ~(lo > hi)
  <2>1. mid \in lo..hi /\ mid - 1 \in 0..n /\ mid + 1 \in 1..(n + 1)
    <3>1. lo <= hi
      BY <1>2, <1>4 DEF n
    <3> QED BY <1>2, <3>1, MidBetween DEF n
  <2> HIDE DEF mid
  <2>2. /\ g[<<lo, mid - 1>>] = Within(q, x, lo, mid - 1)
        /\ g[<<mid + 1, hi>>] = Within(q, x, mid + 1, hi)
    <3>1. lo <= hi /\ (mid - 1) - lo < hi - lo /\ hi - (mid + 1) < hi - lo
      BY <1>2, <1>4, <2>1 DEF n
    <3> QED BY <2>1, <3>1, Zenon DEF n
  <2>3. /\ x < q[mid].lo => (Within(q, x, lo, hi) <=> Within(q, x, lo, mid - 1))
        /\ x > q[mid].hi => (Within(q, x, lo, hi) <=> Within(q, x, mid + 1, hi))
        /\ ~(x < q[mid].lo) /\ ~(x > q[mid].hi) => Within(q, x, lo, hi)
    BY <2>1, HalfIsLeft, Zenon
  <2>4. /\ Within(q, x, lo, hi) \in BOOLEAN /\ Within(q, x, lo, mid - 1) \in BOOLEAN
        /\ Within(q, x, mid + 1, hi) \in BOOLEAN
    BY Zenon DEF Within
  <2> QED BY <1>1, <1>4, <2>2, <2>3, <2>4, Zenon
<1> QED BY <1>3, <1>4

\* There is a function the search can go by.
LEMMA SearchExists ==
    ASSUME NEW q \in Seq(Ranges), InLine(q), NEW x \in Nat PROVE \E g : Searching(q, x, g)
<1> DEFINE places == (1..(Len(q) + 1)) \X (0..Len(q))
           g == [w \in places |-> Within(q, x, w[1], w[2])]
<1>1. ASSUME NEW a \in 1..(Len(q) + 1), NEW b \in 0..Len(q)
      PROVE  g[<<a, b>>] = Within(q, x, a, b)
  <2>1. <<a, b>> \in places /\ <<a, b>>[1] = a /\ <<a, b>>[2] = b
    OBVIOUS
  <2> HIDE DEF places
  <2>2. g[<<a, b>>] = Within(q, x, <<a, b>>[1], <<a, b>>[2])
    BY <2>1, Zenon
  <2> QED BY <2>1, <2>2, Zenon
<1>2. ASSUME NEW w \in places PROVE Within(q, x, w[1], w[2]) = Probe(q, x, g, w)
  <2>1. w[1] \in 1..(Len(q) + 1) /\ w[2] \in 0..Len(q) /\ w = <<w[1], w[2]>>
    OBVIOUS
  <2> HIDE DEF g
  <2>2. Probe(q, x, g, <<w[1], w[2]>>) = Within(q, x, w[1], w[2])
    BY <1>1, <2>1, ProbeWithin, Zenon
  <2> QED BY <2>1, <2>2, Zenon
<1>3. g = [w \in places |-> Probe(q, x, g, w)]
  BY <1>2, Zenon
<1> HIDE DEF g
<1> QED BY <1>3, Zenon DEF Searching

\* in_v4 and in_v6 (geo.lua) say of every address whether a range of the list has it, for
\* every list of ranges that lie apart, whatever its length.
THEOREM SearchFinds ==
    ASSUME NEW q \in Seq(Ranges), InLine(q), NEW x \in Nat PROVE InList(q, x) = Covers(q, x)
<1> DEFINE n == Len(q)
           g == CHOOSE h : Searching(q, x, h)
           A == 1..(n + 1)
           B == 0..n
<1>1. InList(q, x) = g[<<1, n>>]
  BY DEF InList, Searching, Probe
<1>2. Searching(q, x, g)
  BY SearchExists
<1> HIDE DEF g
<1>3. \A a \in A, b \in B : g[<<a, b>>] = Probe(q, x, g, <<a, b>>)
  BY <1>2 DEF Searching
<1>4. n \in Nat
  OBVIOUS
<1> HIDE DEF n
<1> DEFINE Bad == {d \in Nat : \E a \in A, b \in B :
                      d = b - a + n + 1 /\ g[<<a, b>>] # Within(q, x, a, b)}
<1>5. Bad = {}
  <2> SUFFICES ASSUME Bad # {} PROVE FALSE
    OBVIOUS
  <2>1. PICK d \in Bad : \A e \in Bad : d <= e
    <3>1. Bad \in SUBSET Nat
      OBVIOUS
    <3> HIDE DEF Bad
    <3> QED BY <3>1, LeastNumber
  <2>2. PICK lo \in A, hi \in B : d = hi - lo + n + 1 /\ g[<<lo, hi>>] # Within(q, x, lo, hi)
    BY <2>1
  <2>3. ASSUME NEW a \in A, NEW b \in B, b - a < hi - lo
        PROVE  g[<<a, b>>] = Within(q, x, a, b)
    <3>1. b - a + n + 1 \in Nat /\ ~(d <= b - a + n + 1)
      <4>1. a \in 1..(n + 1) /\ b \in 0..n /\ lo \in 1..(n + 1) /\ hi \in 0..n
        OBVIOUS
      <4>2. d = hi - lo + n + 1
        BY <2>2
      <4> QED BY <1>4, <2>3, <4>1, <4>2
    <3>2. b - a + n + 1 \notin Bad
      <4> HIDE DEF Bad
      <4> QED BY <2>1, <3>1
    <3> QED BY <3>1, <3>2
  <2>4. Probe(q, x, g, <<lo, hi>>) = Within(q, x, lo, hi)
    <3>1. \A a \in 1..(Len(q) + 1), b \in 0..Len(q) :
             lo <= hi /\ b - a < hi - lo => g[<<a, b>>] = Within(q, x, a, b)
      BY <2>3, Zenon DEF n
    <3>2. lo \in 1..(Len(q) + 1) /\ hi \in 0..Len(q)
      BY DEF n
    <3> QED BY <3>1, <3>2, ProbeWithin, Zenon
  <2> QED BY <1>3, <2>2, <2>4
<1>6. 1 \in A /\ n \in B /\ n - 1 + n + 1 \in Nat
  BY <1>4
<1>7. g[<<1, n>>] = Within(q, x, 1, n)
  BY <1>5, <1>6
<1> QED BY <1>1, <1>7, Zenon DEF Within, Covers, n

-----------------------------------------------------------------------------
(* What a country rule is compiled to. *)

CompiledList(m, f, C) == Fold(f, Picked(ParseCSV(Files[m])[f], C))

LEMMA CompiledListIs ==
    ASSUME NEW m \in DOMAIN Files, NEW f \in Families, NEW C
    PROVE  LET q == CompiledList(m, f, C) IN
           /\ Len(Picked(ParseCSV(Files[m])[f], C)) = Cardinality(Named(m, f, C))
           /\ q \in Seq(Ranges) /\ InLine(q) /\ (q = <<>> <=> Named(m, f, C) = {})
           /\ \A x \in Nat : Covers(q, x) <=> \E r \in Named(m, f, C) : r.lo <= x /\ x <= r.hi
<1> DEFINE p == Picked(ParseCSV(Files[m])[f], C)
           S == Named(m, f, C)
           q == CompiledList(m, f, C)
<1>1. Lines(p, S) /\ S \subseteq Rows /\ IsFiniteSet(S)
  BY PickedLines
<1> HIDE DEF p, S
<1>2. p \in Seq(Rows) /\ InLine(p) /\ Len(p) = Cardinality(S)
  BY <1>1 DEF Lines
<1>3. Merged(q, p, Len(p))
  BY <1>2, MergedList DEF CompiledList, p
<1> HIDE DEF q
<1>4. q = <<>> <=> S = {}
  BY <1>1, <1>2, <1>3, FS_EmptySet DEF Merged
<1>5. ASSUME NEW x \in Nat
      PROVE  Covers(q, x) <=> \E r \in S : r.lo <= x /\ x <= r.hi
  <2>1. /\ \A j \in 1..Len(p) : p[j] \in S
        /\ \A r \in S : \E j \in 1..Len(p) : p[j] = r
    BY <1>1 DEF Lines
  <2>2. Covers(q, x) <=> \E j \in 1..Len(p) : p[j].lo <= x /\ x <= p[j].hi
    BY <1>3 DEF Merged
  <2> QED BY <2>1, <2>2
<1> QED BY <1>2, <1>3, <1>4, <1>5 DEF Merged, p, S, q

\* A rule is compiled unless it cannot be answered: no dataset, none of its countries in it,
\* or more rows than a rule may have.
LEMMA CompiledSet ==
    ASSUME NEW src, src.data \in DOMAIN Files, NEW C
    PROVE  /\ RangesFor(src, C) # NoSet <=> CanName(src, C)
           /\ CanName(src, C) => \A f \in Families :
                 RangesFor(src, C)[f] = CompiledList(src.data, f, C)
<1> DEFINE m == src.data
           set == RangesFor(src, C)
           built == [f \in Families |-> CompiledList(m, f, C)]
           a == Cardinality(Named(m, "v4", C))
           b == Cardinality(Named(m, "v6", C))
<1>1. m \in DOMAIN Files /\ m # 0
  BY FilesAssumption
<1>2. /\ ParseCSV(Files[m]).v4 = ParseCSV(Files[m])["v4"]
      /\ ParseCSV(Files[m]).v6 = ParseCSV(Files[m])["v6"]
  OBVIOUS
<1>3. "v4" \in Families /\ "v6" \in Families /\ \A f \in Families : f \in {"v4", "v6"}
  BY DEF Families
<1>4. set = IF a + b > MaxRanges THEN NoSet ELSE built
  <2>1. set = IF Len(Picked(ParseCSV(Files[m])["v4"], C)) + Len(Picked(ParseCSV(Files[m])["v6"], C))
                   > MaxRanges
              THEN NoSet ELSE built
    BY <1>1, <1>2 DEF RangesFor, Data, SetFor, CompiledList, Fold
  <2>2. /\ Len(Picked(ParseCSV(Files[m])["v4"], C)) = a
        /\ Len(Picked(ParseCSV(Files[m])["v6"], C)) = b
    BY <1>1, <1>3, CompiledListIs
  <2> HIDE DEF set, built, a, b
  <2> QED BY <2>1, <2>2
<1>5. CanName(src, C) <=> NamedLines(m, C) # {} /\ Cardinality(NamedLines(m, C)) <= MaxRanges
  BY <1>1 DEF CanName, NamedLines
<1>6. /\ a \in Nat /\ b \in Nat /\ Cardinality(NamedLines(m, C)) = a + b
      /\ NamedLines(m, C) = {} <=> Named(m, "v4", C) = {} /\ Named(m, "v6", C) = {}
  BY <1>1, <1>3, CountedRows
<1>7. \A f \in Families : built[f] = CompiledList(m, f, C)
                          /\ (built[f] = <<>> <=> Named(m, f, C) = {})
  BY <1>1, CompiledListIs
<1>8. built # NoSet <=> NamedLines(m, C) # {}
  <2>1. NoSet["v4"] = <<>> /\ NoSet["v6"] = <<>>
    BY DEF NoSet
  <2>2. ASSUME built["v4"] = <<>>, built["v6"] = <<>> PROVE built = NoSet
    <3>1. NoSet = [f \in Families |-> <<>>]
      BY DEF NoSet, Families
    <3>2. \A f \in Families : CompiledList(m, f, C) = <<>>
      BY <1>3, <1>7, <2>2
    <3> QED BY <3>1, <3>2
  <2> HIDE DEF built
  <2> QED BY <1>3, <1>6, <1>7, <2>1, <2>2
<1> HIDE DEF built, set, a, b, m
<1>9. MaxRanges \in Nat
  BY FilesAssumption
<1> QED BY <1>4, <1>5, <1>6, <1>7, <1>8, <1>9 DEF set, m

LEMMA InByCode ==
    ASSUME NEW src, NEW C, NoCode \notin C, NEW a
    PROVE  IsIn(src, C, a) <=> CanName(src, C) /\ Code(Data(src), a) \in C
BY Zenon DEF IsIn, Lookup

\* The set the data plane gets (geosets.go SetFor) says of every address what Lookup says, and
\* "nil" for the family in which the rule knows nobody; and there is no set exactly if the rule
\* cannot be answered.
THEOREM CompiledAnswers ==
    ASSUME NEW src, src.data \in 0..Len(Files), NEW C, NoCode \notin C, NEW a \in Addrs
    PROVE  LET set == RangesFor(src, C) IN
           /\ set # NoSet <=> CanName(src, C)
           /\ GeoContains(set, a) = "in" <=> IsIn(src, C, a)
           /\ GeoContains(set, a) = "out" <=> Known(src, C, a.fam) /\ ~ IsIn(src, C, a)
<1> DEFINE set == RangesFor(src, C)
           m == src.data
<1>1. a.fam \in Families /\ a.n \in Nat /\ DOMAIN Files = 1..Len(Files) /\ Len(Files) \in Nat
  <2>1. Files \in Seq(Seq(Rows)) /\ Top \in Nat
    BY FilesAssumption
  <2> QED BY <2>1 DEF Addrs
<1>2. CASE ~ CanName(src, C)
  <2>1. set = NoSet
    <3>1. CASE m = 0
      BY <3>1 DEF RangesFor
    <3>2. CASE m \in DOMAIN Files
      BY <1>2, <3>2, CompiledSet
    <3> QED BY <1>1, <3>1, <3>2
  <2>2. \A f \in Families : NoSet[f] = <<>>
    BY DEF NoSet, Families
  <2>3. GeoContains(set, a) = "nil"
    BY <1>1, <2>1, <2>2 DEF GeoContains
  <2>4. ~ Known(src, C, a.fam) /\ ~ IsIn(src, C, a)
    BY <1>2, Zenon DEF Known, IsIn
  <2> HIDE DEF set
  <2> QED BY <1>2, <2>1, <2>3, <2>4 DEF set
<1>3. CASE CanName(src, C)
  <2>1. m \in DOMAIN Files
    BY <1>1, <1>3 DEF CanName
  <2> DEFINE q == CompiledList(m, a.fam, C)
  <2>2. set # NoSet /\ set[a.fam] = q
    BY <1>1, <1>3, <2>1, CompiledSet
  <2>3. /\ q \in Seq(Ranges) /\ InLine(q) /\ (q = <<>> <=> Named(m, a.fam, C) = {})
        /\ \A x \in Nat : Covers(q, x) <=> \E r \in Named(m, a.fam, C) : r.lo <= x /\ x <= r.hi
    BY <1>1, <2>1, CompiledListIs
  <2> HIDE DEF set, q
  <2>4. GeoContains(set, a) = IF q = <<>> THEN "nil" ELSE IF Covers(q, a.n) THEN "in" ELSE "out"
    <3>1. InList(q, a.n) = Covers(q, a.n)
      BY <1>1, <2>3, SearchFinds
    <3> QED BY <2>2, <3>1, Zenon DEF GeoContains
  <2>5. ASSUME NEW b \in Addrs, b.fam = a.fam
        PROVE  IsIn(src, C, b) <=> \E r \in Named(m, a.fam, C) : r.lo <= b.n /\ b.n <= r.hi
    <3>1. IsIn(src, C, b) <=> Code(ParseCSV(Files[m]), b) \in C
      BY <1>3, InByCode DEF Data
    <3> QED BY <2>1, <2>5, <3>1, CodeOfRow
  <2>6. Covers(q, a.n) <=> IsIn(src, C, a)
    BY <1>1, <2>3, <2>5
  <2>7. Known(src, C, a.fam) <=> Named(m, a.fam, C) # {}
    <3>1. ASSUME NEW r \in Named(m, a.fam, C) PROVE Known(src, C, a.fam)
      <4> DEFINE b == [fam |-> a.fam, n |-> r.lo]
      <4>1. r \in Rows /\ r.lo <= r.hi
        BY <1>1, <2>1, GoodRowsApart DEF Named, Apart
      <4>2. b \in Addrs /\ b.fam = a.fam /\ b.n = r.lo /\ r.lo \in Nat
        BY <1>1, <4>1, RowTypes DEF Addrs, Rows
      <4> HIDE DEF b
      <4>3. IsIn(src, C, b)
        BY <2>5, <4>1, <4>2
      <4> QED BY <4>2, <4>3 DEF Known
    <3>2. ASSUME Known(src, C, a.fam) PROVE Named(m, a.fam, C) # {}
      BY <2>5, <3>2 DEF Known
    <3> QED BY <3>1, <3>2
  <2>8. IsIn(src, C, a) => q # <<>>
    BY <1>1, <2>3, <2>6
  <2> QED BY <1>3, <2>2, <2>3, <2>4, <2>6, <2>7, <2>8 DEF set
<1> QED BY <1>2, <1>3

-----------------------------------------------------------------------------
(* The first rule that matches. *)

Table(src) == {src.rules[i] : i \in RuleIds} \ {NoRule}

TableOK(src) == src.rules \in [RuleIds -> {NoRule} \cup StoredRules] /\ BornApart(src.rules)

\* Before orders the rules of a table: where priorities are the same, created_at decides.
LEMMA TableOrder ==
    ASSUME NEW src, TableOK(src), NEW S \in SUBSET Table(src)
    PROVE  /\ IsFiniteSet(S) /\ S \subseteq StoredRules
           /\ StrictOrder(S, {p \in S \X S : Before(p[1], p[2])})
<1> DEFINE R == {p \in S \X S : Before(p[1], p[2])}
           g == [i \in RuleIds |-> src.rules[i]]
<1>1. IsFiniteSet(S)
  <2>1. g \in Surjection(RuleIds, {src.rules[i] : i \in RuleIds})
    BY DEF Surjection
  <2>2. IsFiniteSet({src.rules[i] : i \in RuleIds})
    <3> HIDE DEF g
    <3> QED BY <2>1, PolicyAssumption, FS_Surjection
  <2>3. S \in SUBSET {src.rules[i] : i \in RuleIds}
    BY DEF Table
  <2> QED BY <2>2, <2>3, FS_Subset
<1>2. S \subseteq StoredRules
  BY DEF Table, TableOK
<1>3. \A r, s \in S : r = s \/ r.born # s.born
  <2>1. ASSUME NEW r \in S, NEW s \in S, r # s PROVE r.born # s.born
    <3>1. PICK i \in RuleIds, j \in RuleIds : r = src.rules[i] /\ s = src.rules[j]
      BY DEF Table
    <3>2. r # NoRule /\ s # NoRule
      BY DEF Table
    <3> QED BY <2>1, <3>1, <3>2 DEF TableOK, BornApart
  <2> QED BY <2>1
<1>4. \A r \in S : r.prio \in Int /\ r.born \in Int
  BY <1>2, BottomType DEF StoredRules
<1>5. \A r, s \in S : <<r, s>> \in R <=> Before(r, s)
  OBVIOUS
<1> HIDE DEF R
<1>6. StrictOrder(S, R)
  BY <1>3, <1>4, <1>5 DEF StrictOrder, Before
<1> QED BY <1>1, <1>2, <1>6 DEF R

\* Rules in the operator's order.
LEMMA RulesInOrder ==
    ASSUME NEW src, TableOK(src), NEW S \in SUBSET Table(src)
    PROVE  LET q == InOrder(S, Before) IN
           /\ DOMAIN q = 1..Cardinality(S) /\ Cardinality(S) \in Nat
           /\ \A k \in 1..Cardinality(S) : q[k] \in S
           /\ \A r \in S : \E k \in 1..Cardinality(S) : q[k] = r
           /\ \A i, j \in 1..Cardinality(S) : i < j => Before(q[i], q[j])
<1> DEFINE R == {p \in S \X S : Before(p[1], p[2])}
           ahead == [x \in S |-> Cardinality({y \in S : Before(y, x)})]
           q == Ranked(S, ahead)
<1>1. IsFiniteSet(S) /\ StrictOrder(S, R)
  BY TableOrder
<1>2. /\ InOrder(S, Before) = q
      /\ \A x \in S : ahead[x] = Cardinality({y \in S : <<y, x>> \in R})
  <2>1. \A x \in S : {y \in S : Before(y, x)} = {y \in S : <<y, x>> \in R}
    OBVIOUS
  <2>2. InOrder(S, Before) = q
    BY DEF InOrder, Ranked
  <2> HIDE DEF R
  <2> QED BY <2>1, <2>2
<1>3. \A x, y \in S : <<x, y>> \in R => Before(x, y)
  OBVIOUS
<1> HIDE DEF R, ahead
<1>4. /\ q \in Seq(S) /\ Len(q) = Cardinality(S)
      /\ \A x \in S : \E k \in 1..Cardinality(S) : q[k] = x
      /\ \A i, j \in 1..Cardinality(S) : i < j => <<q[i], q[j]>> \in R
  BY <1>1, <1>2, RankedOrder
<1> HIDE DEF q
<1>5. /\ DOMAIN q = 1..Cardinality(S) /\ Cardinality(S) \in Nat
      /\ \A i \in 1..Cardinality(S) : q[i] \in S
  BY <1>4
<1> QED BY <1>2, <1>3, <1>4, <1>5

LEMMA CountryCondition ==
    ASSUME NEW r \in StoredRules, r.cond.field = "country"
    PROVE  r.cond.val \in CountryLists /\ NoCode \notin r.cond.val
<1>1. r.cond \in Conditions
  BY DEF StoredRules
<1>2. r.cond.val \in CountryLists
  BY <1>1 DEF Conditions
<1> QED BY <1>2, PolicyAssumption

Matching(src, a) ==
    {r \in {src.rules[i] : i \in RuleIds} \ {NoRule} :
        /\ r.on
        /\ \/ r.cond.field = "ip" /\ a \in r.cond.val
           \/ r.cond.field = "crawler" /\ (a \in src.crawl) = r.cond.val
           \/ r.cond.field = "country" /\ IsIn(src, r.cond.val, a)}
First(src, a) == {r \in Matching(src, a) : \A s \in Matching(src, a) \ {r} : Before(r, s)}
Usable(src) ==
    {r \in {src.rules[i] : i \in RuleIds} \ {NoRule} :
        r.on /\ (r.cond.field = "country" => RangesFor(src, r.cond.val) # NoSet)}

\* A rule that is left out matches nobody.
LEMMA UsableMatch ==
    ASSUME NEW src, TableOK(src), src.data \in 0..Len(Files), NEW a \in Addrs
    PROVE  /\ \A r \in Usable(src) : Holds(src, r.cond, a) => r \in Matching(src, a)
           /\ \A r \in Matching(src, a) : r \in Usable(src) /\ Holds(src, r.cond, a)
<1>1. ASSUME NEW r \in Table(src), r.cond.field = "country"
      PROVE  /\ RangesFor(src, r.cond.val) # NoSet <=> CanName(src, r.cond.val)
             /\ GeoContains(RangesFor(src, r.cond.val), a) = "in" <=> IsIn(src, r.cond.val, a)
             /\ IsIn(src, r.cond.val, a) => CanName(src, r.cond.val)
  <2>1. r \in StoredRules
    BY DEF Table, TableOK
  <2>2. NoCode \notin r.cond.val
    BY <1>1, <2>1, CountryCondition
  <2>3. IsIn(src, r.cond.val, a) => CanName(src, r.cond.val)
    BY Zenon DEF IsIn
  <2> QED BY <2>2, <2>3, CompiledAnswers
<1>2. ASSUME NEW r \in Table(src), r.on
      PROVE  r \in Usable(src) /\ Holds(src, r.cond, a) <=> r \in Matching(src, a)
  BY <1>1, <1>2, Zenon DEF Usable, Matching, Holds, Table
<1>3. /\ \A r \in Usable(src) : r \in Table(src) /\ r.on
      /\ \A r \in Matching(src, a) : r \in Table(src) /\ r.on
  BY Zenon DEF Usable, Matching, Table
<1> QED BY <1>2, <1>3, Zenon

Acts(src, a) ==
    LET access == BuildAccessRules(src)
        hits == {i \in DOMAIN access : Holds(src, access[i].cond, a)}
    IN  IF hits = {} THEN "none" ELSE access[CHOOSE i \in hits : \A j \in hits : i <= j].action

\* The first hit in the compiled list is the rule that all others that match come after.
LEMMA FirstHit ==
    ASSUME NEW src, TableOK(src), src.data \in 0..Len(Files), NEW a \in Addrs,
           NEW act, act # "none"
    PROVE  Acts(src, a) = act <=> \E r \in First(src, a) : r.action = act
<1> DEFINE q == BuildAccessRules(src)
           S == Usable(src)
           n == Cardinality(S)
           hits == {i \in DOMAIN q : Holds(src, q[i].cond, a)}
           k == CHOOSE i \in hits : \A j \in hits : i <= j
           M == Matching(src, a)
<1>1. Acts(src, a) = IF hits = {} THEN "none" ELSE q[k].action
  BY DEF Acts
<1>2. q = InOrder(S, Before)
  BY DEF BuildAccessRules, Usable
<1>3. S \in SUBSET Table(src) /\ M \in SUBSET Table(src)
  BY DEF Usable, Matching, Table
<1> HIDE DEF q, S, M
<1>4. /\ DOMAIN q = 1..n /\ n \in Nat
      /\ \A i \in 1..n : q[i] \in S
      /\ \A r \in S : \E i \in 1..n : q[i] = r
      /\ \A i, j \in 1..n : i < j => Before(q[i], q[j])
  BY <1>2, <1>3, RulesInOrder
<1> HIDE DEF n
<1>5. /\ \A i \in hits : i \in 1..n /\ q[i] \in M
      /\ \A r \in M : \E i \in hits : q[i] = r
  BY <1>4, UsableMatch DEF S, M
<1>6. hits # {} => k \in hits /\ \A j \in hits : k <= j
  <2>1. hits \in SUBSET Nat
    BY <1>5
  <2> HIDE DEF hits
  <2> QED BY <2>1, LeastNumber
<1> HIDE DEF hits, k
<1>7. First(src, a) = {r \in M : \A s \in M \ {r} : Before(r, s)}
  BY DEF First, M
<1>8. CASE hits = {}
  BY <1>1, <1>5, <1>7, <1>8
<1>9. CASE hits # {}
  <2>1. k \in 1..n /\ q[k] \in M
    BY <1>5, <1>6, <1>9
  <2>2. ASSUME NEW s \in M, s # q[k] PROVE Before(q[k], s)
    <3>1. PICK j \in hits : q[j] = s
      BY <1>5
    <3>2. j \in 1..n /\ k <= j /\ j # k
      BY <1>5, <1>6, <1>9, <2>2, <3>1
    <3>3. k < j
      BY <1>4, <2>1, <3>2
    <3> QED BY <1>4, <2>1, <3>1, <3>2, <3>3
  <2>3. ASSUME NEW r \in M, NEW s \in M, Before(r, s), Before(s, r) PROVE FALSE
    <3>1. r \in StoredRules /\ s \in StoredRules
      BY <1>3, TableOrder
    <3>2. r.prio \in Int /\ s.prio \in Int /\ r.born \in Int /\ s.born \in Int
      BY <3>1, BottomType DEF StoredRules
    <3> QED BY <2>3, <3>2 DEF Before
  <2>4. First(src, a) = {q[k]}
    BY <1>7, <2>1, <2>2, <2>3
  <2> QED BY <1>1, <1>9, <2>4
<1> QED BY <1>8, <1>9

-----------------------------------------------------------------------------
(* The verdict. *)

Applies(src) == IF src.country["site"].mode = "" THEN src.country["global"] ELSE src.country["site"]

\* A country rule refuses whom it means to refuse, or nobody if it cannot be answered.
LEMMA GeoRefuses ==
    ASSUME NEW src, src.data \in 0..Len(Files), NEW a \in Addrs, NoCode \notin Applies(src).of
    PROVE  Refuses(GeoRule(src).mode, GeoRule(src).set, a)
              <=> \/ Applies(src).mode = "block" /\ IsIn(src, Applies(src).of, a)
                  \/ /\ Applies(src).mode = "allow" /\ Known(src, Applies(src).of, a.fam)
                     /\ ~ IsIn(src, Applies(src).of, a)
<1> DEFINE rule == Applies(src)
           set == RangesFor(src, rule.of)
<1>1. GeoRule(src) = IF rule.mode \in {"block", "allow"} /\ set # NoSet
                     THEN [mode |-> rule.mode, set |-> set] ELSE [mode |-> "off", set |-> NoSet]
  BY Zenon DEF GeoRule, Applies
<1> HIDE DEF rule
<1>2. /\ set # NoSet <=> CanName(src, rule.of)
      /\ GeoContains(set, a) = "in" <=> IsIn(src, rule.of, a)
      /\ GeoContains(set, a) = "out" <=> Known(src, rule.of, a.fam) /\ ~ IsIn(src, rule.of, a)
  BY CompiledAnswers DEF rule
<1>3. (IsIn(src, rule.of, a) => CanName(src, rule.of)) /\ (Known(src, rule.of, a.fam) => CanName(src, rule.of))
  BY Zenon DEF IsIn, Known
<1> HIDE DEF set
<1>4. CASE rule.mode \in {"block", "allow"} /\ set # NoSet
  <2>1. GeoRule(src).mode = rule.mode /\ GeoRule(src).set = set
    BY <1>1, <1>4
  <2> QED BY <1>2, <2>1 DEF Refuses, rule
<1>5. CASE ~(rule.mode \in {"block", "allow"} /\ set # NoSet)
  <2>1. GeoRule(src).mode = "off"
    BY <1>1, <1>5
  <2> QED BY <1>2, <1>3, <1>5, <2>1 DEF Refuses, rule
<1> QED BY <1>4, <1>5

LEMMA VerdictIntended ==
    ASSUME NEW src, TableOK(src), src.data \in 0..Len(Files),
           src.country \in [{"global", "site"} -> CountryRules], NEW a \in Addrs
    PROVE  Verdict(src, a) = Intended(src, a)
<1> DEFINE act == Acts(src, a)
           F == First(src, a)
           bad == Refuses(GeoRule(src).mode, GeoRule(src).set, a)
           meant == \/ Applies(src).mode = "block" /\ IsIn(src, Applies(src).of, a)
                    \/ /\ Applies(src).mode = "allow" /\ Known(src, Applies(src).of, a.fam)
                       /\ ~ IsIn(src, Applies(src).of, a)
<1>1. Verdict(src, a) =
        IF <<a, "white">> \in src.list THEN "pass"
        ELSE IF <<a, "black">> \in src.list THEN "block"
        ELSE IF act = "allow" THEN "pass"
        ELSE IF act = "deny" THEN "block"
        ELSE IF a \in src.crawl THEN "check"
        ELSE IF act = "challenge" THEN "challenge"
        ELSE IF bad THEN "block"
        ELSE "check"
  BY Zenon DEF Verdict, Acts
<1>2. Intended(src, a) =
        IF <<a, "white">> \in src.list THEN "pass"
        ELSE IF <<a, "black">> \in src.list THEN "block"
        ELSE IF \E r \in F : r.action = "allow" THEN "pass"
        ELSE IF \E r \in F : r.action = "deny" THEN "block"
        ELSE IF a \in src.crawl THEN "check"
        ELSE IF \E r \in F : r.action = "challenge" THEN "challenge"
        ELSE IF meant THEN "block"
        ELSE "check"
  BY Zenon DEF Intended, First, Matching, Applies
<1>3. /\ act = "allow" <=> \E r \in F : r.action = "allow"
      /\ act = "deny" <=> \E r \in F : r.action = "deny"
      /\ act = "challenge" <=> \E r \in F : r.action = "challenge"
  BY FirstHit
<1>4. bad <=> meant
  <2>1. Applies(src) \in CountryRules
    BY Zenon DEF Applies
  <2>2. Applies(src).of \in CountryLists \cup {{}}
    BY <2>1, Zenon DEF CountryRules
  <2>3. NoCode \notin Applies(src).of
    BY <2>2, PolicyAssumption
  <2> QED BY <2>3, GeoRefuses
<1> HIDE DEF act, F, bad, meant
<1> QED BY <1>1, <1>2, <1>3, <1>4

LEMMA StoreDecides ==
    ASSUME PolicyInv, [PolicyNext]_policyVars, live' # live
    PROVE  \A a \in Addrs : Verdict(live', a) = Intended(live', a)
<1>1. Store
  BY DEF PolicyNext, Handler, SetCountryRule, CreateRule, UpdateRule, UpsertRule, DeleteRule,
         Reorder, EditList, AddIP, DeleteIP, SetEntry, Publishing, ReadTables, PublishFails,
         EntryExpires, Janitor, GeoRefresh, CrawlerRefresh, Attach, Restart, policyVars
<1>2. live'.rules = read.rules /\ live'.country = read.country /\ live'.data = Sources.data
  BY <1>1 DEF Store
<1>3. Readable(read)
  BY <1>1 DEF Store, PolicyInv
<1>4. live'.data \in 0..Len(Files)
  <2>1. Len(Files) \in Nat /\ month \in 0..Len(Files)
    BY FilesAssumption, LenProperties DEF PolicyInv, PolicyTypeOK
  <2> QED BY <1>2, <2>1 DEF Sources
<1>5. TableOK(live') /\ live'.country \in [{"global", "site"} -> CountryRules]
  BY <1>2, <1>3, Zenon DEF Readable, TableOK
<1> QED BY <1>4, <1>5, VerdictIntended

\* Every configuration that is stored decides about every address as the tables it was made
\* from mean it, whatever the dataset, the rules and the lists (geoip.go, geosets.go,
\* georesolve.go, accessrules.go, geo.lua, access.lua): merging and searching the ranges loses
\* and adds no address, and leaving out what cannot be answered changes no verdict.
THEOREM CompiledPolicyDecides == PolicySpec => DecidesAsIntended
<1>1. PolicyInv /\ [PolicyNext]_policyVars
        => [live' # live => \A a \in Addrs : Verdict(live', a) = Intended(live', a)]_policyVars
  BY StoreDecides
<1> QED BY <1>1, PolicyInvariance, PTL DEF PolicySpec, DecidesAsIntended
=============================================================================
