-------------------------- MODULE ConclusionsProofs --------------------------
(* Proofs about the scenes of MCConclusions: that the citation repair over lists *)
(* is one of the repairs the diagnosis service is proved with, and what the      *)
(* policy refuses of it; that the facts nothing outranks decide the label; that  *)
(* what a runtime supports it can do; that plans are compared with windows unit  *)
(* by unit; that searches find the best there is.  Lists, plans and assets may   *)
(* be of any length.                                                             *)
EXTENDS MCConclusions, SequenceTheorems, FunctionTheorems, FiniteSetTheorems, TLAPS

------------------------------------------------------------------------------
(* Lists and positions. *)

\* Of some positions one is the first.
LEMMA FirstPosition ==
  ASSUME NEW T \in SUBSET Nat, T # {}
  PROVE  \E i \in T : \A j \in T : i <= j
<1>1. \E i \in T : \A j \in T : ~ (<<j, i>> \in OpToRel(<, Nat))
  BY NatLessThanWellFounded, WFMin
<1>2. \A i, j \in Nat : ~ (<<j, i>> \in OpToRel(<, Nat)) => i <= j
  BY DEF OpToRel
<1> QED
  BY <1>1, <1>2

\* How many of the places lie at i or before it.
UpTo(places, i) == Cardinality({j \in places : j <= i})

\* Counting up to each of finitely many places numbers them from 1 on.
LEMMA PlacesAreNumbered ==
  ASSUME NEW places \in SUBSET Nat, IsFiniteSet(places)
  PROVE  /\ Cardinality(places) \in Nat
         /\ \A i \in places : UpTo(places, i) \in 1..Cardinality(places)
         /\ \A i, j \in places : UpTo(places, i) = UpTo(places, j) => i = j
         /\ \A k \in 1..Cardinality(places) : \E i \in places : UpTo(places, i) = k
<1> DEFINE n == Cardinality(places)
<1>1. n \in Nat
  BY FS_CardinalityType
<1>2. ASSUME NEW i \in places
      PROVE  UpTo(places, i) \in 1..n
  <2> DEFINE below == {j \in places : j <= i}
  <2>1. below \in SUBSET places /\ i \in below
    OBVIOUS
  <2> HIDE DEF below
  <2>2. IsFiniteSet(below) /\ Cardinality(below) <= n
    BY <2>1, FS_Subset
  <2>3. Cardinality(below) \in Nat /\ Cardinality(below) # 0
    BY <2>1, <2>2, FS_CardinalityType, FS_EmptySet
  <2> QED
    BY <1>1, <2>2, <2>3 DEF UpTo, below
<1>3. ASSUME NEW i \in places, NEW j \in places, i < j
      PROVE  UpTo(places, i) # UpTo(places, j)
  <2> DEFINE belowI == {m \in places : m <= i}
             belowJ == {m \in places : m <= j}
  <2>1. belowI \in SUBSET belowJ /\ j \in belowJ /\ j \notin belowI /\ belowJ \in SUBSET places
    <3>1. /\ \A m \in places : m <= i => m <= j
          /\ j <= j /\ ~ (j <= i)
      BY <1>3
    <3> QED
      BY <3>1
  <2> HIDE DEF belowI, belowJ
  <2>2. IsFiniteSet(belowJ)
    BY <2>1, FS_Subset
  <2>3. Cardinality(belowJ) # Cardinality(belowI)
    BY <2>1, <2>2, FS_Subset
  <2> QED
    BY <2>3 DEF UpTo, belowI, belowJ
<1>4. \A i, j \in places : UpTo(places, i) = UpTo(places, j) => i = j
  <2> SUFFICES ASSUME NEW i \in places, NEW j \in places, UpTo(places, i) = UpTo(places, j)
               PROVE  i = j
    OBVIOUS
  <2>1. i \in Nat /\ j \in Nat
    OBVIOUS
  <2>2. ~ (i < j) /\ ~ (j < i)
    BY <1>3
  <2> QED
    BY <2>1, <2>2
<1>5. \A k \in 1..n : \E i \in places : UpTo(places, i) = k
  <2> DEFINE number == [i \in places |-> UpTo(places, i)]
  <2>1. number \in [places -> 1..n]
    BY <1>2
  <2>2. \A i, j \in places : number[i] = number[j] => i = j
    BY <1>4
  <2> HIDE DEF number
  <2>3. number \in Injection(places, 1..n)
    BY <2>1, <2>2, Fun_IsInj
  <2>4. IsFiniteSet(1..n) /\ Cardinality(1..n) = n
    BY <1>1, FS_Interval
  <2>5. number \in Surjection(places, 1..n)
    BY <2>3, <2>4, FS_Injection
  <2>6. \A k \in 1..n : \E i \in places : number[i] = k
    BY <2>5, Fun_SurjectionProperties
  <2> QED
    BY <2>6 DEF number
<1> QED
  BY <1>1, <1>2, <1>4, <1>5

\* The items at some positions of a list: their number, and which they are.
LEMMA AtPositionsIs ==
  ASSUME NEW S, NEW list \in Seq(S), NEW places \in SUBSET DOMAIN list
  PROVE  LET picks == AtPositions(list, places) IN
         /\ picks \in Seq(S)
         /\ IsFiniteSet(places) /\ Len(picks) = Cardinality(places)
         /\ \A k \in 1..Len(picks) : \E i \in places : picks[k] = list[i] /\ UpTo(places, i) = k
         /\ Range(picks) = {list[i] : i \in places}
<1> DEFINE n == Cardinality(places)
           at(k) == CHOOSE i \in places : UpTo(places, i) = k
           picks == AtPositions(list, places)
<1>1. /\ DOMAIN list = 1..Len(list) /\ Len(list) \in Nat
      /\ \A i \in DOMAIN list : list[i] \in S
  BY LenProperties
<1>2. places \in SUBSET Nat /\ IsFiniteSet(places)
  <2>1. IsFiniteSet(1..Len(list))
    BY <1>1, FS_Interval
  <2> QED
    BY <1>1, <2>1, FS_Subset
<1>3. /\ n \in Nat
      /\ \A i \in places : UpTo(places, i) \in 1..n
      /\ \A i, j \in places : UpTo(places, i) = UpTo(places, j) => i = j
      /\ \A k \in 1..n : \E i \in places : UpTo(places, i) = k
  BY <1>2, PlacesAreNumbered
<1>4. \A k \in 1..n : at(k) \in places /\ UpTo(places, at(k)) = k
  BY <1>3
<1>5. \A i \in places : at(UpTo(places, i)) = i
  BY <1>3, <1>4
<1>6. picks = [k \in 1..n |-> list[at(k)]]
  BY DEF AtPositions, UpTo
<1> HIDE DEF at, picks
<1>7. /\ picks \in [1..n -> S] /\ DOMAIN picks = 1..n
      /\ \A k \in 1..n : picks[k] = list[at(k)]
  BY <1>1, <1>4, <1>6
<1>8. picks \in Seq(S) /\ Len(picks) = n
  BY <1>3, <1>7
<1>9. Range(picks) = {list[i] : i \in places}
  BY <1>3, <1>4, <1>5, <1>7 DEF Range
<1> QED
  BY <1>2, <1>4, <1>7, <1>8, <1>9 DEF picks

\* What a list holds is finite.
LEMMA RangeIsFinite ==
  ASSUME NEW S, NEW list \in Seq(S)
  PROVE  Range(list) \in SUBSET S /\ IsFiniteSet(Range(list))
<1>1. Len(list) \in Nat /\ list \in [1..Len(list) -> S]
  BY LenProperties
<1>2. IsFiniteSet(1..Len(list))
  BY <1>1, FS_Interval
<1>3. Range(list) \subseteq S /\ list \in Surjection(1..Len(list), Range(list))
  BY <1>1, Fun_RangeProperties
<1> QED
  BY <1>2, <1>3, FS_Surjection

\* A list without two items alike has as many as its set.
LEMMA DistinctItems ==
  ASSUME NEW S, NEW list \in Seq(S),
         \A k, l \in 1..Len(list) : list[k] = list[l] => k = l
  PROVE  Cardinality(Range(list)) = Len(list)
<1>1. Len(list) \in Nat /\ list \in [1..Len(list) -> S]
  BY LenProperties
<1>2. IsFiniteSet(1..Len(list)) /\ Cardinality(1..Len(list)) = Len(list)
  BY <1>1, FS_Interval
<1>3. list \in Surjection(1..Len(list), Range(list))
  BY <1>1, Fun_RangeProperties
<1>4. list \in Injection(1..Len(list), S)
  BY <1>1, Fun_IsInj
<1>5. list \in Bijection(1..Len(list), Range(list))
  BY <1>3, <1>4 DEF Bijection, Injection, Surjection
<1> QED
  BY <1>2, <1>5, FS_Bijection DEF ExistsBijection

LEMMA RangeIsEmpty ==
  ASSUME NEW S, NEW list \in Seq(S)
  PROVE  (list # <<>>) <=> (Range(list) # {})
<1>1. DOMAIN list = 1..Len(list) /\ Len(list) \in Nat
  BY LenProperties
<1>2. list # <<>> => 1 \in DOMAIN list
  BY <1>1, EmptySeq
<1>3. DOMAIN <<>> = {}
  OBVIOUS
<1> QED
  BY <1>2, <1>3 DEF Range

------------------------------------------------------------------------------
(* Fact types. *)

LEMMA TwoElements ==
  ASSUME NEW T, IsFiniteSet(T)
  PROVE  Cardinality(T) \in Nat /\ (Cardinality(T) >= 2 <=> \E a, b \in T : a # b)
<1>1. Cardinality(T) \in Nat
  BY FS_CardinalityType
<1>2. Cardinality(T) = 0 <=> T = {}
  BY FS_EmptySet
<1>3. Cardinality(T) = 1 <=> \E x : T = {x}
  BY FS_Singleton
<1>4. (\E a, b \in T : a # b) <=> ~ (T = {} \/ \E x : T = {x})
  OBVIOUS
<1>5. Cardinality(T) >= 2 <=> ~ (Cardinality(T) = 0 \/ Cardinality(T) = 1)
  BY <1>1
<1> QED
  BY <1>1, <1>2, <1>3, <1>4, <1>5

\* The threshold of the policy, counted as the repair counts it.
LEMMA EnoughIsCounted ==
  ASSUME NEW items, IsFiniteSet(items)
  PROVE  /\ Cardinality(FactTypesOf(items)) \in Nat
         /\ EnoughFactTypes(items) <=> Cardinality(FactTypesOf(items)) >= MinFactTypes
<1> DEFINE types == {e.type : e \in items}
           typeOf == [e \in items |-> e.type]
<1>1. typeOf \in [items -> types] /\ \A t \in types : \E e \in items : typeOf[e] = t
  OBVIOUS
<1>2. IsFiniteSet(types)
  <2> HIDE DEF typeOf, types
  <2>1. typeOf \in Surjection(items, types)
    BY <1>1, Fun_IsSurj
  <2> QED
    BY <2>1, FS_Surjection
<1>3. IsFiniteSet(FactTypesOf(items))
  BY <1>2, FS_Subset DEF FactTypesOf
<1>4. EnoughFactTypes(items) <=> \E a, b \in FactTypesOf(items) : a # b
  BY DEF EnoughFactTypes, FactTypesOf, IsFact
<1> QED
  BY <1>3, <1>4, TwoElements DEF MinFactTypes

------------------------------------------------------------------------------
(* The walk over the evidence. *)

\* The facts the walk picks complete the citations: one for each uncovered type, as
\* many as are needed or all there are (diagnoses.py:179-202).
LEMMA WalkCompletes ==
  ASSUME NEW S, NEW list \in Seq(S), NEW covered, NEW needed \in Nat
  PROVE  /\ MissingDeviceFacts(list, covered, needed) \in Seq(S)
         /\ Range(MissingDeviceFacts(list, covered, needed))
              \in Completions(Range(list), covered, needed)
<1> DEFINE firsts == FirstSolidFacts(list, covered)
           walk == AtPositions(list, firsts)
           m == IF Len(walk) < needed THEN Len(walk) ELSE needed
           picked == SubSeq(walk, 1, m)
           stock == Range(list)
           pool == {e \in stock : SolidFact(e) /\ e.type \notin covered}
           A == Range(picked)
<1>1. DOMAIN list = 1..Len(list) /\ Len(list) \in Nat
  BY LenProperties
<1>2. firsts \in SUBSET DOMAIN list
  BY DEF FirstSolidFacts
<1>3. \A i, j \in firsts : list[i].type = list[j].type => i = j
  <2> SUFFICES ASSUME NEW i \in firsts, NEW j \in firsts, list[i].type = list[j].type
               PROVE  i = j
    OBVIOUS
  <2>1. i \in Nat /\ j \in Nat /\ i >= 1 /\ j >= 1
    BY <1>1, <1>2
  <2>2. ~ (i \in 1..(j - 1)) /\ ~ (j \in 1..(i - 1))
    BY DEF FirstSolidFacts
  <2> QED
    BY <2>1, <2>2
<1>4. \A i \in firsts : list[i] \in pool
  BY DEF FirstSolidFacts, Range
<1> HIDE DEF firsts
<1>5. /\ walk \in Seq(S) /\ Len(walk) \in Nat
      /\ \A k \in 1..Len(walk) : \E i \in firsts : walk[k] = list[i] /\ UpTo(firsts, i) = k
      /\ Range(walk) = {list[i] : i \in firsts}
  BY <1>2, AtPositionsIs, LenProperties
<1> HIDE DEF walk
<1>6. m \in Nat /\ m <= Len(walk) /\ m <= needed
  BY <1>5
<1>7. /\ picked \in Seq(S) /\ Len(picked) = m
      /\ \A k \in 1..m : picked[k] = walk[k] /\ k \in 1..Len(walk)
  <2>1. \A k \in 1..m : walk[k] \in S /\ k \in 1..Len(walk)
    BY <1>5, <1>6, ElementOfSeq
  <2> HIDE DEF m
  <2>2. /\ picked \in Seq(S)
        /\ Len(picked) = IF 1 <= m THEN m - 1 + 1 ELSE 0
        /\ \A k \in 1..(m - 1 + 1) : picked[k] = walk[1 + k - 1]
    BY <1>6, <2>1, SubSeqProperties
  <2> QED
    BY <1>6, <2>1, <2>2
<1>8. \A k \in 1..m : \E i \in firsts : picked[k] = list[i] /\ UpTo(firsts, i) = k
  BY <1>5, <1>7
<1>9. DOMAIN picked = 1..m
  BY <1>7, LenProperties
<1>10. MissingDeviceFacts(list, covered, needed) = picked
  BY DEF MissingDeviceFacts, walk, firsts
<1> HIDE DEF picked, m
<1>11. \A k, l \in 1..m : picked[k].type = picked[l].type => k = l
  BY <1>3, <1>8
<1>12. A \in SUBSET pool
  BY <1>4, <1>8, <1>9 DEF Range
<1>13. \A a, b \in A : a.type = b.type => a = b
  BY <1>9, <1>11 DEF Range
<1>14. Cardinality(A) = m
  BY <1>7, <1>11, DistinctItems
<1>15. ASSUME m # needed
       PROVE  m < needed /\ FactTypesOf(A) = FactTypesOf(pool)
  <2>1. m < needed /\ m = Len(walk)
    BY <1>5, <1>6, <1>15 DEF m
  <2>2. A = {list[i] : i \in firsts}
    <3>1. DOMAIN walk = 1..m
      BY <1>5, <2>1, LenProperties
    <3> QED
      BY <1>5, <1>7, <1>9, <3>1 DEF Range
  <2>3. ASSUME NEW e \in pool
        PROVE  \E a \in A : a.type = e.type
    <3> DEFINE T == {i \in DOMAIN list : SolidFact(list[i]) /\ list[i].type = e.type}
    <3>1. T \in SUBSET Nat /\ T # {}
      BY <1>1 DEF Range
    <3>2. PICK i \in T : \A j \in T : i <= j
      BY <3>1, FirstPosition
    <3>3. ASSUME NEW j \in 1..(i - 1)
          PROVE  j \notin T
      BY <3>1, <3>2
    <3>4. \A j \in 1..(i - 1) : j \in DOMAIN list
      BY <1>1, <3>1
    <3>5. i \in firsts
      BY <3>3, <3>4 DEF firsts, FirstSolidFacts
    <3> QED
      BY <2>2, <3>5
  <2>4. FactTypesOf(A) = FactTypesOf(pool)
    BY <1>12, <2>3 DEF FactTypesOf
  <2> QED
    BY <2>1, <2>4
<1> QED
  BY <1>7, <1>10, <1>12, <1>13, <1>14, <1>15 DEF Completions

------------------------------------------------------------------------------
(* The repair. *)

\* The repairs that are allowed of a set of evidence, case by case.
LEMMA AllowedRepairs ==
  ASSUME NEW stock, NEW cites, NEW confidence
  PROVE  LET kept == cites \cap stock
             covered == FactTypesOf(kept)
             orAny(items) == IF items # {} \/ stock = {} THEN {items} ELSE {{e} : e \in stock}
             allowed == Repairs(stock, cites, confidence)
         IN  /\ confidence = "probable" /\ EnoughFactTypes(kept)
                  => [cited |-> kept, confidence |-> confidence] \in allowed
             /\ confidence # "probable"
                  => \A f \in orAny(kept) : [cited |-> f, confidence |-> confidence] \in allowed
             /\ confidence = "probable" /\ ~ EnoughFactTypes(kept)
                  => \A A \in Completions(stock, covered, MinFactTypes - Cardinality(covered)) :
                       IF EnoughFactTypes(kept \cup A)
                       THEN [cited |-> kept \cup A, confidence |-> confidence] \in allowed
                       ELSE \A f \in orAny(kept \cup A) :
                              [cited |-> f, confidence |-> IF f = {} THEN confidence ELSE "possible"]
                                \in allowed
<1> DEFINE kept == cites \cap stock
           covered == FactTypesOf(kept)
           completions == Completions(stock, covered, MinFactTypes - Cardinality(covered))
           orAny(items) == IF items # {} \/ stock = {} THEN {items} ELSE {{e} : e \in stock}
           merged == {kept \cup A : A \in completions}
           allowed == Repairs(stock, cites, confidence)
<1>1. ASSUME confidence = "probable", EnoughFactTypes(kept)
      PROVE  allowed = {[cited |-> f, confidence |-> confidence] : f \in {kept}}
  BY <1>1 DEF Repairs
<1>2. ASSUME confidence # "probable"
      PROVE  allowed = {[cited |-> f, confidence |-> confidence] : f \in orAny(kept)}
  BY <1>2 DEF Repairs
<1>3. ASSUME confidence = "probable", ~ EnoughFactTypes(kept)
      PROVE  allowed =
               {[cited |-> m, confidence |-> "probable"] : m \in {x \in merged : EnoughFactTypes(x)}}
               \cup
               {[cited |-> f, confidence |-> IF f = {} THEN confidence ELSE "possible"] :
                   f \in UNION {orAny(x) : x \in {y \in merged : ~ EnoughFactTypes(y)}}}
  BY <1>3 DEF Repairs
<1> HIDE DEF allowed, completions, orAny, kept
<1>4. ASSUME confidence = "probable", ~ EnoughFactTypes(kept), NEW A \in completions
      PROVE  IF EnoughFactTypes(kept \cup A)
             THEN [cited |-> kept \cup A, confidence |-> confidence] \in allowed
             ELSE \A f \in orAny(kept \cup A) :
                    [cited |-> f, confidence |-> IF f = {} THEN confidence ELSE "possible"] \in allowed
  <2>1. kept \cup A \in merged
    OBVIOUS
  <2> HIDE DEF merged
  <2>2. CASE EnoughFactTypes(kept \cup A)
    BY <1>3, <1>4, <2>1, <2>2
  <2>3. CASE ~ EnoughFactTypes(kept \cup A)
    BY <1>3, <1>4, <2>1, <2>3
  <2> QED
    BY <2>2, <2>3
<1> QED
  BY <1>1, <1>2, <1>4 DEF allowed, completions, orAny, kept

\* Whatever the evidence of a case and the citations a model returns, the repair over
\* the two lists is one that Repairs allows: what is proved of the diagnosis service
\* for every such repair holds of the code's own (diagnoses.py:205-298).
THEOREM RepairIsAllowed ==
  ASSUME NEW S, NEW list \in Seq(S), NEW cites \in Seq(S), NEW confidence
  PROVE  LET repair == RepairIds(list, cites, confidence)
         IN  /\ repair.ids \in Seq(S)
             /\ [cited |-> Range(repair.ids), confidence |-> repair.confidence]
                  \in Repairs(Range(list), Range(cites), confidence)
<1> DEFINE stock == Range(list)
           kept == AtPositions(cites, {i \in DOMAIN cites : cites[i] \in stock})
           keptSet == Range(cites) \cap stock
           covered == FactTypesOf(Range(kept))
           missing == MinFactTypes - Cardinality(covered)
           first == IF list = <<>> THEN <<>> ELSE <<Head(list)>>
           merged == kept \o MissingDeviceFacts(list, covered, missing)
           fallback == IF merged # <<>> THEN merged ELSE first
           orAny(items) == IF items # {} \/ stock = {} THEN {items} ELSE {{e} : e \in stock}
           allowed == Repairs(stock, Range(cites), confidence)
           repair == RepairIds(list, cites, confidence)
           Goal == /\ repair.ids \in Seq(S)
                   /\ [cited |-> Range(repair.ids), confidence |-> repair.confidence] \in allowed
<1>1. kept \in Seq(S) /\ Range(kept) = keptSet
  <2>1. {i \in DOMAIN cites : cites[i] \in stock} \in SUBSET DOMAIN cites
    OBVIOUS
  <2>2. {cites[i] : i \in {j \in DOMAIN cites : cites[j] \in stock}} = keptSet
    BY DEF Range
  <2> QED
    BY <2>1, <2>2, AtPositionsIs
<1>2. /\ first \in Seq(S) /\ ((first # <<>>) <=> (stock # {}))
      /\ Range(first) \in orAny({})
  <2>1. CASE list = <<>>
    <3>1. stock = {} /\ Range(<<>>) = {}
      BY <2>1 DEF Range
    <3>2. first = <<>>
      BY <2>1
    <3> QED
      BY <3>1, <3>2
  <2>2. CASE list # <<>>
    <3>1. Head(list) \in S /\ Head(list) = list[1] /\ 1 \in DOMAIN list
      BY <2>2, HeadTailProperties, LenProperties, EmptySeq
    <3>2. Range(<<Head(list)>>) = {Head(list)} /\ Head(list) \in stock
      BY <3>1 DEF Range
    <3>3. first = <<Head(list)>> /\ <<Head(list)>> # <<>>
      BY <2>2
    <3> QED
      BY <2>2, <3>1, <3>2, <3>3
  <2> QED
    BY <2>1, <2>2
<1>3. repair =
        CASE confidence = "probable" /\ missing <= 0 ->
               [ids |-> kept, confidence |-> confidence, downgraded |-> FALSE]
          [] confidence = "probable" /\ missing > 0
             /\ Cardinality(FactTypesOf(Range(merged))) >= MinFactTypes ->
               [ids |-> merged, confidence |-> confidence, downgraded |-> FALSE]
          [] confidence = "probable" /\ missing > 0
             /\ Cardinality(FactTypesOf(Range(merged))) < MinFactTypes ->
               IF fallback = <<>>
               THEN [ids |-> <<>>, confidence |-> confidence, downgraded |-> FALSE]
               ELSE [ids |-> fallback, confidence |-> "possible", downgraded |-> TRUE]
          [] confidence # "probable" ->
               [ids |-> IF kept # <<>> THEN kept ELSE first,
                confidence |-> confidence, downgraded |-> FALSE]
  BY DEF RepairIds
<1>4. /\ confidence = "probable" /\ EnoughFactTypes(keptSet)
           => [cited |-> keptSet, confidence |-> confidence] \in allowed
      /\ confidence # "probable"
           => \A f \in orAny(keptSet) : [cited |-> f, confidence |-> confidence] \in allowed
      /\ confidence = "probable" /\ ~ EnoughFactTypes(keptSet)
           => \A A \in Completions(stock, FactTypesOf(keptSet),
                                   MinFactTypes - Cardinality(FactTypesOf(keptSet))) :
                IF EnoughFactTypes(keptSet \cup A)
                THEN [cited |-> keptSet \cup A, confidence |-> confidence] \in allowed
                ELSE \A f \in orAny(keptSet \cup A) :
                       [cited |-> f, confidence |-> IF f = {} THEN confidence ELSE "possible"]
                         \in allowed
  BY AllowedRepairs
<1> HIDE DEF kept, repair, first, allowed
<1>5. Range(kept) = keptSet /\ ((kept # <<>>) <=> (keptSet # {}))
  BY <1>1, RangeIsEmpty
<1> HIDE DEF keptSet
<1>6. /\ Cardinality(covered) \in Nat /\ missing \in Int
      /\ EnoughFactTypes(keptSet) <=> missing <= 0
  <2>1. IsFiniteSet(keptSet)
    BY <1>1, RangeIsFinite
  <2>2. /\ Cardinality(FactTypesOf(keptSet)) \in Nat
        /\ EnoughFactTypes(keptSet) <=> Cardinality(FactTypesOf(keptSet)) >= MinFactTypes
    BY <2>1, EnoughIsCounted
  <2> QED
    BY <1>5, <2>2 DEF MinFactTypes
<1>7. ASSUME missing > 0
      PROVE  /\ merged \in Seq(S)
             /\ \E A \in Completions(stock, covered, missing) : Range(merged) = keptSet \cup A
             /\ Cardinality(FactTypesOf(Range(merged))) \in Nat
             /\ EnoughFactTypes(Range(merged))
                  <=> Cardinality(FactTypesOf(Range(merged))) >= MinFactTypes
  <2> DEFINE picked == MissingDeviceFacts(list, covered, missing)
  <2>1. missing \in Nat
    BY <1>6, <1>7
  <2> HIDE DEF missing, covered
  <2>2. picked \in Seq(S) /\ Range(picked) \in Completions(stock, covered, missing)
    BY <2>1, WalkCompletes
  <2> HIDE DEF picked
  <2>3. kept \o picked \in Seq(S) /\ Range(kept \o picked) = keptSet \cup Range(picked)
    BY <1>1, <1>5, <2>2, ConcatProperties, RangeConcatenation
  <2>4. merged \in Seq(S) /\ Range(merged) = keptSet \cup Range(picked)
    BY <2>3 DEF picked
  <2> HIDE DEF merged
  <2>5. IsFiniteSet(Range(merged))
    BY <2>4, RangeIsFinite
  <2> QED
    BY <2>2, <2>4, <2>5, EnoughIsCounted
<1>8. covered = FactTypesOf(keptSet)
      /\ missing = MinFactTypes - Cardinality(FactTypesOf(keptSet))
  BY <1>5
<1> HIDE DEF merged, missing, covered, stock
<1>9. ASSUME confidence = "probable", missing <= 0
      PROVE  Goal
  <2>1. repair = [ids |-> kept, confidence |-> confidence, downgraded |-> FALSE]
    BY <1>3, <1>6, <1>9
  <2> QED
    BY <1>1, <1>4, <1>5, <1>6, <1>9, <2>1
<1>10. ASSUME confidence = "probable", missing > 0, EnoughFactTypes(Range(merged))
       PROVE  Goal
  <2>1. repair = [ids |-> merged, confidence |-> confidence, downgraded |-> FALSE]
    BY <1>3, <1>6, <1>7, <1>10 DEF MinFactTypes
  <2>2. ~ EnoughFactTypes(keptSet)
    BY <1>6, <1>10
  <2>3. PICK A \in Completions(stock, covered, missing) : Range(merged) = keptSet \cup A
    BY <1>7, <1>10
  <2>4. [cited |-> keptSet \cup A, confidence |-> confidence] \in allowed
    BY <1>4, <1>8, <1>10, <2>2, <2>3
  <2> QED
    BY <1>7, <1>10, <2>1, <2>3, <2>4
<1>11. ASSUME confidence = "probable", missing > 0, ~ EnoughFactTypes(Range(merged))
       PROVE  Goal
  <2>1. repair = IF fallback = <<>>
                 THEN [ids |-> <<>>, confidence |-> confidence, downgraded |-> FALSE]
                 ELSE [ids |-> fallback, confidence |-> "possible", downgraded |-> TRUE]
    BY <1>3, <1>6, <1>7, <1>11 DEF MinFactTypes
  <2>2. ~ EnoughFactTypes(keptSet)
    BY <1>6, <1>11
  <2>3. PICK A \in Completions(stock, covered, missing) : Range(merged) = keptSet \cup A
    BY <1>7, <1>11
  <2>4. \A f \in orAny(keptSet \cup A) :
          [cited |-> f, confidence |-> IF f = {} THEN confidence ELSE "possible"] \in allowed
    BY <1>4, <1>8, <1>11, <2>2, <2>3
  <2>5. merged \in Seq(S) /\ ((merged # <<>>) <=> (Range(merged) # {}))
    BY <1>7, <1>11, RangeIsEmpty
  <2>6. (first # <<>>) <=> (Range(first) # {})
    BY <1>2, RangeIsEmpty
  <2>7. /\ fallback \in Seq(S) /\ ((fallback # <<>>) <=> (Range(fallback) # {}))
        /\ Range(fallback) \in orAny(keptSet \cup A)
    BY <1>2, <2>3, <2>5, <2>6
  <2> HIDE DEF fallback, orAny
  <2>8. [cited |-> Range(fallback),
         confidence |-> IF Range(fallback) = {} THEN confidence ELSE "possible"] \in allowed
    BY <2>4, <2>7
  <2>9. CASE fallback = <<>>
    <3>1. repair.ids = fallback /\ repair.confidence = confidence
      BY <2>1, <2>9
    <3> QED
      BY <2>7, <2>8, <2>9, <3>1
  <2>10. CASE fallback # <<>>
    <3>1. repair.ids = fallback /\ repair.confidence = "possible"
      BY <2>1, <2>10
    <3> QED
      BY <2>7, <2>8, <2>10, <3>1
  <2> QED
    BY <2>9, <2>10
<1>12. ASSUME confidence # "probable"
       PROVE  Goal
  <2> DEFINE ids == IF kept # <<>> THEN kept ELSE first
  <2>1. repair = [ids |-> ids, confidence |-> confidence, downgraded |-> FALSE]
    BY <1>3, <1>12
  <2>2. ids \in Seq(S) /\ Range(ids) \in orAny(keptSet)
    BY <1>1, <1>2, <1>5
  <2> HIDE DEF ids, orAny
  <2> QED
    BY <1>4, <1>12, <2>1, <2>2
<1>13. Goal
  BY <1>6, <1>9, <1>10, <1>11, <1>12
<1> QED
  BY <1>13 DEF repair, allowed, stock

\* What is allowed cites evidence of the case, and what it calls probable has facts of
\* enough types.
LEMMA AllowedRepairsFit ==
  ASSUME NEW stock, NEW cites, NEW confidence \in Confidence,
         NEW r \in Repairs(stock, cites, confidence), r.cited # {}
  PROVE  /\ r.cited \subseteq stock
         /\ r.confidence \in Confidence
         /\ r.confidence = "probable" => EnoughFactTypes(r.cited)
<1> DEFINE kept == cites \cap stock
           covered == FactTypesOf(kept)
           completions == Completions(stock, covered, MinFactTypes - Cardinality(covered))
           orAny(items) == IF items # {} \/ stock = {} THEN {items} ELSE {{e} : e \in stock}
           merged == {kept \cup A : A \in completions}
           certain == {[cited |-> m, confidence |-> "probable"] : m \in {x \in merged : EnoughFactTypes(x)}}
           lowered == {[cited |-> f, confidence |-> IF f = {} THEN confidence ELSE "possible"] :
                          f \in UNION {orAny(x) : x \in {y \in merged : ~ EnoughFactTypes(y)}}}
<1>1. \A A \in completions : A \subseteq stock
  BY DEF Completions
<1>2. \A m \in merged : m \subseteq stock
  BY <1>1
<1>3. \A items \in SUBSET stock : \A f \in orAny(items) : f \subseteq stock
  OBVIOUS
<1>4. confidence = "probable" /\ ~ EnoughFactTypes(kept) => r \in certain \cup lowered
  BY DEF Repairs
<1>5. ~ (confidence = "probable" /\ ~ EnoughFactTypes(kept)) =>
        r \in {[cited |-> f, confidence |-> confidence] :
                 f \in IF confidence = "probable" THEN {kept} ELSE orAny(kept)}
  BY DEF Repairs
<1> HIDE DEF completions, orAny, merged
<1>6. CASE confidence = "probable" /\ ~ EnoughFactTypes(kept)
  <2>1. CASE r \in certain
    BY <1>2, <2>1 DEF Confidence
  <2>2. CASE r \in lowered
    <3>1. \E x \in merged : \E f \in orAny(x) :
            r = [cited |-> f, confidence |-> IF f = {} THEN confidence ELSE "possible"]
      BY <2>2
    <3>2. PICK f \in SUBSET stock :
            r = [cited |-> f, confidence |-> IF f = {} THEN confidence ELSE "possible"]
      BY <1>2, <1>3, <3>1
    <3> QED
      BY <3>2 DEF Confidence
  <2> QED
    BY <1>4, <1>6, <2>1, <2>2
<1>7. CASE ~ (confidence = "probable" /\ ~ EnoughFactTypes(kept))
  <2>1. CASE confidence = "probable"
    BY <1>5, <1>7, <2>1
  <2>2. CASE confidence # "probable"
    <3>1. PICK f \in orAny(kept) : r = [cited |-> f, confidence |-> confidence]
      BY <1>5, <1>7, <2>2
    <3> QED
      BY <1>3, <2>2, <3>1
  <2> QED
    BY <2>1, <2>2
<1> QED
  BY <1>6, <1>7

------------------------------------------------------------------------------
(* The scene in which a model cites. *)

\* Evidence lands in a list, and what was answered is the repair of what was asked.
CitationsTyped ==
  /\ evidence \in Seq(MCEvidence)
  /\ Answered => /\ request.cited \in Seq(MCEvidence) /\ request.confidence \in Confidence
                 /\ result = Repair(evidence, request.cited, request.confidence)

LEMMA CitationsTypedHolds == MCSpec => []CitationsTyped
<1>1. MCInit => CitationsTyped
  BY EmptySeq DEF MCInit, Init, CitationsTyped, Answered
<1>2. CitationsTyped /\ [MCNext]_mcvars => CitationsTyped'
  <2> SUFFICES ASSUME CitationsTyped, [MCNext]_mcvars
               PROVE  CitationsTyped'
    OBVIOUS
  <2>1. ASSUME UNCHANGED <<evidence, request, result>>
        PROVE  CitationsTyped'
    BY <2>1 DEF CitationsTyped, Answered
  <2>2. ASSUME NEW d \in MCEvidence \ {Ghost}, Land(d)
        PROVE  CitationsTyped'
    <3>1. evidence' \in Seq(MCEvidence)
      BY <2>2 DEF Land, AppendEvidence, CitationsTyped
    <3> QED
      BY <2>2, <3>1 DEF Land, CitationsTyped, Answered
  <2>3. ASSUME NEW n \in 0..MaxCited, NEW cites \in [1..n -> MCEvidence], NEW c \in Confidence,
               Propose(cites, c)
        PROVE  CitationsTyped'
    <3>1. cites \in Seq(MCEvidence)
      BY DEF Seq
    <3> QED
      BY <2>3, <3>1 DEF Propose, CitationsTyped, Answered
  <2>4. CASE CitationStep
    BY <2>2, <2>3, <2>4 DEF CitationStep, Next
  <2>5. CASE LandFact \/ AddRange \/ AddAsset \/ NextCall \/ Search \/ Confirm
    BY <2>1, <2>5 DEF LandFact, AddRange, AddAsset, NextCall, Search, Confirm, citation
  <2>6. CASE UNCHANGED mcvars
    BY <2>1, <2>6 DEF mcvars
  <2> QED
    BY <2>4, <2>5, <2>6 DEF MCNext
<1> QED
  BY <1>1, <1>2, PTL DEF MCSpec

\* Every answer is one of the repairs the service is proved with, for any number of
\* items and citations (diagnoses.py:205-298).
THEOREM RepairsAreAllowedPicks == MCSpec => []RepairIsAnAllowedPick
<1>1. CitationsTyped => RepairIsAnAllowedPick
  <2> SUFFICES ASSUME CitationsTyped, Answered
               PROVE  [cited |-> Range(result.ids), confidence |-> result.confidence]
                        \in Repairs(held, Range(request.cited), request.confidence)
    BY DEF RepairIsAnAllowedPick
  <2> DEFINE repair == RepairIds(evidence, request.cited, request.confidence)
  <2>1. [cited |-> Range(repair.ids), confidence |-> repair.confidence]
          \in Repairs(held, Range(request.cited), request.confidence)
    BY RepairIsAllowed DEF CitationsTyped, held
  <2>2. result.ids = repair.ids /\ result.confidence = repair.confidence
    BY DEF CitationsTyped, Repair
  <2> QED
    BY <2>1, <2>2
<1> QED
  BY <1>1, CitationsTypedHolds, PTL

\* The policy refuses what the repair made of it for one reason only, a low-reliability
\* fact among the citations of a probable conclusion (citation_policy.py:66-138).
THEOREM OnlyLowFactsAreRefused == MCSpec => []PolicyRefusesOnlyLowFacts
<1>1. CitationsTyped /\ RepairIsAnAllowedPick => PolicyRefusesOnlyLowFacts
  <2> SUFFICES ASSUME CitationsTyped, RepairIsAnAllowedPick, Answered, result.ids # <<>>
               PROVE  PolicyAccepts(held, Range(result.ids), result.confidence)
                        <=> ~ /\ result.confidence = "probable"
                              /\ \E e \in Range(result.ids) : IsFact(e) /\ ~ SolidFact(e)
    BY DEF PolicyRefusesOnlyLowFacts
  <2> DEFINE r == [cited |-> Range(result.ids), confidence |-> result.confidence]
  <2>1. r \in Repairs(held, Range(request.cited), request.confidence)
        /\ request.confidence \in Confidence
    BY DEF RepairIsAnAllowedPick, CitationsTyped
  <2>2. Range(result.ids) # {}
    <3>1. result.ids = RepairIds(evidence, request.cited, request.confidence).ids
      BY DEF CitationsTyped, Repair
    <3>2. result.ids \in Seq(MCEvidence)
      BY <3>1, RepairIsAllowed DEF CitationsTyped
    <3> QED
      BY <3>2, RangeIsEmpty
  <2>3. /\ r.cited \subseteq held
        /\ r.confidence \in Confidence
        /\ r.confidence = "probable" => EnoughFactTypes(r.cited)
    <3>1. r.cited # {}
      BY <2>2
    <3> HIDE DEF r
    <3> QED
      BY <2>1, <3>1, AllowedRepairsFit
  <2> QED
    BY <2>2, <2>3 DEF PolicyAccepts, SolidFact
<1> QED
  BY <1>1, CitationsTypedHolds, RepairsAreAllowedPicks, PTL

------------------------------------------------------------------------------
(* The scenes in which facts land.  Of a list of items in order, what decides is *)
(* what nothing outranks.                                                        *)
InOrder(item) == item.reliability \in DOMAIN Rank /\ item.at \in Nat

Outranks(other, item) ==
  \/ Rank[other.reliability] > Rank[item.reliability]
  \/ other.reliability = item.reliability /\ other.at > item.at

\* The items of a list that nothing of their kind outranks.
Deciding(list) ==
  {item \in Range(list) :
     ~ \E other \in Items(list, item.type, item.stream) : Outranks(other, item)}

\* Of finitely many numbers one is the largest.
LEMMA LargestNumber ==
  ASSUME NEW T \in SUBSET Nat, IsFiniteSet(T), T # {}
  PROVE  \E i \in T : \A j \in T : j <= i
<1> DEFINE HasLargest(X) == \E i \in X : \A j \in X : j <= i
           bad == {n \in Nat : \E X \in SUBSET Nat :
                     IsFiniteSet(X) /\ X # {} /\ Cardinality(X) = n /\ ~ HasLargest(X)}
<1>1. ASSUME bad # {}
      PROVE  FALSE
  <2>1. PICK n \in bad : \A m \in bad : n <= m
    <3>1. bad \in SUBSET Nat
      OBVIOUS
    <3> HIDE DEF bad
    <3> QED
      BY <1>1, <3>1, FirstPosition
  <2>2. PICK X \in SUBSET Nat :
          IsFiniteSet(X) /\ X # {} /\ Cardinality(X) = n /\ ~ HasLargest(X)
    BY <2>1
  <2>3. PICK x \in X : TRUE
    BY <2>2
  <2> DEFINE Y == X \ {x}
  <2>4. IsFiniteSet(Y) /\ Cardinality(Y) = n - 1 /\ Y \in SUBSET Nat
    BY <2>2, FS_RemoveElement
  <2>5. n \in Nat /\ x \in Nat
    BY <2>1, <2>3
  <2>6. CASE Y = {}
    BY <2>2, <2>5, <2>6
  <2>7. CASE Y # {}
    <3>1. n - 1 \in Nat
      BY <2>4, FS_CardinalityType
    <3>2. HasLargest(Y)
      <4> HIDE DEF HasLargest, Y
      <4>1. ~ HasLargest(Y) => n - 1 \in bad
        BY <2>4, <2>7, <3>1
      <4>2. n - 1 \notin bad
        BY <2>1, <2>5
      <4> QED
        BY <4>1, <4>2
    <3>3. PICK y \in Y : \A j \in Y : j <= y
      BY <3>2
    <3>4. y \in Nat /\ y \in X /\ X \subseteq Nat
      BY <2>4, <3>3
    <3>5. CASE x <= y
      BY <2>2, <2>5, <3>3, <3>4, <3>5
    <3>6. CASE y <= x
      <4>1. \A j \in X : j <= x
        BY <2>5, <3>3, <3>4, <3>6
      <4> QED
        BY <2>2, <2>3, <4>1
    <3> QED
      BY <2>5, <3>4, <3>5, <3>6
  <2> QED
    BY <2>6, <2>7
<1> QED
  BY <1>1, FS_CardinalityType

\* What decides is what nothing outranks; it is all there is when it decides alone, and
\* there is always something.
LEMMA NewestMeans ==
  ASSUME NEW items, \A item \in items : InOrder(item)
  PROVE  LET newest == Newest(items) IN
         /\ newest = {item \in items : \A other \in items : ~ Outranks(other, item)}
         /\ Newest(newest) = newest
         /\ IsFiniteSet(items) /\ items # {} => newest # {}
<1> DEFINE newest == Newest(items)
           reliable == {item \in items : \A other \in items :
                          Rank[other.reliability] <= Rank[item.reliability]}
<1>1. \A item \in items : /\ item.reliability \in {"low", "medium", "high"}
                          /\ item.at \in Nat
                          /\ Rank[item.reliability] \in {0, 1, 2}
  BY DEF InOrder, Rank
<1>2. \A r, s \in {"low", "medium", "high"} : Rank[r] = Rank[s] => r = s
  BY DEF Rank
<1>3. newest = {item \in reliable : \A other \in reliable : other.at <= item.at}
  BY DEF Newest
<1>4. \A item, other \in reliable : item.reliability = other.reliability
  <2>1. \A item, other \in reliable : Rank[item.reliability] = Rank[other.reliability]
    BY <1>1
  <2> QED
    BY <1>1, <1>2, <2>1
<1>5. ASSUME NEW item \in items, \A other \in items : ~ Outranks(other, item)
      PROVE  item \in newest
  <2>1. item \in reliable
    BY <1>1, <1>5 DEF Outranks
  <2>2. \A other \in reliable : other.at <= item.at
    BY <1>1, <1>4, <1>5, <2>1 DEF Outranks
  <2> QED
    BY <1>3, <2>1, <2>2
<1>6. ASSUME NEW item \in newest, NEW other \in items
      PROVE  ~ Outranks(other, item)
  <2>1. item \in reliable /\ \A x \in reliable : x.at <= item.at
    BY <1>3
  <2>2. ~ (Rank[other.reliability] > Rank[item.reliability])
    BY <1>1, <2>1
  <2>3. ASSUME other.reliability = item.reliability
        PROVE  ~ (other.at > item.at)
    <3>1. other \in reliable
      BY <2>1, <2>3
    <3> QED
      BY <1>1, <2>1, <3>1
  <2> QED
    BY <2>2, <2>3 DEF Outranks
<1>7. Newest(newest) = newest
  <2>1. \A item, other \in newest : /\ Rank[other.reliability] <= Rank[item.reliability]
                                    /\ other.at <= item.at
    BY <1>1, <1>3, <1>4
  <2> QED
    BY <2>1 DEF Newest
<1>8. ASSUME IsFiniteSet(items), items # {}
      PROVE  newest # {}
  <2>1. reliable # {}
    <3>1. CASE \E item \in items : Rank[item.reliability] = 2
      BY <1>1, <3>1
    <3>2. CASE /\ ~ \E item \in items : Rank[item.reliability] = 2
               /\ \E item \in items : Rank[item.reliability] = 1
      BY <1>1, <3>2
    <3>3. CASE \A item \in items : Rank[item.reliability] = 0
      BY <1>1, <1>8, <3>3
    <3> QED
      BY <1>1, <3>1, <3>2, <3>3
  <2> DEFINE times == {item.at : item \in reliable}
             timeOf == [item \in reliable |-> item.at]
  <2>2. times \in SUBSET Nat /\ times # {}
    BY <1>1, <2>1
  <2>3. IsFiniteSet(times)
    <3>1. IsFiniteSet(reliable)
      BY <1>8, FS_Subset
    <3>2. timeOf \in [reliable -> times] /\ \A t \in times : \E item \in reliable : timeOf[item] = t
      OBVIOUS
    <3> HIDE DEF timeOf, times, reliable
    <3>3. timeOf \in Surjection(reliable, times)
      BY <3>2, Fun_IsSurj
    <3> QED
      BY <3>1, <3>3, FS_Surjection
  <2>4. \E t \in times : \A u \in times : u <= t
    <3> HIDE DEF times
    <3> QED
      BY <2>2, <2>3, LargestNumber
  <2> QED
    BY <1>3, <2>4
<1>9. newest = {item \in items : \A other \in items : ~ Outranks(other, item)}
  <2>1. newest \subseteq items
    BY <1>3
  <2> HIDE DEF newest, reliable
  <2> QED
    BY <1>5, <1>6, <2>1
<1> QED
  BY <1>7, <1>8, <1>9

\* A finite set has a list of its elements.
LEMMA ListOfSet ==
  ASSUME NEW T, IsFiniteSet(T)
  PROVE  Range(SetToSeq(T)) = T /\ SetToSeq(T) \in Seq(T)
<1> DEFINE n == Cardinality(T)
<1>1. n \in Nat /\ IsFiniteSet(1..n) /\ Cardinality(1..n) = n
  BY FS_CardinalityType, FS_Interval
<1>2. \E f \in [1..n -> T] : IsInjective(f)
  <2>1. PICK f \in Bijection(1..n, T) : TRUE
    BY FS_CardinalityType DEF ExistsBijection
  <2> QED
    BY <2>1 DEF Bijection, Injection
<1>3. SetToSeq(T) \in [1..n -> T] /\ IsInjective(SetToSeq(T))
  BY <1>2 DEF SetToSeq
<1>4. SetToSeq(T) \in Surjection(1..n, T)
  <2>1. SetToSeq(T) \in Injection(1..n, T)
    BY <1>3 DEF Injection
  <2> QED
    BY <1>1, <2>1, FS_Injection
<1>5. Range(SetToSeq(T)) = T
  <2>1. \A x \in T : \E i \in 1..n : SetToSeq(T)[i] = x
    <3> DEFINE f == SetToSeq(T)
    <3>1. f \in Surjection(1..n, T)
      BY <1>4
    <3> HIDE DEF f
    <3> QED
      BY <3>1 DEF Surjection, f
  <2>2. DOMAIN SetToSeq(T) = 1..n /\ \A i \in 1..n : SetToSeq(T)[i] \in T
    BY <1>3
  <2> HIDE DEF n
  <2> QED
    BY <2>1, <2>2 DEF Range
<1> QED
  BY <1>1, <1>3, <1>5

\* Two lists of evidence say the same when of each kind of fact the same items decide.
Alike(one, two) ==
  /\ one \in Seq(Range(one)) /\ two \in Seq(Range(two))
  /\ \A item \in Range(one) \cup Range(two) : InOrder(item)
  /\ \A type, stream : Newest(Items(one, type, stream)) = Newest(Items(two, type, stream))

LEMMA DecidingAreAlike ==
  ASSUME NEW S, NEW list \in Seq(S), \A item \in Range(list) : InOrder(item)
  PROVE  Alike(list, SetToSeq(Deciding(list)))
<1> DEFINE few == SetToSeq(Deciding(list))
<1>1. Deciding(list) \subseteq Range(list) /\ IsFiniteSet(Deciding(list))
  BY RangeIsFinite, FS_Subset DEF Deciding
<1>2. Range(few) = Deciding(list) /\ few \in Seq(Deciding(list))
  BY <1>1, ListOfSet
<1>3. list \in Seq(Range(list))
  <2>1. DOMAIN list = 1..Len(list) /\ Len(list) \in Nat
    BY LenProperties
  <2>2. \A i \in 1..Len(list) : list[i] \in Range(list)
    BY <2>1 DEF Range
  <2> QED
    BY <2>2, IsASeq
<1>4. ASSUME NEW type, NEW stream
      PROVE  Newest(Items(list, type, stream)) = Newest(Items(few, type, stream))
  <2> DEFINE items == Items(list, type, stream)
  <2>1. \A item \in items : InOrder(item)
    BY DEF Items
  <2>2. Items(few, type, stream)
          = {item \in items : \A other \in items : ~ Outranks(other, item)}
    BY <1>2 DEF Items, Deciding
  <2>3. Items(few, type, stream) = Newest(items)
    BY <2>1, <2>2, NewestMeans
  <2> HIDE DEF items
  <2>4. Newest(Newest(items)) = Newest(items)
    BY <2>1, NewestMeans
  <2> QED
    BY <2>3, <2>4 DEF items
<1> QED
  BY <1>1, <1>2, <1>3, <1>4 DEF Alike

\* What they say of a fact is the same, and whether there is a report of it.
LEMMA AlikeSayTheSame ==
  ASSUME NEW one, NEW two, Alike(one, two)
  PROVE  \A type, stream :
           /\ StreamFact(one, type, stream) = StreamFact(two, type, stream)
           /\ Fact(one, type) = Fact(two, type)
           /\ Conflict(Items(one, type, stream)) <=> Conflict(Items(two, type, stream))
           /\ (Items(one, type, stream) = {}) = (Items(two, type, stream) = {})
<1>1. ASSUME NEW type, NEW stream
      PROVE  /\ Payloads(Items(one, type, stream)) = Payloads(Items(two, type, stream))
             /\ (Items(one, type, stream) = {}) = (Items(two, type, stream) = {})
  <2>1. ASSUME NEW list \in {one, two}
        PROVE  (Items(list, type, stream) = {}) = (Newest(Items(list, type, stream)) = {})
    <3>1. list \in Seq(Range(list)) /\ \A item \in Items(list, type, stream) : InOrder(item)
      BY <2>1 DEF Alike, Items
    <3>2. IsFiniteSet(Items(list, type, stream))
      BY <3>1, RangeIsFinite, FS_Subset DEF Items
    <3>3. Newest(Items(list, type, stream)) \subseteq Items(list, type, stream)
      BY DEF Newest
    <3> QED
      BY <3>1, <3>2, <3>3, NewestMeans
  <2> QED
    BY <2>1 DEF Alike, Payloads
<1>2. ASSUME NEW type, NEW stream
      PROVE  /\ StreamFact(one, type, stream) = StreamFact(two, type, stream)
             /\ Conflict(Items(one, type, stream)) <=> Conflict(Items(two, type, stream))
  <2>1. Payloads(Items(one, type, stream)) = Payloads(Items(two, type, stream))
    BY <1>1
  <2> QED
    <3> DEFINE said(list) == Payloads(Items(list, type, stream))
    <3>1. said(one) = said(two)
      BY <2>1
    <3>2. /\ StreamFact(one, type, stream)
               = IF Cardinality(said(one)) = 1 THEN (CHOOSE p \in said(one) : TRUE)[2] ELSE None
          /\ StreamFact(two, type, stream)
               = IF Cardinality(said(two)) = 1 THEN (CHOOSE p \in said(two) : TRUE)[2] ELSE None
          /\ Conflict(Items(one, type, stream)) <=> Cardinality(said(one)) > 1
          /\ Conflict(Items(two, type, stream)) <=> Cardinality(said(two)) > 1
      BY DEF StreamFact, Conflict
    <3> HIDE DEF said
    <3> QED
      BY <3>1, <3>2
<1> QED
  BY <1>1, <1>2 DEF Fact

LEMMA AlikeConflict ==
  ASSUME NEW one, NEW two, Alike(one, two), NEW fault
  PROVE  Conflicting(one, fault) = Conflicting(two, fault)
<1>1. ASSUME NEW list, NEW other, Alike(list, other), Conflicting(list, fault)
      PROVE  Conflicting(other, fault)
  <2>1. PICK item \in Range(list) :
          item.type \in TypesOf[fault] /\ Conflict(Items(list, item.type, item.stream))
    BY <1>1 DEF Conflicting
  <2>2. /\ Conflict(Items(other, item.type, item.stream))
        /\ Items(other, item.type, item.stream) # {}
    <3>1. item \in Items(list, item.type, item.stream)
      BY DEF Items
    <3> QED
      BY <1>1, <2>1, <3>1, AlikeSayTheSame
  <2>3. PICK x \in Range(other) : x.type = item.type /\ x.stream = item.stream
    BY <2>2 DEF Items
  <2> QED
    BY <2>1, <2>2, <2>3 DEF Conflicting
<1>2. Alike(two, one)
  BY DEF Alike
<1>3. Conflicting(one, fault) => Conflicting(two, fault)
  BY <1>1
<1>4. Conflicting(two, fault) => Conflicting(one, fault)
  BY <1>1, <1>2
<1> QED
  BY <1>3, <1>4 DEF Conflicting

\* A report of the main stream names how pulling it went.
PullsNamed(list) == \A item \in Range(list) : IsStream(item, "main") => item.says.pull # None

\* Without a contradiction the fact of a kind is what one of its reports says.
LEMMA FactIsReported ==
  ASSUME NEW list, list \in Seq(Range(list)), \A item \in Range(list) : InOrder(item),
         NEW type, NEW stream,
         Items(list, type, stream) # {}, ~ Conflict(Items(list, type, stream))
  PROVE  \E item \in Items(list, type, stream) : StreamFact(list, type, stream) = item.says
<1> DEFINE items == Items(list, type, stream)
           said == Payloads(items)
           newest == Newest(items)
           payloadOf == [item \in newest |-> <<item.snapshot, item.says>>]
<1>1. IsFiniteSet(items) /\ \A item \in items : InOrder(item)
  BY RangeIsFinite, FS_Subset DEF Items
<1>2. newest # {} /\ newest \subseteq items
  <2> HIDE DEF items
  <2> QED
    BY <1>1, NewestMeans DEF Newest, items
<1>3. said = {<<item.snapshot, item.says>> : item \in newest}
  BY DEF Payloads
<1> HIDE DEF items, said, newest
<1>4. IsFiniteSet(said)
  <2>1. IsFiniteSet(newest)
    BY <1>1, <1>2, FS_Subset
  <2>2. payloadOf \in [newest -> said] /\ \A p \in said : \E item \in newest : payloadOf[item] = p
    BY <1>3
  <2> HIDE DEF payloadOf
  <2>3. payloadOf \in Surjection(newest, said)
    BY <2>2, Fun_IsSurj
  <2> QED
    BY <2>1, <2>3, FS_Surjection
<1>5. Cardinality(said) = 1
  <2>0. said # {}
    BY <1>2, <1>3
  <2>1. Cardinality(said) \in Nat /\ Cardinality(said) # 0
    BY <1>4, <2>0, FS_CardinalityType, FS_EmptySet
  <2>2. ~ (Cardinality(said) > 1)
    BY DEF Conflict, said, items
  <2> QED
    BY <2>1, <2>2
<1>6. PICK p \in said : p = CHOOSE q \in said : TRUE
  BY <1>2, <1>3
<1>7. PICK item \in newest : p = <<item.snapshot, item.says>>
  BY <1>3, <1>6
<1>8. StreamFact(list, type, stream) = p[2]
  BY <1>5, <1>6 DEF StreamFact, said, items
<1> QED
  BY <1>2, <1>7, <1>8 DEF items

\* Main and sub stream say the same in either order, as what the main stream reports
\* is never left open (camera_diagnosis_rules.py:252-267).
LEMMA StreamsInAnyOrder ==
  ASSUME NEW start, start.pull = None, start.black = None,
         start = [pull |-> start.pull, timeout |-> start.timeout, load |-> start.load,
                  black |-> start.black, failed |-> start.failed],
         NEW main, NEW sub, main.pull # None
  PROVE  Take(Take(start, "main", main), "sub", sub) = Take(Take(start, "sub", sub), "main", main)
  BY DEF Take

LEMMA AlikeStreams ==
  ASSUME NEW one, NEW two, Alike(one, two), PullsNamed(one), ~ Conflicting(one, "camera")
  PROVE  StreamFacts(one) = StreamFacts(two)
<1> DEFINE start == [pull |-> None, timeout |-> FALSE, load |-> Fact(one, "device_config"),
                     black |-> None, failed |-> FALSE]
           shown(stream) == Items(one, "device_stream", stream) # {}
           says(stream) == StreamFact(one, "device_stream", stream)
           with(sofar, stream) == IF shown(stream) THEN Take(sofar, stream, says(stream)) ELSE sofar
           mainFirst == with(with(start, "main"), "sub")
           subFirst == with(with(start, "sub"), "main")
<1>1. ASSUME NEW list \in {one, two}
      PROVE  StreamFacts(list) \in {mainFirst, subFirst}
  <2> DEFINE order == StreamOrder(list)
             start2 == [pull |-> None, timeout |-> FALSE, load |-> Fact(list, "device_config"),
                        black |-> None, failed |-> FALSE]
             with2(sofar, stream) ==
               IF Items(list, "device_stream", stream) = {} THEN sofar
               ELSE Take(sofar, stream, StreamFact(list, "device_stream", stream))
  <2>1. start2 = start
    <3>1. Fact(list, "device_config") = Fact(one, "device_config")
      BY <1>1, AlikeSayTheSame
    <3> QED
      BY <3>1
  <2>2. \A stream : /\ StreamFact(list, "device_stream", stream) = says(stream)
                    /\ (Items(list, "device_stream", stream) = {}) = ~ shown(stream)
    BY <1>1, AlikeSayTheSame
  <2>3. \A sofar, stream : with2(sofar, stream) = with(sofar, stream)
    BY <2>2
  <2>4. StreamFacts(list) = with2(with2(start2, order[1]), order[2])
    BY DEF StreamFacts
  <2>5. \/ order[1] = "main" /\ order[2] = "sub"
        \/ order[1] = "sub" /\ order[2] = "main"
    BY DEF StreamOrder, Streams, Reverse
  <2> HIDE DEF with, with2, start, start2, order
  <2> QED
    BY <2>1, <2>3, <2>4, <2>5
<1>2. ASSUME shown("main") PROVE says("main").pull # None
  <2>1. ~ Conflict(Items(one, "device_stream", "main"))
    <3>1. PICK item \in Items(one, "device_stream", "main") : TRUE
      BY <1>2
    <3>2. /\ item \in Range(one) /\ item.type = "device_stream" /\ item.stream = "main"
          /\ item.type \in TypesOf["camera"]
      BY <3>1 DEF Items, TypesOf
    <3> QED
      BY <3>2 DEF Conflicting
  <2>2. one \in Seq(Range(one)) /\ \A item \in Range(one) : InOrder(item)
    BY DEF Alike
  <2>3. PICK item \in Items(one, "device_stream", "main") : says("main") = item.says
    BY <1>2, <2>1, <2>2, FactIsReported
  <2> QED
    BY <2>3 DEF PullsNamed, IsStream, Items
<1>3. mainFirst = subFirst
  <2>1. CASE shown("main") /\ shown("sub")
    BY <1>2, <2>1, StreamsInAnyOrder
  <2>2. CASE ~ (shown("main") /\ shown("sub"))
    BY <2>2
  <2> QED
    BY <2>1, <2>2
<1> HIDE DEF mainFirst, subFirst
<1> QED
  BY <1>1, <1>3

\* The label a list leads to is the label any list alike leads to, for every fault type.
LEMMA AlikeLabels ==
  ASSUME NEW one, NEW two, Alike(one, two), PullsNamed(one), NEW fault \in DOMAIN TypesOf
  PROVE  Label(one, fault) = Label(two, fault)
<1>1. Conflicting(one, fault) = Conflicting(two, fault)
  BY AlikeConflict
<1>2. \A type : Fact(one, type) = Fact(two, type)
  BY AlikeSayTheSame
<1>3. fault \in {"camera", "recording", "access", "alarm"}
  BY DEF TypesOf
<1>4. ASSUME fault = "camera", ~ Conflicting(one, fault)
      PROVE  CameraLabel(one) = CameraLabel(two)
  <2>1. StreamFacts(one) = StreamFacts(two)
    BY <1>4, AlikeStreams
  <2> QED
    BY <1>2, <2>1 DEF CameraLabel
<1>5. RecordingLabel(one) = RecordingLabel(two)
  <2>1. RecordingFacts(one) = RecordingFacts(two)
    BY <1>2 DEF RecordingFacts
  <2> QED
    BY <2>1, Zenon DEF RecordingLabel
<1>6. AccessLabel(one) = AccessLabel(two)
  <2>1. AccessFacts(one) = AccessFacts(two)
    BY <1>2 DEF AccessFacts
  <2> QED
    BY <2>1, Zenon DEF AccessLabel
<1>7. AlarmLabel(one) = AlarmLabel(two)
  <2>1. AlarmFacts(one) = AlarmFacts(two)
    BY <1>2 DEF AlarmFacts
  <2> QED
    BY <2>1, Zenon DEF AlarmLabel
<1> QED
  BY <1>1, <1>3, <1>4, <1>5, <1>6, <1>7 DEF Label

(* Of any list of reports, in whatever order they landed and however many there  *)
(* are of one fact, the label is the one the reports lead to that no more        *)
(* reliable and no newer one outranks (evidence_resolution.py:35-73).            *)
THEOREM LabelsOfDecidingFacts ==
  ASSUME NEW S, NEW list \in Seq(S), \A item \in Range(list) : InOrder(item),
         PullsNamed(list), NEW fault \in DOMAIN TypesOf
  PROVE  Label(list, fault) = Label(SetToSeq(Deciding(list)), fault)
  BY DecidingAreAlike, AlikeLabels

\* The reports of MCSays land in any order.
SaidReports(fault) == {Landed(fact, landing) : fact \in MCSays[fault], landing \in MCLandings}

FactsTyped ==
  /\ scene \in DOMAIN MCSays => facts \in Seq(SaidReports(scene))

LEMMA FactsTypedHolds == MCSpec => []FactsTyped
<1>1. MCInit => FactsTyped
  BY EmptySeq DEF MCInit, FactsTyped
<1>2. FactsTyped /\ [MCNext]_mcvars => FactsTyped'
  <2> SUFFICES ASSUME FactsTyped, [MCNext]_mcvars
               PROVE  FactsTyped'
    OBVIOUS
  <2>1. ASSUME UNCHANGED <<scene, facts>>
        PROVE  FactsTyped'
    BY <2>1 DEF FactsTyped
  <2>2. CASE LandFact
    <3> HIDE DEF SaidReports
    <3>1. PICK fact \in MCSays[scene], landing \in MCLandings :
            scene \in DOMAIN MCSays /\ facts' = Append(facts, Landed(fact, landing))
      BY <2>2 DEF LandFact
    <3>2. scene' = scene
      BY <2>2 DEF LandFact, citation
    <3>3. Landed(fact, landing) \in SaidReports(scene)
      BY DEF SaidReports
    <3>4. facts' \in Seq(SaidReports(scene))
      BY <3>1, <3>3, AppendProperties DEF FactsTyped
    <3> QED
      BY <3>2, <3>4 DEF FactsTyped
  <2>3. CASE CitationStep
    BY <2>1, <2>3 DEF CitationStep, scenes
  <2>4. CASE AddRange \/ AddAsset \/ NextCall \/ Search \/ Confirm
    BY <2>1, <2>4 DEF AddRange, AddAsset, NextCall, Search, Confirm, citation
  <2>5. CASE UNCHANGED mcvars
    BY <2>1, <2>5 DEF mcvars, scenes
  <2> QED
    BY <2>2, <2>3, <2>4, <2>5 DEF MCNext
<1> QED
  BY <1>1, <1>2, PTL DEF MCSpec

LEMMA SaidReportsInOrder ==
  ASSUME NEW fault \in DOMAIN MCSays, NEW item \in SaidReports(fault)
  PROVE  InOrder(item) /\ (IsStream(item, "main") => item.says.pull # None)
<1>1. PICK fact \in MCSays[fault], landing \in MCLandings : item = Landed(fact, landing)
  BY DEF SaidReports
<1>2. InOrder(item)
  BY <1>1 DEF Landed, MCLandings, InOrder, Rank
<1>3. ASSUME IsStream(item, "main")
      PROVE  item.says.pull \in {"success", "failed", "timeout"}
  <2>1. fact.type = "device_stream" /\ fact.stream = "main" /\ item.says = fact.says
    BY <1>1, <1>3 DEF Landed, IsStream
  <2>2. fault \in {"camera", "recording", "access", "alarm"}
    BY DEF MCSays
  <2>3. CASE fault = "camera"
    BY <2>1, <2>3 DEF MCSays, Fact1, StreamSays
  <2>4. CASE fault # "camera"
    BY <2>1, <2>2, <2>4 DEF MCSays, Fact1
  <2> QED
    BY <2>3, <2>4
<1> QED
  BY <1>2, <1>3, NotReported

\* In every state of the scenes of the four fault types (application/*_diagnosis_rules.py).
THEOREM LabelsRest == MCSpec => []LabelsRestOnDecidingFacts
<1>1. FactsTyped => LabelsRestOnDecidingFacts
  <2> SUFFICES ASSUME FactsTyped, scene \in DOMAIN MCSays
               PROVE  Label(facts, scene)
                        = Label(SetToSeq({i \in Range(facts) : ~ Outranked(i)}), scene)
    BY DEF LabelsRestOnDecidingFacts
  <2>1. facts \in Seq(SaidReports(scene))
    BY DEF FactsTyped
  <2>2. \A item \in Range(facts) : InOrder(item) /\ (IsStream(item, "main") => item.says.pull # None)
    BY <2>1, RangeIsFinite, SaidReportsInOrder
  <2>3. scene \in DOMAIN TypesOf
    BY DEF MCSays, TypesOf
  <2>4. Deciding(facts) = {i \in Range(facts) : ~ Outranked(i)}
    BY DEF Deciding, Outranked, Outranks
  <2> QED
    BY <2>1, <2>2, <2>3, <2>4, LabelsOfDecidingFacts DEF PullsNamed
<1> QED
  BY <1>1, FactsTypedHolds, PTL

------------------------------------------------------------------------------
(* The scene in which a runtime is put together. *)

\* A fault type that is supported has one trusted asset with every capability, and
\* every tool it needs is registered (runtime_capabilities.py).
LEMMA SupportedMeans ==
  ASSUME NEW assets, NEW ready, NEW checked, NEW registry, NEW fault,
         Runtime!Verdict(assets, ready, checked, registry, fault) = "supported"
  PROVE  /\ Runtime!Needs[fault].tools \subseteq registry
         /\ \E a \in assets : /\ a.enabled /\ a.adapter \in ready
                             /\ Runtime!Needs[fault].capabilities \subseteq a.capabilities
<1> DEFINE enabled == {a \in assets : a.enabled}
           reachable == {a \in enabled : a.adapter \in ready}
           trusted == {a \in reachable : a.adapter \in checked}
           covered == Runtime!Covered(trusted, Runtime!Needs[fault].capabilities)
           verdict == Runtime!Verdict(assets, ready, checked, registry, fault)
<1>1. verdict = CASE enabled = {} -> "no_enabled_asset"
                  [] enabled # {} /\ reachable = {} -> "adapter_not_ready"
                  [] reachable # {} /\ trusted = {} -> "self_check_failed"
                  [] trusted # {} /\ ~ covered -> "missing_capability"
                  [] covered -> IF Runtime!ToolsCover(registry, fault)
                                THEN "supported" ELSE "tool_coverage_missing"
  BY DEF Runtime!Verdict
<1>2. /\ enabled = {} => reachable = {}
      /\ reachable = {} => trusted = {}
      /\ trusted = {} => ~ covered
  BY DEF Runtime!Covered
<1> HIDE DEF enabled, reachable, trusted, covered, verdict
<1>3. verdict = "supported"
  BY DEF verdict
<1>4. covered /\ Runtime!ToolsCover(registry, fault)
  BY <1>1, <1>2, <1>3
<1> QED
  BY <1>4 DEF covered, trusted, reachable, enabled, Runtime!Covered, Runtime!ToolsCover

\* The tools a run may use call the operations the authorization is made from.
LEMMA ToolsCallTheirOperations ==
  ASSUME NEW fault \in DOMAIN Runtime!Needs,
         NEW tool \in Runtime!Needs[fault].tools \cap Runtime!ToolAllowlist
  PROVE  /\ tool \in DOMAIN Runtime!ToolOperations
         /\ Runtime!ToolNamed[tool].operation = Runtime!ToolOperations[tool]
         /\ Runtime!ToolNamed[tool].operation \in DOMAIN Runtime!CapabilityOf
         /\ Runtime!CapabilityOf[Runtime!ToolNamed[tool].operation] \in Runtime!Needs[fault].capabilities
<1>1. fault = "camera" /\ tool \in {"device__query_status", "device__query_channel",
                                    "device__query_stream", "platform__query_pull_status"}
  BY DEF Runtime!Needs, Runtime!ToolAllowlist
<1>2. Runtime!Needs[fault].capabilities = {"status", "channel", "stream"}
  BY <1>1 DEF Runtime!Needs
<1>3. /\ Runtime!Routing!DeviceStatusTool.operation = "query_status"
      /\ Runtime!Routing!DeviceChannelTool.operation = "query_channel_snapshot"
      /\ Runtime!Routing!DeviceStreamTool.operation = "query_stream_snapshot"
      /\ Runtime!Routing!PlatformPullStatusTool.operation = "query_platform_pull_status"
  BY DEF Runtime!Routing!DeviceStatusTool, Runtime!Routing!DeviceChannelTool,
         Runtime!Routing!DeviceStreamTool, Runtime!Routing!PlatformPullStatusTool,
         Runtime!Routing!Classifying
<1> QED
  BY <1>1, <1>2, <1>3 DEF Runtime!ToolOperations, Runtime!ToolNamed, Runtime!CapabilityOf

\* What a runtime says it supports it can also do, whatever assets, registry and self
\* checks it was built from (runtime.py, runtime_capabilities.py).
THEOREM SupportedIsUsable == MCSpec => []SupportIsUsable
<1>1. SupportIsUsable
  <2> SUFFICES ASSUME NEW fault \in Built.supported
               PROVE  \E asset \in runtime.assets :
                        /\ asset.enabled /\ asset.adapter \in Built.ready
                        /\ \A tool \in Runtime!Needs[fault].tools \cap Runtime!ToolAllowlist :
                             LET operation == Runtime!ToolNamed[tool].operation
                             IN  /\ tool \in runtime.registry
                                 /\ operation \in Built.operations
                                 /\ Runtime!CapabilityOf[operation] \in asset.capabilities
    BY DEF SupportIsUsable
  <2> DEFINE checked == IF runtime.checked = None THEN Built.ready ELSE runtime.checked
  <2>1. /\ Built.operations = Runtime!AllowedOperations(Runtime!ToolAllowlist, runtime.assets)
        /\ fault \in DOMAIN Runtime!Needs
        /\ Runtime!Verdict(runtime.assets, Built.ready, checked, runtime.registry, fault) = "supported"
    BY DEF Built, Runtime!Build
  <2>2. PICK asset \in runtime.assets :
          /\ asset.enabled /\ asset.adapter \in Built.ready
          /\ Runtime!Needs[fault].capabilities \subseteq asset.capabilities
    BY <2>1, SupportedMeans
  <2>3. Runtime!Needs[fault].tools \subseteq runtime.registry
    BY <2>1, SupportedMeans
  <2>4. ASSUME NEW tool \in Runtime!Needs[fault].tools \cap Runtime!ToolAllowlist
        PROVE  LET operation == Runtime!ToolNamed[tool].operation
               IN  /\ tool \in runtime.registry
                   /\ operation \in Built.operations
                   /\ Runtime!CapabilityOf[operation] \in asset.capabilities
    BY <2>1, <2>2, <2>3, ToolsCallTheirOperations DEF Runtime!AllowedOperations
  <2> QED
    BY <2>2, <2>4
<1> QED
  BY <1>1, PTL

------------------------------------------------------------------------------
(* The plans. *)

\* The units of a day.
LEMMA DayMeans ==
  ASSUME DayLength \in Nat \ {0}, NEW u \in Nat, NEW day \in Nat
  PROVE  /\ Day(u) \in Nat
         /\ day * DayLength \in Nat
         /\ (Day(u) = day) <=> (day * DayLength <= u /\ u < day * DayLength + DayLength)
         /\ Day(u) = day => u % DayLength = u - day * DayLength
  BY DEF Day

\* The first unit of a day that a range covers of a window.
First(range, day, window) ==
  LET base == day * DayLength
      start == Larger(base, window.from)
  IN  IF range.from = range.to THEN start ELSE Larger(start, base + range.from)

IsRange(range) ==
  range.from \in 0..(DayLength - 1) /\ range.to \in 0..(DayLength - 1) /\ range.from <= range.to
IsWindow(window) == window.from \in Nat /\ window.to \in Nat /\ window.from < window.to

\* What a range covers of a window on one day are units one after the other.
LEMMA OverlapMeans ==
  ASSUME DayLength \in Nat \ {0}, NEW range, IsRange(range), NEW window, IsWindow(window),
         NEW day \in Nat, NEW u \in Nat
  PROVE  /\ First(range, day, window) \in Nat
         /\ Overlap(range, day, window) \in Int
         /\ (u \in Units(window) /\ Day(u) = day /\ InRange(u, range))
              <=> (day \in range.days /\ First(range, day, window) <= u
                     /\ u < First(range, day, window) + Overlap(range, day, window))
<1> DEFINE base == day * DayLength
           next == (day + 1) * DayLength
<1>1. base \in Nat /\ next = base + DayLength
  BY DayMeans
<1>2. /\ (Day(u) = day) <=> (base <= u /\ u < base + DayLength)
      /\ Day(u) = day => u % DayLength = u - base
  BY DayMeans
<1>3. /\ window.from \in Nat /\ window.to \in Nat /\ window.from < window.to
      /\ range.from \in Nat /\ range.to \in Nat /\ range.from <= range.to
      /\ range.from < DayLength /\ range.to < DayLength
  BY DEF IsRange, IsWindow
<1>4. u \in Units(window) <=> window.from <= u /\ u < window.to
  BY <1>3 DEF Units
<1> HIDE DEF base, next
<1>5. CASE day \notin range.days
  <2>1. Overlap(range, day, window) = 0 /\ (Day(u) = day => ~ InRange(u, range))
    BY <1>5 DEF Overlap, InRange
  <2>2. First(range, day, window) \in Nat
    BY <1>1, <1>3 DEF First, Larger, base
  <2> QED
    BY <1>5, <2>1, <2>2
<1>6. CASE day \in range.days /\ range.from = range.to
  <2>1. /\ First(range, day, window) = Larger(base, window.from)
        /\ Overlap(range, day, window) = Smaller(next, window.to) - Larger(base, window.from)
        /\ Day(u) = day => InRange(u, range)
    BY <1>6 DEF First, Overlap, InRange, base, next
  <2> QED
    BY <1>1, <1>2, <1>3, <1>4, <1>6, <2>1 DEF Larger, Smaller
<1>7. CASE day \in range.days /\ range.from # range.to
  <2> DEFINE from == Larger(Larger(base, window.from), base + range.from)
             to == Smaller(Smaller(next, window.to), base + range.to)
  <2>1. /\ First(range, day, window) = from
        /\ Overlap(range, day, window) = IF to > from THEN to - from ELSE 0
    BY <1>7 DEF First, Overlap, base, next
  <2>2. Day(u) = day => (InRange(u, range) <=> range.from <= u - base /\ u - base < range.to)
    BY <1>1, <1>2, <1>3, <1>7 DEF InRange
  <2>3. /\ from \in Nat /\ to \in Nat
        /\ from <= u <=> base <= u /\ window.from <= u /\ base + range.from <= u
        /\ u < to <=> u < next /\ u < window.to /\ u < base + range.to
    BY <1>1, <1>3 DEF Larger, Smaller
  <2> HIDE DEF from, to
  <2>4. from <= u /\ u < to <=> from <= u /\ u < from + (IF to > from THEN to - from ELSE 0)
    BY <2>3
  <2>5. u \in Units(window) /\ Day(u) = day /\ InRange(u, range) <=> from <= u /\ u < to
    BY <1>1, <1>2, <1>3, <1>4, <2>2, <2>3
  <2> QED
    BY <1>7, <2>1, <2>3, <2>4, <2>5
<1> QED
  BY <1>5, <1>6, <1>7

LEMMA UnitsOfWindow ==
  ASSUME NEW window, IsWindow(window)
  PROVE  /\ Units(window) \subseteq Nat /\ IsFiniteSet(Units(window))
         /\ window.to - window.from \in Nat
         /\ Cardinality(Units(window)) = window.to - window.from
<1> DEFINE from == window.from
           last == window.to - 1
<1>1. /\ from \in Nat /\ last \in Nat /\ from <= last /\ Units(window) = from..last
      /\ window.to - window.from = last - from + 1
  BY DEF IsWindow, Units
<1> HIDE DEF from, last
<1>2. IsFiniteSet(from..last) /\ Cardinality(from..last) = last - from + 1
  BY <1>1, FS_Interval
<1> QED
  BY <1>1, <1>2

\* Ranges that do not overlap cover as many units as there are units in one of them.
LEMMA CoverageIsCounted ==
  ASSUME DayLength \in Nat \ {0}, NEW ranges, \A i \in DOMAIN ranges : IsRange(ranges[i]),
         NEW window, IsWindow(window),
         \A i, j \in DOMAIN ranges : i # j =>
            \A u \in Units(window) : ~ (InRange(u, ranges[i]) /\ InRange(u, ranges[j]))
  PROVE  LET inside == {u \in Units(window) : \E i \in DOMAIN ranges : InRange(u, ranges[i])}
         IN  IsFiniteSet(inside) /\ Cardinality(Covered(ranges, window)) = Cardinality(inside)
<1> DEFINE inside == {u \in Units(window) : \E i \in DOMAIN ranges : InRange(u, ranges[i])}
           days == Day(window.from)..Day(window.to - 1)
           covered == Covered(ranges, window)
           which(u) == CHOOSE i \in DOMAIN ranges : InRange(u, ranges[i])
           first(i, day) == First(ranges[i], day, window)
           overlap(i, day) == Overlap(ranges[i], day, window)
           count == [u \in inside |-> <<<<which(u), Day(u)>>, u - first(which(u), Day(u)) + 1>>]
<1>1. Units(window) \subseteq Nat /\ IsFiniteSet(Units(window))
  BY UnitsOfWindow
<1>2. IsFiniteSet(inside)
  BY <1>1, FS_Subset
<1>3. ASSUME NEW u \in Units(window)
      PROVE  Day(u) \in days /\ Day(u) \in Nat
  BY DEF Units, IsWindow, Day
<1>4. days \subseteq Nat
  BY DEF IsWindow, Day
<1>5. ASSUME NEW i \in DOMAIN ranges, NEW day \in days, NEW u \in Nat
      PROVE  /\ first(i, day) \in Nat /\ overlap(i, day) \in Int
             /\ (u \in Units(window) /\ Day(u) = day /\ InRange(u, ranges[i]))
                  <=> (day \in ranges[i].days /\ first(i, day) <= u
                         /\ u < first(i, day) + overlap(i, day))
  BY <1>4, OverlapMeans
<1>6. \A x : x \in covered <=> \E i \in DOMAIN ranges, day \in days :
                                  x \in {<<i, day>>} \X (1..overlap(i, day))
  <2> DEFINE part(i, day) == {<<i, day>>} \X (1..overlap(i, day))
  <2>1. covered = UNION {part(i, day) : i \in DOMAIN ranges, day \in days}
    BY DEF Covered
  <2> HIDE DEF part, covered, days
  <2>2. \A x : x \in covered <=> \E i \in DOMAIN ranges, day \in days : x \in part(i, day)
    BY <2>1
  <2> QED
    BY <2>2 DEF part
<1>7. ASSUME NEW i \in DOMAIN ranges, NEW day \in days, 1..overlap(i, day) # {}
      PROVE  day \in ranges[i].days
  <2>1. overlap(i, day) # 0
    BY <1>7
  <2> QED
    BY <2>1 DEF Overlap
<1> HIDE DEF days, covered, first, overlap
<1>8. ASSUME NEW u \in inside
      PROVE  /\ which(u) \in DOMAIN ranges /\ InRange(u, ranges[which(u)])
             /\ u - first(which(u), Day(u)) + 1 \in 1..overlap(which(u), Day(u))
  <2>1. which(u) \in DOMAIN ranges /\ InRange(u, ranges[which(u)])
    OBVIOUS
  <2> HIDE DEF which
  <2>2. u \in Nat /\ u \in Units(window)
    BY <1>1
  <2> QED
    BY <2>1, <2>2, <1>3, <1>5
<1>9. count \in [inside -> covered]
  <2>1. ASSUME NEW u \in inside
        PROVE  <<<<which(u), Day(u)>>, u - first(which(u), Day(u)) + 1>> \in covered
    <3>1. Day(u) \in days
      BY <1>3
    <3>2. PICK i \in DOMAIN ranges : i = which(u)
      BY <1>8
    <3>3. <<<<i, Day(u)>>, u - first(i, Day(u)) + 1>> \in {<<i, Day(u)>>} \X (1..overlap(i, Day(u)))
      BY <1>8, <3>2
    <3> QED
      BY <1>6, <3>1, <3>2, <3>3
  <2> HIDE DEF inside
  <2> QED
    BY <2>1
<1>10. ASSUME NEW u \in inside, NEW v \in inside, count[u] = count[v]
       PROVE  u = v
  <2> DEFINE i == which(u)
             day == Day(u)
  <2>1. which(v) = i /\ Day(v) = day
        /\ u - first(i, day) + 1 = v - first(i, day) + 1
    BY <1>10
  <2>2. u \in Nat /\ v \in Nat /\ first(i, day) \in Nat
    BY <1>1, <1>3, <1>5, <1>8
  <2> HIDE DEF i, day
  <2> QED
    BY <2>1, <2>2
<1>11. ASSUME NEW x \in covered
       PROVE  \E u \in inside : count[u] = x
  <2>0. PICK i \in DOMAIN ranges, day \in days : x \in {<<i, day>>} \X (1..overlap(i, day))
    BY <1>6
  <2>1. PICK n \in 1..overlap(i, day) : x = <<<<i, day>>, n>>
    BY <2>0
  <2> DEFINE u == first(i, day) + n - 1
  <2>2. day \in ranges[i].days /\ first(i, day) \in Nat /\ overlap(i, day) \in Int
    BY <1>5, <1>7
  <2>3. u \in Nat /\ first(i, day) <= u /\ u < first(i, day) + overlap(i, day)
        /\ u - first(i, day) + 1 = n
    BY <2>2
  <2> HIDE DEF u
  <2>4. u \in Units(window) /\ Day(u) = day /\ InRange(u, ranges[i])
    BY <1>5, <2>2, <2>3
  <2>5. u \in inside
    BY <2>4
  <2>6. which(u) = i
    BY <1>8, <2>4, <2>5
  <2> HIDE DEF which, inside
  <2> QED
    BY <2>1, <2>3, <2>4, <2>5, <2>6
<1> HIDE DEF inside, count
<1>12. ExistsBijection(inside, covered)
  <2>1. count \in Bijection(inside, covered)
    BY <1>9, <1>10, <1>11, Fun_IsBij
  <2> QED
    BY <2>1, Fun_ExistsBij
<1> QED
  BY <1>2, <1>12, FS_Bijection DEF inside, covered

\* Where a unit is more than one in a thousand of the window (recording_diagnosis_rules.py:240).
LEMMA CoverageIsExact ==
  ASSUME DayLength \in Nat \ {0}, NEW ranges, ranges # <<>>,
         \A i \in DOMAIN ranges : IsRange(ranges[i]),
         NEW window, IsWindow(window), window.to - window.from < 1000,
         \A i, j \in DOMAIN ranges : i # j =>
            \A u \in Units(window) : ~ (InRange(u, ranges[i]) /\ InRange(u, ranges[j]))
  PROVE  PlanCovers(ranges, window)
           <=> \A u \in Units(window) : \E i \in DOMAIN ranges : InRange(u, ranges[i])
<1> DEFINE inside == {u \in Units(window) : \E i \in DOMAIN ranges : InRange(u, ranges[i])}
           total == window.to - window.from
<1>1. IsFiniteSet(inside) /\ Cardinality(Covered(ranges, window)) = Cardinality(inside)
  BY CoverageIsCounted
<1>2. IsFiniteSet(Units(window)) /\ Cardinality(Units(window)) = total /\ total \in Nat
  BY UnitsOfWindow
<1>3. inside \subseteq Units(window)
  OBVIOUS
<1>4. PlanCovers(ranges, window) <=> 1000 * Cardinality(inside) >= 999 * total
  BY <1>1 DEF PlanCovers, IsWindow
<1>5. inside = Units(window) <=> \A u \in Units(window) : \E i \in DOMAIN ranges : InRange(u, ranges[i])
  OBVIOUS
<1> HIDE DEF inside
<1>6. /\ Cardinality(inside) \in Nat /\ Cardinality(inside) <= total
      /\ Cardinality(inside) = total => inside = Units(window)
  BY <1>1, <1>2, <1>3, FS_Subset, FS_CardinalityType
<1>7. inside = Units(window) => Cardinality(inside) = total
  BY <1>2
<1> HIDE DEF total
<1>8. 1000 * Cardinality(inside) >= 999 * total <=> Cardinality(inside) = total
  <2>1. total \in Nat /\ total < 1000
    BY <1>2 DEF total
  <2> QED
    BY <1>6, <2>1
<1> QED
  BY <1>4, <1>5, <1>6, <1>7, <1>8

PlanTyped == scene = "plan" => plan \in [ranges : Seq(MCRanges), window : MCWindows]

LEMMA PlanTypedHolds == MCSpec => []PlanTyped
<1>1. MCInit => PlanTyped
  <2>1. <<>> \in Seq(MCRanges)
    BY EmptySeq
  <2> QED
    BY <2>1 DEF MCInit, PlanTyped
<1>2. PlanTyped /\ [MCNext]_mcvars => PlanTyped'
  <2> SUFFICES ASSUME PlanTyped, [MCNext]_mcvars
               PROVE  PlanTyped'
    OBVIOUS
  <2>1. ASSUME UNCHANGED <<scene, plan>>
        PROVE  PlanTyped'
    BY <2>1 DEF PlanTyped
  <2>2. CASE AddRange
    <3>1. PICK range \in MCRanges : plan' = [plan EXCEPT !.ranges = Append(@, range)]
      BY <2>2 DEF AddRange
    <3>2. plan \in [ranges : Seq(MCRanges), window : MCWindows]
      BY <2>2 DEF AddRange, PlanTyped
    <3>3. Append(plan.ranges, range) \in Seq(MCRanges)
      BY <3>2, AppendProperties
    <3> QED
      BY <3>1, <3>2, <3>3 DEF PlanTyped
  <2>3. CASE CitationStep
    BY <2>1, <2>3 DEF CitationStep, scenes
  <2>4. CASE LandFact \/ AddAsset \/ NextCall \/ Search \/ Confirm
    BY <2>1, <2>4 DEF LandFact, AddAsset, NextCall, Search, Confirm, citation
  <2>5. CASE UNCHANGED mcvars
    BY <2>1, <2>5 DEF mcvars, scenes
  <2> QED
    BY <2>2, <2>3, <2>4, <2>5 DEF MCNext
<1> QED
  BY <1>1, <1>2, PTL DEF MCSpec

\* Of any number of ranges, in windows in which a unit counts
\* (recording_diagnosis_rules.py:193-240).
THEOREM PlansAreCounted == MCSpec => []PlanCoverageIsExact
<1>1. PlanTyped => PlanCoverageIsExact
  <2> DEFINE ranges == plan.ranges
             window == plan.window
             longest == MaxDays * DayLength
  <2> SUFFICES ASSUME PlanTyped, scene = "plan", ranges # <<>>,
                      \A range \in Range(ranges) : range.from <= range.to,
                      \A i, j \in DOMAIN ranges : i # j =>
                        \A unit \in 0..(longest - 1) :
                          ~ (InRange(unit, ranges[i]) /\ InRange(unit, ranges[j]))
               PROVE  PlanCovers(ranges, window)
                        <=> \A unit \in Units(window) : \E range \in Range(ranges) : InRange(unit, range)
    BY DEF PlanCoverageIsExact
  <2>1. ranges \in Seq(MCRanges) /\ window \in MCWindows
    BY DEF PlanTyped
  <2>2. longest \in Nat /\ longest < 1000 /\ DayLength \in Nat \ {0}
    BY UnitsCount
  <2>3. /\ window.from \in 0..(longest - 1) /\ window.to \in 1..longest /\ window.from < window.to
    BY <2>1 DEF MCWindows
  <2> HIDE DEF longest, window
  <2>4. /\ IsWindow(window) /\ window.to - window.from < 1000
        /\ Units(window) \subseteq 0..(longest - 1)
    BY <2>2, <2>3 DEF IsWindow, Units
  <2>5. Range(ranges) = {ranges[i] : i \in DOMAIN ranges}
    BY DEF Range
  <2>6. ASSUME NEW i \in DOMAIN ranges
        PROVE  IsRange(ranges[i])
    <3>1. ranges[i] \in MCRanges
      BY <2>1, ElementOfSeq
    <3>2. ranges[i].from <= ranges[i].to
      BY <2>5
    <3> QED
      BY <3>1, <3>2 DEF MCRanges, IsRange
  <2> HIDE DEF ranges
  <2>7. \A i, j \in DOMAIN ranges : i # j =>
           \A unit \in Units(window) : ~ (InRange(unit, ranges[i]) /\ InRange(unit, ranges[j]))
    BY <2>4
  <2>8. PlanCovers(ranges, window)
          <=> \A unit \in Units(window) : \E i \in DOMAIN ranges : InRange(unit, ranges[i])
    BY <2>2, <2>4, <2>6, <2>7, CoverageIsExact
  <2> QED
    BY <2>5, <2>8
<1> QED
  BY <1>1, PlanTypedHolds, PTL

------------------------------------------------------------------------------
(* The searches. *)

\* A strict order of all of S.
IsOrder(S, R) ==
  /\ \A i \in S : <<i, i>> \notin R
  /\ \A i, j, k \in S : <<i, j>> \in R /\ <<j, k>> \in R => <<i, k>> \in R
  /\ \A i, j \in S : i = j \/ <<i, j>> \in R \/ <<j, i>> \in R

\* How many are ahead of i.
Behind(S, R, i) == Cardinality({j \in S : <<j, i>> \in R})

\* Counting what is ahead of each numbers the items of an order from 0 on.
LEMMA OrderIsNumbered ==
  ASSUME NEW S, IsFiniteSet(S), NEW R, IsOrder(S, R)
  PROVE  /\ Cardinality(S) \in Nat
         /\ \A i \in S : Behind(S, R, i) \in 0..(Cardinality(S) - 1)
         /\ \A i, j \in S : <<i, j>> \in R => Behind(S, R, i) < Behind(S, R, j)
         /\ \A i, j \in S : Behind(S, R, i) = Behind(S, R, j) => i = j
         /\ \A k \in 0..(Cardinality(S) - 1) : \E i \in S : Behind(S, R, i) = k
<1> DEFINE n == Cardinality(S)
           ahead(i) == {j \in S : <<j, i>> \in R}
<1>1. n \in Nat
  BY FS_CardinalityType
<1>2. ASSUME NEW i \in S
      PROVE  /\ ahead(i) \in SUBSET S /\ i \notin ahead(i) /\ IsFiniteSet(ahead(i))
             /\ Cardinality(ahead(i)) \in Nat /\ Cardinality(ahead(i)) < n
             /\ Behind(S, R, i) = Cardinality(ahead(i))
  <2>1. ahead(i) \in SUBSET S /\ i \notin ahead(i)
    BY DEF IsOrder
  <2>2. Behind(S, R, i) = Cardinality(ahead(i))
    BY DEF Behind
  <2> HIDE DEF ahead
  <2>3. /\ IsFiniteSet(ahead(i)) /\ Cardinality(ahead(i)) <= n
        /\ Cardinality(ahead(i)) = n => ahead(i) = S
    BY <2>1, FS_Subset
  <2>4. Cardinality(ahead(i)) \in Nat
    BY <2>3, FS_CardinalityType
  <2> QED
    BY <1>1, <2>1, <2>2, <2>3, <2>4
<1>3. ASSUME NEW i \in S, NEW j \in S, <<i, j>> \in R
      PROVE  Behind(S, R, i) < Behind(S, R, j)
  <2>1. ahead(i) \in SUBSET ahead(j) /\ i \in ahead(j)
    BY <1>3 DEF IsOrder
  <2> HIDE DEF ahead
  <2>2. /\ Cardinality(ahead(i)) <= Cardinality(ahead(j))
        /\ Cardinality(ahead(i)) # Cardinality(ahead(j))
    BY <1>2, <2>1, FS_Subset
  <2> QED
    BY <1>2, <2>2
<1> HIDE DEF ahead
<1>4. \A i \in S : Behind(S, R, i) \in 0..(n - 1)
  BY <1>1, <1>2
<1>5. ASSUME NEW i \in S, NEW j \in S, Behind(S, R, i) = Behind(S, R, j)
      PROVE  i = j
  <2>1. <<i, j>> \notin R /\ <<j, i>> \notin R
    BY <1>1, <1>3, <1>4, <1>5
  <2> QED
    BY <2>1 DEF IsOrder
<1>6. \A k \in 0..(n - 1) : \E i \in S : Behind(S, R, i) = k
  <2> DEFINE number == [i \in S |-> Behind(S, R, i)]
  <2>1. number \in [S -> 0..(n - 1)]
    BY <1>4
  <2>2. \A i, j \in S : number[i] = number[j] => i = j
    BY <1>5
  <2> HIDE DEF number
  <2>3. number \in Injection(S, 0..(n - 1))
    BY <2>1, <2>2, Fun_IsInj
  <2>4. IsFiniteSet(0..(n - 1)) /\ Cardinality(0..(n - 1)) = n
    BY <1>1, FS_Interval
  <2>5. number \in Surjection(S, 0..(n - 1))
    BY <2>3, <2>4, FS_Injection
  <2>6. \A k \in 0..(n - 1) : \E i \in S : number[i] = k
    BY <2>5 DEF Surjection
  <2> QED
    BY <2>6 DEF number
<1> QED
  BY <1>1, <1>3, <1>4, <1>5, <1>6

\* Scores are compared as fractions are.
Fraction == [over : Nat, under : Nat \ {0}]

LEMMA ProductsCompare ==
  ASSUME NEW x \in Nat, NEW y \in Nat, NEW z \in Nat \ {0}
  PROVE  /\ x * z \in Nat
         /\ x * z > y * z <=> x > y
  OBVIOUS

LEMMA FractionsCompare ==
  ASSUME NEW x \in Fraction, NEW y \in Fraction, NEW z \in Fraction
  PROVE  /\ ~ Retrieval!Higher(x, x)
         /\ Retrieval!Higher(x, y) => ~ Retrieval!Higher(y, x)
         /\ ~ Retrieval!Higher(y, x) /\ ~ Retrieval!Higher(z, y) => ~ Retrieval!Higher(z, x)
<1>1. /\ x.over \in Nat /\ x.under \in Nat \ {0}
      /\ y.over \in Nat /\ y.under \in Nat \ {0}
      /\ z.over \in Nat /\ z.under \in Nat \ {0}
  BY DEF Fraction
<1>2. \A a, b, c, d, e, f \in Nat : b # 0 /\ d # 0 /\ f # 0 /\ a * d >= c * b /\ c * f >= e * d
                                      => a * f >= e * b
  <2> SUFFICES ASSUME NEW a \in Nat, NEW b \in Nat \ {0}, NEW c \in Nat, NEW d \in Nat \ {0},
                      NEW e \in Nat, NEW f \in Nat \ {0},
                      a * d >= c * b, c * f >= e * d, a * f < e * b
               PROVE  FALSE
    OBVIOUS
  <2>1. a * f \in Nat /\ e * b \in Nat /\ a * d \in Nat /\ c * b \in Nat /\ c * f \in Nat /\ e * d \in Nat
    OBVIOUS
  <2>2. (e * b) * d > (a * f) * d
    BY <2>1, ProductsCompare
  <2>3. (a * d) * f >= (c * b) * f
    BY <2>1, ProductsCompare
  <2>4. (c * f) * b >= (e * d) * b
    BY <2>1, ProductsCompare
  <2>5. /\ (a * f) * d = (a * d) * f /\ (c * b) * f = (c * f) * b /\ (e * d) * b = (e * b) * d
        /\ (a * f) * d \in Nat /\ (c * b) * f \in Nat /\ (e * d) * b \in Nat
    OBVIOUS
  <2> QED
    BY <2>2, <2>3, <2>4, <2>5
<1>3. /\ x.over * y.under \in Nat /\ y.over * x.under \in Nat
      /\ y.over * z.under \in Nat /\ z.over * y.under \in Nat
      /\ x.over * z.under \in Nat /\ z.over * x.under \in Nat /\ x.over * x.under \in Nat
  BY <1>1
<1> QED
  BY <1>1, <1>2, <1>3 DEF Retrieval!Higher

\* Items are told apart by their ids.
Named(items) ==
  /\ IsFiniteSet(items)
  /\ \A i \in items : i.id \in Nat
  /\ \A i, j \in items : i.id = j.id => i = j

\* Who is ahead of whom, as a relation.
AheadIn(score) == {p \in (DOMAIN score) \X (DOMAIN score) : Retrieval!Ahead(score, p[1], p[2])}

\* Scores, and ids where they are equal, order the items.
LEMMA ScoresOrder ==
  ASSUME NEW items, Named(items), NEW score \in [items -> Fraction]
  PROVE  IsOrder(items, AheadIn(score))
<1>1. \A i, j \in items : <<i, j>> \in AheadIn(score)
         <=> \/ Retrieval!Higher(score[i], score[j])
             \/ ~ Retrieval!Higher(score[j], score[i]) /\ i.id < j.id
  BY DEF AheadIn, Retrieval!Ahead
<1>2. \A i \in items : score[i] \in Fraction /\ i.id \in Nat
  BY DEF Named
<1>3. ASSUME NEW i \in items
      PROVE  <<i, i>> \notin AheadIn(score)
  BY <1>1, <1>2, FractionsCompare
<1>4. ASSUME NEW i \in items, NEW j \in items, NEW k \in items,
             <<i, j>> \in AheadIn(score), <<j, k>> \in AheadIn(score)
      PROVE  <<i, k>> \in AheadIn(score)
  <2> DEFINE x == score[i]
             y == score[j]
             z == score[k]
  <2>1. x \in Fraction /\ y \in Fraction /\ z \in Fraction /\ i.id \in Nat /\ j.id \in Nat /\ k.id \in Nat
    BY <1>2
  <2>2. /\ Retrieval!Higher(x, y) \/ (~ Retrieval!Higher(y, x) /\ i.id < j.id)
        /\ Retrieval!Higher(y, z) \/ (~ Retrieval!Higher(z, y) /\ j.id < k.id)
    BY <1>1, <1>4
  <2>3. <<i, k>> \in AheadIn(score) <=> Retrieval!Higher(x, z) \/ (~ Retrieval!Higher(z, x) /\ i.id < k.id)
    BY <1>1
  <2> HIDE DEF x, y, z
  <2>4. /\ ~ Retrieval!Higher(y, x) /\ ~ Retrieval!Higher(z, y)
        /\ ~ Retrieval!Higher(z, x)
    BY <2>1, <2>2, FractionsCompare
  <2>5. CASE i.id < j.id /\ j.id < k.id
    BY <2>1, <2>3, <2>4, <2>5
  <2>6. CASE Retrieval!Higher(x, y)
    <3>1. ~ Retrieval!Higher(x, z) => ~ Retrieval!Higher(x, y)
      BY <2>1, <2>4, FractionsCompare
    <3> QED
      BY <2>3, <2>6, <3>1
  <2>7. CASE Retrieval!Higher(y, z)
    <3>1. ~ Retrieval!Higher(x, z) => ~ Retrieval!Higher(y, z)
      BY <2>1, <2>4, FractionsCompare
    <3> QED
      BY <2>3, <2>7, <3>1
  <2> QED
    BY <2>2, <2>5, <2>6, <2>7
<1>5. ASSUME NEW i \in items, NEW j \in items, i # j
      PROVE  <<i, j>> \in AheadIn(score) \/ <<j, i>> \in AheadIn(score)
  <2>1. i.id \in Nat /\ j.id \in Nat /\ i.id # j.id
    BY <1>5 DEF Named
  <2> QED
    BY <1>1, <2>1
<1> QED
  BY <1>3, <1>4, <1>5 DEF IsOrder

\* The instance counts as the library does.
LEMMA CountedAlike == \A S : Retrieval!Cardinality(S) = Cardinality(S)
  BY DEF Retrieval!Cardinality, Cardinality

\* A ranking has every item once, and the higher scores first.
LEMMA RankingIs ==
  ASSUME NEW score, Named(DOMAIN score), score \in [DOMAIN score -> Fraction]
  PROVE  LET items == DOMAIN score
             r == Retrieval!Ranking(score)
         IN  /\ r \in Seq(items) /\ Len(r) = Cardinality(items)
             /\ \A i \in items : \E k \in 1..Len(r) : r[k] = i
             /\ \A k, m \in 1..Len(r) : r[k] = r[m] => k = m
             /\ \A k, m \in 1..Len(r) : Retrieval!Ahead(score, r[k], r[m]) => k < m
<1> DEFINE items == DOMAIN score
           r == Retrieval!Ranking(score)
           n == Cardinality(items)
           R == AheadIn(score)
           b(i) == Behind(items, R, i)
<1>2. /\ n \in Nat
      /\ \A i \in items : b(i) \in 0..(n - 1)
      /\ \A i, j \in items : <<i, j>> \in R => b(i) < b(j)
      /\ \A i, j \in items : b(i) = b(j) => i = j
      /\ \A k \in 0..(n - 1) : \E i \in items : b(i) = k
  BY ScoresOrder, OrderIsNumbered DEF Named
<1>3. ASSUME NEW i \in items
      PROVE  Retrieval!Cardinality({j \in items : Retrieval!Ahead(score, j, i)}) = b(i)
  <2>1. {j \in items : Retrieval!Ahead(score, j, i)} = {j \in items : <<j, i>> \in R}
    BY DEF AheadIn
  <2> QED
    BY <2>1, CountedAlike DEF Behind
<1>4. r = [k \in 1..n |-> CHOOSE i \in items :
                             Retrieval!Cardinality({j \in items : Retrieval!Ahead(score, j, i)}) = k - 1]
  <2>1. r = [k \in 1..Retrieval!Cardinality(items) |->
               CHOOSE i \in items :
                 Retrieval!Cardinality({j \in items : Retrieval!Ahead(score, j, i)}) = k - 1]
    BY DEF Retrieval!Ranking
  <2>2. Retrieval!Cardinality(items) = n
    BY CountedAlike
  <2> HIDE DEF r, items, n
  <2> QED
    BY <2>1, <2>2
<1> HIDE DEF r, n, b
<1>5. ASSUME NEW k \in 1..n
      PROVE  r[k] \in items /\ b(r[k]) = k - 1
  <2>1. k - 1 \in 0..(n - 1)
    BY <1>2
  <2>2. \E i \in items : Retrieval!Cardinality({j \in items : Retrieval!Ahead(score, j, i)}) = k - 1
    BY <1>2, <1>3, <2>1
  <2>3. /\ r[k] \in items
        /\ Retrieval!Cardinality({j \in items : Retrieval!Ahead(score, j, r[k])}) = k - 1
    BY <1>4, <2>2
  <2> QED
    BY <1>3, <2>3
<1>6. r \in [1..n -> items]
  BY <1>4, <1>5
<1>7. r \in Seq(items) /\ Len(r) = n
  BY <1>2, <1>6, LenProperties DEF Seq
<1>8. ASSUME NEW i \in items
      PROVE  \E k \in 1..n : r[k] = i
  <2>1. b(i) + 1 \in 1..n /\ (b(i) + 1) - 1 = b(i)
    BY <1>2
  <2>2. r[b(i) + 1] \in items /\ b(r[b(i) + 1]) = b(i)
    BY <1>5, <2>1
  <2> QED
    BY <1>2, <2>1, <2>2
<1>9. ASSUME NEW k \in 1..n, NEW m \in 1..n, r[k] = r[m]
      PROVE  k = m
  <2>1. k - 1 = m - 1
    BY <1>5, <1>9
  <2> QED
    BY <2>1
<1>10. ASSUME NEW k \in 1..n, NEW m \in 1..n, Retrieval!Ahead(score, r[k], r[m])
       PROVE  k < m
  <2>1. <<r[k], r[m]>> \in R
    BY <1>5, <1>10 DEF AheadIn
  <2>2. k - 1 < m - 1
    BY <1>2, <1>5, <2>1
  <2> QED
    BY <2>2
<1> QED
  BY <1>7, <1>8, <1>9, <1>10 DEF r, n

\* In a ranking without repetition the place of an item is where it stands.
LEMMA PlaceIs ==
  ASSUME NEW list, NEW k \in DOMAIN list, \A m \in DOMAIN list : list[m] = list[k] => m = k
  PROVE  Retrieval!Place(list, list[k]) = k
  BY DEF Retrieval!Place

\* So do ranges.
LEMMA RangesAlike == \A list : Retrieval!Range(list) = {list[k] : k \in DOMAIN list}
  BY DEF Retrieval!Range

\* The first ones of a ranking are what a search answers.
LEMMA FirstOnesAreBest ==
  ASSUME NEW score, Named(DOMAIN score), score \in [DOMAIN score -> Fraction], NEW limit \in Nat
  PROVE  LET items == DOMAIN score
             found == Retrieval!Below(limit, Retrieval!Ranking(score))
             answered == Retrieval!Range(found)
         IN  /\ answered \subseteq items /\ Retrieval!Cardinality(answered) = Len(found)
             /\ Len(found) = IF Cardinality(items) < limit THEN Cardinality(items) ELSE limit
             /\ \A i, j \in items :
                  Retrieval!Ahead(score, i, j) /\ j \in answered =>
                     i \in answered /\ Retrieval!Place(found, i) < Retrieval!Place(found, j)
<1> DEFINE items == DOMAIN score
           r == Retrieval!Ranking(score)
           n == Cardinality(items)
           m == IF n < limit THEN n ELSE limit
           found == Retrieval!Below(limit, r)
           answered == Retrieval!Range(found)
<1>1. /\ r \in Seq(items) /\ Len(r) = n
      /\ \A i \in items : \E k \in 1..n : r[k] = i
      /\ \A k, l \in 1..n : r[k] = r[l] => k = l
      /\ \A k, l \in 1..n : Retrieval!Ahead(score, r[k], r[l]) => k < l
  BY RankingIs
<1>2. n \in Nat
  BY FS_CardinalityType DEF Named
<1> HIDE DEF r, n
<1>3. m \in Nat /\ m <= n /\ \A k \in 1..m : k \in 1..n
  BY <1>2
<1>4. found = SubSeq(r, 1, m)
  BY <1>1 DEF Retrieval!Below
<1> HIDE DEF m, found
<1>5. found \in Seq(items) /\ Len(found) = m /\ \A k \in 1..m : found[k] = r[k]
  <2> HIDE DEF items
  <2>1. 1 \in 1..(Len(r) + 1) /\ m \in 0..Len(r)
    BY <1>1, <1>2, <1>3
  <2> QED
    BY <1>1, <1>2, <1>3, <1>4, <2>1, SubSeqProperties
<1>6. DOMAIN found = 1..m
  BY <1>5, LenProperties
<1>7. answered = {found[k] : k \in 1..m}
  BY <1>6, RangesAlike
<1> HIDE DEF answered
<1>8. answered \subseteq items
  BY <1>1, <1>3, <1>5, <1>7
<1>9. ASSUME NEW k \in 1..m, NEW l \in 1..m, found[k] = found[l]
      PROVE  k = l
  BY <1>1, <1>3, <1>5, <1>9
<1>10. Cardinality(answered) = m
  <2>1. found \in [1..m -> answered] /\ \A i \in answered : \E k \in 1..m : found[k] = i
    BY <1>5, <1>6, <1>7, LenProperties
  <2>2. found \in Bijection(1..m, answered)
    BY <1>9, <2>1, Fun_IsBij
  <2>3. ExistsBijection(1..m, answered)
    BY <2>2, Fun_ExistsBij
  <2>4. IsFiniteSet(1..m) /\ Cardinality(1..m) = m
    BY <1>3, FS_Interval
  <2> QED
    BY <2>3, <2>4, FS_Bijection
<1>11. ASSUME NEW i \in items, NEW j \in items, Retrieval!Ahead(score, i, j), j \in answered
       PROVE  i \in answered /\ Retrieval!Place(found, i) < Retrieval!Place(found, j)
  <2>1. PICK l \in 1..m : found[l] = j
    BY <1>7, <1>11
  <2>2. PICK k \in 1..n : r[k] = i
    BY <1>1
  <2>3. r[l] = j /\ l \in 1..n
    BY <1>3, <1>5, <2>1
  <2>4. k < l
    BY <1>1, <1>11, <2>2, <2>3
  <2>5. k \in 1..m
    BY <1>3, <2>1, <2>2, <2>4
  <2>6. found[k] = i
    BY <1>5, <2>2, <2>5
  <2>7. Retrieval!Place(found, i) = k /\ Retrieval!Place(found, j) = l
    BY <1>6, <1>9, <2>1, <2>5, <2>6, PlaceIs
  <2> QED
    BY <1>7, <2>4, <2>5, <2>6, <2>7
<1> QED
  BY <1>5, <1>8, <1>10, <1>11, CountedAlike DEF m, n, found, answered, r

\* A knowledge base with its measures.
Stored(store) ==
  /\ Named(store)
  /\ \A i \in store : i.words \in Nat /\ i.near \in Nat

\* What was embedded of an item is its text, which no review changes.
CacheOf(cache, store) == \A v \in cache, i \in store : v.id = i.id => v.near = i.near

\* The candidates are part of it.
LEMMA CandidatesAre ==
  ASSUME NEW store, Stored(store), NEW fault
  PROVE  /\ Retrieval!Candidates(store, fault) \subseteq store
         /\ Stored(Retrieval!Candidates(store, fault))
<1>1. Retrieval!Candidates(store, fault) \subseteq store
  BY DEF Retrieval!Candidates
<1> QED
  BY <1>1, FS_Subset DEF Stored, Named

\* What is embedded anew is embedded of the items as they are.
LEMMA CacheStays ==
  ASSUME NEW store, Stored(store), NEW items \in SUBSET store,
         NEW cache, CacheOf(cache, store), NEW up
  PROVE  CacheOf(Retrieval!CacheAfter(items, cache, up), store)
<1> DEFINE new == {[id |-> i.id, updated |-> i.updated, near |-> i.near] :
                     i \in Retrieval!Missing(items, cache)}
<1>1. Retrieval!Missing(items, cache) \subseteq store
  BY DEF Retrieval!Missing
<1>2. CacheOf(new, store)
  BY <1>1 DEF CacheOf, Stored, Named
<1>3. Retrieval!CacheAfter(items, cache, up) \in {cache, cache \cup new}
  BY DEF Retrieval!CacheAfter
<1> HIDE DEF new
<1> QED
  BY <1>2, <1>3 DEF CacheOf

\* Where nothing is missing, each item has its own vector.
LEMMA VectorsAreTrue ==
  ASSUME NEW store, NEW items \in SUBSET store, NEW vectors, CacheOf(vectors, store),
         Retrieval!Missing(items, vectors) = {}, NEW i \in items
  PROVE  Retrieval!Vector(vectors, i).near = i.near
<1>1. Retrieval!Key(i) \in Retrieval!CachedKeys(vectors)
  BY DEF Retrieval!Missing
<1>2. \E v \in vectors : <<v.id, v.updated>> = Retrieval!Key(i)
  BY <1>1 DEF Retrieval!CachedKeys
<1>3. PICK v \in vectors : v = Retrieval!Vector(vectors, i) /\ <<v.id, v.updated>> = Retrieval!Key(i)
  BY <1>2 DEF Retrieval!Vector
<1> QED
  BY <1>3 DEF Retrieval!Key, CacheOf

\* A service that answers twice fails only for a batch that is too large.
LEMMA EmbeddingFails ==
  ASSUME NEW store, Stored(store), NEW items \in SUBSET store, NEW cache,
         ~ Retrieval!Embedded(items, cache, TRUE, TRUE)
  PROVE  Retrieval!Cardinality(Retrieval!Missing(items, cache)) > 2
<1> DEFINE missing == Retrieval!Missing(items, cache)
           new == {[id |-> i.id, updated |-> i.updated, near |-> i.near] : i \in missing}
<1>1. IsFiniteSet(missing) /\ Retrieval!Cardinality(missing) = Cardinality(missing)
  BY FS_Subset, CountedAlike DEF Retrieval!Missing, Stored, Named
<1>2. Cardinality(missing) \in Nat
  BY <1>1, FS_CardinalityType
<1>3. Retrieval!Missing(items, cache \cup new) = {}
  <2> SUFFICES ASSUME NEW i \in items
               PROVE  Retrieval!Key(i) \in Retrieval!CachedKeys(cache \cup new)
    BY DEF Retrieval!Missing
  <2>1. CASE i \in missing
    <3>1. PICK v \in cache \cup new : v = [id |-> i.id, updated |-> i.updated, near |-> i.near]
      BY <2>1
    <3>2. v.id = i.id /\ v.updated = i.updated
      BY <3>1
    <3> HIDE DEF new
    <3> QED
      BY <3>2 DEF Retrieval!CachedKeys, Retrieval!Key
  <2>2. CASE i \notin missing
    <3>1. Retrieval!Key(i) \in Retrieval!CachedKeys(cache)
      BY <2>2 DEF Retrieval!Missing
    <3> QED
      BY <3>1 DEF Retrieval!CachedKeys
  <2> QED
    BY <2>1, <2>2
<1>4. Retrieval!CacheAfter(items, cache, TRUE) # cache \cup new
  BY <1>3 DEF Retrieval!Embedded
<1>5. ~ (Retrieval!Cardinality(missing) <= 2)
  BY <1>4 DEF Retrieval!CacheAfter, Retrieval!Embeds, Retrieval!Accepts
<1> QED
  BY <1>1, <1>2, <1>5

\* What AnswersWell says of one item and of two, by name.
FoundByWords(how, blank, i) == how # "semantic" /\ (blank \/ i.words >= Retrieval!MinWords)
FoundByLikeness(how, i) == how \in {"hybrid", "semantic"} /\ i.near >= 1
Findable(store, fault, how, blank) ==
  {i \in Retrieval!Candidates(store, fault) : FoundByWords(how, blank, i) \/ FoundByLikeness(how, i)}
Precedes(how, blank, i, j) ==
  \/ /\ FoundByWords(how, blank, i) /\ FoundByLikeness(how, i)
     /\ ~ (FoundByWords(how, blank, j) /\ FoundByLikeness(how, j))
  \/ /\ how # "semantic" => ~ blank /\ FoundByWords(how, blank, i) /\ i.words > j.words
     /\ how \in {"hybrid", "semantic"} => FoundByLikeness(how, i) /\ i.near > j.near

\* A search answers well that takes the first ones by a score in which comes first
\* what must.
LEMMA ScoreAnswersWell ==
  ASSUME NEW store, Stored(store), NEW fault, NEW blank, NEW limit \in Nat, NEW cache,
         NEW up, NEW upAfter, NEW answer, NEW score,
         DOMAIN score = Findable(store, fault, answer.how.mode, blank),
         score \in [DOMAIN score -> Fraction],
         answer.found = Retrieval!Below(limit, Retrieval!Ranking(score)),
         \A i, j \in DOMAIN score :
            Precedes(answer.how.mode, blank, i, j) => Retrieval!Ahead(score, i, j),
         answer.how.fallback /\ up /\ upAfter =>
            Retrieval!Cardinality(Retrieval!Missing(Retrieval!Candidates(store, fault), cache)) > 2
  PROVE  Retrieval!AnswersWell(store, fault, blank, limit, cache, up, upAfter, answer)
<1> DEFINE how == answer.how.mode
           items == Retrieval!Candidates(store, fault)
           findable == Findable(store, fault, how, blank)
           found == answer.found
           answered == Retrieval!Range(found)
<1>1. Named(findable)
  <2>1. findable \subseteq store
    BY DEF Findable, Retrieval!Candidates
  <2> QED
    BY <2>1, FS_Subset DEF Stored, Named
<1>2. /\ answered \subseteq findable /\ Retrieval!Cardinality(answered) = Len(found)
      /\ Len(found) = IF Cardinality(findable) < limit THEN Cardinality(findable) ELSE limit
      /\ \A i, j \in findable :
           Retrieval!Ahead(score, i, j) /\ j \in answered =>
              i \in answered /\ Retrieval!Place(found, i) < Retrieval!Place(found, j)
  BY <1>1, FirstOnesAreBest
<1>3. findable = {i \in items : \/ (how # "semantic" /\ (blank \/ i.words >= Retrieval!MinWords))
                               \/ (how \in {"hybrid", "semantic"} /\ i.near >= 1)}
  BY DEF Findable, FoundByWords, FoundByLikeness
<1>4. items = {i \in store : i.status = "confirmed" /\ i.fault = fault}
  BY DEF Retrieval!Candidates
<1>5. Retrieval!Cardinality(findable) = Cardinality(findable)
  BY CountedAlike
<1>6. \A i, j \in findable :
         Precedes(how, blank, i, j) /\ j \in answered =>
            i \in answered /\ Retrieval!Place(found, i) < Retrieval!Place(found, j)
  BY <1>2
<1> HIDE DEF found, answered
<1> DEFINE all == {i \in store : i.status = "confirmed" /\ i.fault = fault}
           these == {i \in all : \/ (how # "semantic" /\ (blank \/ i.words >= Retrieval!MinWords))
                                 \/ (how \in {"hybrid", "semantic"} /\ i.near >= 1)}
<1>7. these = findable
  BY <1>3, <1>4
<1> QED
  <2> SUFFICES Retrieval!AnswersWell(store, fault, blank, limit, cache, up, upAfter, answer)
    OBVIOUS
  <2>1. /\ answered \subseteq these /\ Retrieval!Cardinality(answered) = Len(found)
        /\ Len(found) = IF Retrieval!Cardinality(these) < limit THEN Retrieval!Cardinality(these) ELSE limit
    BY <1>2, <1>5, <1>7
  <2>2. \A i, j \in these :
           Precedes(how, blank, i, j) /\ j \in answered =>
              i \in answered /\ Retrieval!Place(found, i) < Retrieval!Place(found, j)
    BY <1>6, <1>7
  <2>3. answer.how.fallback /\ up /\ upAfter =>
           Retrieval!Cardinality(Retrieval!Missing(all, cache)) > 2
    BY <1>4
  <2> QED
    BY <2>1, <2>2, <2>3 DEF Retrieval!AnswersWell, Precedes, FoundByWords, FoundByLikeness,
                            found, answered

\* The places of a ranking number its items, the higher scores first.
LEMMA RankingPlaces ==
  ASSUME NEW score, Named(DOMAIN score), score \in [DOMAIN score -> Fraction]
  PROVE  LET r == Retrieval!Ranking(score)
         IN  /\ Retrieval!Range(r) = DOMAIN score
             /\ \A i \in DOMAIN score : Retrieval!Place(r, i) \in 1..Cardinality(DOMAIN score)
             /\ \A i, j \in DOMAIN score :
                  Retrieval!Ahead(score, i, j) => Retrieval!Place(r, i) < Retrieval!Place(r, j)
<1> DEFINE items == DOMAIN score
           r == Retrieval!Ranking(score)
           n == Len(r)
<1>1. /\ r \in Seq(items) /\ n = Cardinality(items)
      /\ \A i \in items : \E k \in 1..n : r[k] = i
      /\ \A k, l \in 1..n : r[k] = r[l] => k = l
      /\ \A k, l \in 1..n : Retrieval!Ahead(score, r[k], r[l]) => k < l
  BY RankingIs
<1> HIDE DEF r
<1>2. DOMAIN r = 1..n /\ \A k \in 1..n : r[k] \in items
  BY <1>1, LenProperties
<1>3. Retrieval!Range(r) = items
  <2>1. Retrieval!Range(r) = {r[k] : k \in 1..n}
    BY <1>2, RangesAlike
  <2> HIDE DEF n, items
  <2> QED
    BY <1>1, <1>2, <2>1
<1>4. ASSUME NEW i \in items
      PROVE  Retrieval!Place(r, i) \in 1..n /\ r[Retrieval!Place(r, i)] = i
  <2>1. PICK k \in 1..n : r[k] = i
    BY <1>1
  <2>2. Retrieval!Place(r, i) = k
    BY <1>1, <1>2, <2>1, PlaceIs
  <2> QED
    BY <2>1, <2>2
<1>5. ASSUME NEW i \in items, NEW j \in items, Retrieval!Ahead(score, i, j)
      PROVE  Retrieval!Place(r, i) < Retrieval!Place(r, j)
  BY <1>1, <1>4, <1>5
<1> QED
  BY <1>1, <1>3, <1>4, <1>5 DEF r

\* A share of a ranking.
Part(weight, under) == [over |-> weight, under |-> under]

\* Among fifty ranks, what both rankings found is ahead of what one of them did.
LEMMA BothBeatOne ==
  ASSUME NEW A \in 61..110, NEW B \in 61..110, NEW C \in 61..110
  PROVE  /\ Retrieval!Higher(Retrieval!Sum(Part(12, A), Part(10, B)),
                             Retrieval!Sum(Part(12, C), Retrieval!Whole(0)))
         /\ Retrieval!Higher(Retrieval!Sum(Part(12, A), Part(10, B)),
                             Retrieval!Sum(Retrieval!Whole(0), Part(10, C)))
<1> DEFINE sum == 12 * B + 10 * A
           product == A * B
<1>1. A \in Nat /\ B \in Nat /\ C \in Nat /\ A >= 61 /\ B <= 110 /\ A <= 110 /\ C >= 61
  OBVIOUS
<1>2. product \in Nat /\ sum \in Nat
  BY <1>1
<1>3. (A - 61) * (110 - B) >= 0
  <2>1. \A x, y \in Nat : x * y >= 0
    OBVIOUS
  <2> QED
    BY <1>1, <2>1
<1>4. (A - 61) * (110 - B) = 110 * A - product - 6710 + 61 * B
  BY <1>1
<1> HIDE DEF product
<1>5. 61 * sum > 12 * product
  BY <1>1, <1>2, <1>3, <1>4
<1> HIDE DEF sum
<1>6. sum * C >= 61 * sum
  <2>1. sum * (C - 61) >= 0
    <3>1. \A x, y \in Nat : x * y >= 0
      OBVIOUS
    <3> QED
      BY <1>1, <1>2, <3>1
  <2>2. sum * (C - 61) = sum * C - 61 * sum
    BY <1>1, <1>2
  <2> QED
    BY <1>1, <1>2, <2>1, <2>2
<1>7. sum * C \in Nat
  BY <1>1, <1>2
<1>8. sum * C > 12 * product /\ sum * C > 10 * product
  BY <1>2, <1>5, <1>6, <1>7
<1>9. /\ Retrieval!Sum(Part(12, A), Part(10, B)) = [over |-> sum, under |-> product]
      /\ Retrieval!Sum(Part(12, C), Retrieval!Whole(0)) = [over |-> 12, under |-> C]
      /\ Retrieval!Sum(Retrieval!Whole(0), Part(10, C)) = [over |-> 10, under |-> C]
  BY <1>1 DEF Retrieval!Sum, Retrieval!Whole, Part, sum, product
<1> QED
  BY <1>8, <1>9 DEF Retrieval!Higher

\* Of two items both rankings found, the one that is earlier in both is ahead.
LEMMA EarlierIsHigher ==
  ASSUME NEW A \in Nat \ {0}, NEW B \in Nat \ {0}, NEW C \in Nat, NEW D \in Nat, A < C, B < D
  PROVE  Retrieval!Higher(Retrieval!Sum(Part(12, A), Part(10, B)),
                          Retrieval!Sum(Part(12, C), Part(10, D)))
<1>1. /\ A * B \in Nat \ {0} /\ C * D \in Nat \ {0} /\ B * D \in Nat \ {0} /\ A * C \in Nat \ {0}
  OBVIOUS
<1>2. C * (B * D) > A * (B * D)
  BY <1>1, ProductsCompare
<1>3. D * (A * C) > B * (A * C)
  BY <1>1, ProductsCompare
<1>4. /\ (12 * B + 10 * A) * (C * D) = 12 * (C * (B * D)) + 10 * (D * (A * C))
      /\ (12 * D + 10 * C) * (A * B) = 12 * (A * (B * D)) + 10 * (B * (A * C))
  OBVIOUS
<1>5. (12 * B + 10 * A) * (C * D) > (12 * D + 10 * C) * (A * B)
  BY <1>1, <1>2, <1>3, <1>4
<1>6. /\ Retrieval!Sum(Part(12, A), Part(10, B)) = [over |-> 12 * B + 10 * A, under |-> A * B]
      /\ Retrieval!Sum(Part(12, C), Part(10, D)) = [over |-> 12 * D + 10 * C, under |-> C * D]
  BY DEF Retrieval!Sum, Part
<1> QED
  BY <1>5, <1>6 DEF Retrieval!Higher

\* The scores the two rankings go by.
WordScore(items, blank) ==
  [i \in {i \in items : blank \/ i.words >= Retrieval!MinWords} |->
     Retrieval!Whole(IF blank THEN 0 ELSE i.words)]
NearScore(items) == [i \in {i \in items : i.near >= 1} |-> Retrieval!Whole(i.near)]

\* Whole numbers compare as fractions.
LEMMA WholesCompare ==
  ASSUME NEW x \in Nat, NEW y \in Nat
  PROVE  /\ Retrieval!Whole(x) \in Fraction
         /\ Retrieval!Higher(Retrieval!Whole(x), Retrieval!Whole(y)) <=> x > y
  BY DEF Retrieval!Whole, Retrieval!Higher, Fraction

\* What is ranked by words, and who is ahead.
LEMMA WordScoreIs ==
  ASSUME NEW items, Stored(items), NEW blank \in BOOLEAN
  PROVE  LET score == WordScore(items, blank)
         IN  /\ DOMAIN score = {i \in items : blank \/ i.words >= Retrieval!MinWords}
             /\ Named(DOMAIN score) /\ score \in [DOMAIN score -> Fraction]
             /\ Retrieval!KeywordRank(items, blank) = Retrieval!Ranking(score)
             /\ \A i, j \in DOMAIN score :
                  ~ blank /\ i.words > j.words => Retrieval!Ahead(score, i, j)
<1> DEFINE score == WordScore(items, blank)
           these == {i \in items : blank \/ i.words >= Retrieval!MinWords}
<1>1. DOMAIN score = these /\ \A i \in these : score[i] = Retrieval!Whole(IF blank THEN 0 ELSE i.words)
  BY DEF WordScore
<1>2. Named(these) /\ \A i \in these : i.words \in Nat
  BY FS_Subset DEF Stored, Named
<1>3. \A i \in these : score[i] \in Fraction
  BY <1>1, <1>2, WholesCompare
<1>4. Retrieval!KeywordRank(items, blank) = Retrieval!Ranking(score)
  BY DEF Retrieval!KeywordRank, WordScore
<1>5. score \in [these -> Fraction]
  <2>1. score = [i \in these |-> Retrieval!Whole(IF blank THEN 0 ELSE i.words)]
    BY DEF WordScore
  <2> HIDE DEF these, score
  <2> QED
    BY <1>1, <1>3, <2>1
<1> HIDE DEF these
<1>6. ASSUME NEW i \in these, NEW j \in these, ~ blank, i.words > j.words
      PROVE  Retrieval!Ahead(score, i, j)
  <2> HIDE DEF score
  <2> QED
    BY <1>1, <1>2, <1>6, WholesCompare DEF Retrieval!Ahead
<1> QED
  BY <1>1, <1>2, <1>4, <1>5, <1>6 DEF these

\* What is ranked by likeness, and who is ahead.
LEMMA NearsCompare ==
  ASSUME NEW items, Stored(items)
  PROVE  LET score == NearScore(items)
         IN  /\ DOMAIN score = {i \in items : i.near >= 1}
             /\ Named(DOMAIN score) /\ score \in [DOMAIN score -> Fraction]
             /\ \A i, j \in DOMAIN score : i.near > j.near => Retrieval!Ahead(score, i, j)
<1> DEFINE score == NearScore(items)
           these == {i \in items : i.near >= 1}
<1>1. DOMAIN score = these /\ \A i \in these : score[i] = Retrieval!Whole(i.near)
  BY DEF NearScore
<1>2. Named(these) /\ \A i \in these : i.near \in Nat
  BY FS_Subset DEF Stored, Named
<1>3. \A i \in these : score[i] \in Fraction
  BY <1>1, <1>2, WholesCompare
<1>4. score = [i \in these |-> Retrieval!Whole(i.near)]
  BY DEF NearScore
<1>5. score \in [these -> Fraction]
  <2> HIDE DEF these, score
  <2> QED
    BY <1>1, <1>3, <1>4
<1> HIDE DEF these
<1>6. ASSUME NEW i \in these, NEW j \in these, i.near > j.near
      PROVE  Retrieval!Ahead(score, i, j)
  <2> HIDE DEF score
  <2> QED
    BY <1>1, <1>2, <1>6, WholesCompare DEF Retrieval!Ahead
<1> QED
  BY <1>1, <1>2, <1>5, <1>6 DEF these

\* The vectors rank the items by their own nearness.
LEMMA NearsAreRanked ==
  ASSUME NEW store, NEW items \in SUBSET store, Stored(items), NEW vectors, CacheOf(vectors, store),
         Retrieval!Missing(items, vectors) = {}
  PROVE  Retrieval!SemanticRank(items, vectors) = Retrieval!Ranking(NearScore(items))
<1> DEFINE score == NearScore(items)
           these == {i \in items : i.near >= 1}
           near == [i \in items |-> Retrieval!Vector(vectors, i).near]
<1>1. score = [i \in these |-> Retrieval!Whole(i.near)]
  BY DEF NearScore
<1>2. \A i \in items : near[i] = i.near
  BY VectorsAreTrue
<1>3. Retrieval!SemanticRank(items, vectors)
        = Retrieval!Ranking([i \in {i \in items : near[i] >= 1} |-> Retrieval!Whole(near[i])])
  BY DEF Retrieval!SemanticRank
<1> HIDE DEF near
<1>4. {i \in items : near[i] >= 1} = these
  BY <1>2
<1> DEFINE seen == [i \in {i \in items : near[i] >= 1} |-> Retrieval!Whole(near[i])]
<1>5. seen = score
  <2>1. DOMAIN seen = these /\ \A i \in these : seen[i] = score[i]
    BY <1>1, <1>2, <1>4
  <2>2. seen = [i \in these |-> seen[i]] /\ score = [i \in these |-> score[i]]
    BY <1>1, <1>4
  <2> HIDE DEF seen, score, these
  <2> QED
    BY <2>1, <2>2
<1> QED
  BY <1>3, <1>5

\* What a ranking of at most fifty items gives to an item.
LEMMA ShareIs ==
  ASSUME NEW items, IsFiniteSet(items), Cardinality(items) <= 50,
         NEW score, Named(DOMAIN score), score \in [DOMAIN score -> Fraction],
         DOMAIN score \subseteq items, NEW weight \in Nat
  PROVE  LET r == Retrieval!Ranking(score)
         IN  /\ Retrieval!Range(r) = DOMAIN score
             /\ \A i : i \notin DOMAIN score => Retrieval!Share(weight, r, i) = Retrieval!Whole(0)
             /\ \A i \in DOMAIN score :
                  /\ 60 + Retrieval!Place(r, i) \in 61..110
                  /\ Retrieval!Share(weight, r, i) = Part(weight, 60 + Retrieval!Place(r, i))
             /\ \A i : Retrieval!Share(weight, r, i) \in Fraction
<1> DEFINE r == Retrieval!Ranking(score)
           n == Cardinality(DOMAIN score)
<1>1. /\ Retrieval!Range(r) = DOMAIN score
      /\ \A i \in DOMAIN score : Retrieval!Place(r, i) \in 1..n
  BY RankingPlaces
<1>2. n \in Nat /\ n <= 50
  <2>1. n <= Cardinality(items) /\ n \in Nat /\ Cardinality(items) \in Nat
    BY FS_Subset, FS_CardinalityType
  <2> HIDE DEF n
  <2> QED
    BY <2>1
<1> HIDE DEF r, n
<1>3. ASSUME NEW i \in DOMAIN score
      PROVE  60 + Retrieval!Place(r, i) \in 61..110
  <2>1. Retrieval!Place(r, i) \in 1..n
    BY <1>1
  <2> QED
    BY <1>2, <2>1
<1>4. ASSUME NEW i \in DOMAIN score
      PROVE  Retrieval!Share(weight, r, i) = Part(weight, 60 + Retrieval!Place(r, i))
  BY <1>1 DEF Retrieval!Share, Retrieval!RrfK, Part
<1>5. ASSUME NEW i, i \notin DOMAIN score
      PROVE  Retrieval!Share(weight, r, i) = Retrieval!Whole(0)
  BY <1>1, <1>5 DEF Retrieval!Share
<1>6. ASSUME NEW i
      PROVE  Retrieval!Share(weight, r, i) \in Fraction
  <2>1. CASE i \in DOMAIN score
    <3>1. 60 + Retrieval!Place(r, i) \in Nat \ {0}
      BY <1>3, <2>1
    <3> QED
      BY <1>4, <2>1, <3>1 DEF Part, Fraction
  <2>2. CASE i \notin DOMAIN score
    BY <1>5, <2>2, WholesCompare
  <2> QED
    BY <2>1, <2>2
<1> QED
  BY <1>1, <1>3, <1>4, <1>5, <1>6 DEF r

\* The score of the fused ranking.
FusedScore(words, nears) ==
  [i \in (DOMAIN words) \cup (DOMAIN nears) |->
     Retrieval!Sum(Retrieval!Share(12, Retrieval!Ranking(words), i),
                   Retrieval!Share(10, Retrieval!Ranking(nears), i))]

\* What fusing ranks: all that either way finds, and first what must come first.
LEMMA FusedScoreIs ==
  ASSUME NEW items, Stored(items), Cardinality(items) <= 50, NEW blank \in BOOLEAN
  PROVE  LET words == WordScore(items, blank)
             nears == NearScore(items)
             score == FusedScore(words, nears)
         IN  /\ DOMAIN score = {i \in items : \/ FoundByWords("hybrid", blank, i)
                                              \/ FoundByLikeness("hybrid", i)}
             /\ score \in [DOMAIN score -> Fraction]
             /\ Retrieval!Fused(Retrieval!Ranking(words), Retrieval!Ranking(nears))
                  = Retrieval!Ranking(score)
             /\ \A i, j \in DOMAIN score :
                  Precedes("hybrid", blank, i, j) => Retrieval!Ahead(score, i, j)
<1> DEFINE words == WordScore(items, blank)
           nears == NearScore(items)
           W == DOMAIN words
           N == DOMAIN nears
           byWords == Retrieval!Ranking(words)
           byNear == Retrieval!Ranking(nears)
           score == FusedScore(words, nears)
           w(i) == 60 + Retrieval!Place(byWords, i)
           v(i) == 60 + Retrieval!Place(byNear, i)
<1>0. IsFiniteSet(items) /\ CacheOf({}, items)
  BY DEF Stored, Named, CacheOf
<1>1. /\ W = {i \in items : FoundByWords("hybrid", blank, i)}
      /\ Named(W) /\ words \in [W -> Fraction]
      /\ \A i, j \in W : ~ blank /\ i.words > j.words => Retrieval!Ahead(words, i, j)
  BY WordScoreIs DEF FoundByWords
<1>2. /\ N = {i \in items : FoundByLikeness("hybrid", i)}
      /\ Named(N) /\ nears \in [N -> Fraction]
      /\ \A i, j \in N : i.near > j.near => Retrieval!Ahead(nears, i, j)
  BY NearsCompare DEF FoundByLikeness
<1> HIDE DEF words, nears
<1>3. W \subseteq items /\ N \subseteq items
  BY <1>1, <1>2
<1>4. /\ Retrieval!Range(byWords) = W
      /\ \A i : i \notin W => Retrieval!Share(12, byWords, i) = Retrieval!Whole(0)
      /\ \A i \in W : w(i) \in 61..110 /\ Retrieval!Share(12, byWords, i) = Part(12, w(i))
      /\ \A i : Retrieval!Share(12, byWords, i) \in Fraction
  BY <1>0, <1>1, <1>3, ShareIs
<1>5. /\ Retrieval!Range(byNear) = N
      /\ \A i : i \notin N => Retrieval!Share(10, byNear, i) = Retrieval!Whole(0)
      /\ \A i \in N : v(i) \in 61..110 /\ Retrieval!Share(10, byNear, i) = Part(10, v(i))
      /\ \A i : Retrieval!Share(10, byNear, i) \in Fraction
  BY <1>0, <1>2, <1>3, ShareIs
<1>6. /\ \A i, j \in W : ~ blank /\ i.words > j.words => Retrieval!Place(byWords, i) < Retrieval!Place(byWords, j)
      /\ \A i, j \in N : i.near > j.near => Retrieval!Place(byNear, i) < Retrieval!Place(byNear, j)
  BY <1>1, <1>2, RankingPlaces
<1>7. /\ score = [i \in W \cup N |-> Retrieval!Sum(Retrieval!Share(12, byWords, i),
                                                   Retrieval!Share(10, byNear, i))]
      /\ DOMAIN score = W \cup N
  BY DEF FusedScore
<1>8. Retrieval!Fused(byWords, byNear) = Retrieval!Ranking(score)
  <2>1. Retrieval!Fused(byWords, byNear)
          = Retrieval!Ranking([i \in Retrieval!Range(byWords) \cup Retrieval!Range(byNear) |->
                                 Retrieval!Sum(Retrieval!Share(12, byWords, i),
                                               Retrieval!Share(10, byNear, i))])
    BY DEF Retrieval!Fused
  <2> HIDE DEF byWords, byNear, score, W, N
  <2> QED
    BY <1>4, <1>5, <1>7, <2>1
<1> HIDE DEF byWords, byNear, score, W, N
<1>9. \A x, y \in Fraction : Retrieval!Sum(x, y) \in Fraction
  <2> SUFFICES ASSUME NEW x \in Fraction, NEW y \in Fraction
               PROVE  Retrieval!Sum(x, y) \in Fraction
    OBVIOUS
  <2>1. /\ x.over \in Nat /\ x.under \in Nat \ {0} /\ y.over \in Nat /\ y.under \in Nat \ {0}
    BY DEF Fraction
  <2>2. /\ x.over * y.under \in Nat /\ y.over * x.under \in Nat /\ x.under * y.under \in Nat \ {0}
    BY <2>1
  <2>3. x.over * y.under + y.over * x.under \in Nat
    BY <2>2
  <2> QED
    BY <2>2, <2>3 DEF Retrieval!Sum, Fraction
<1>10. score \in [W \cup N -> Fraction]
  BY <1>4, <1>5, <1>7, <1>9
<1>11. ASSUME NEW i \in W \cup N, NEW j \in W \cup N, Precedes("hybrid", blank, i, j)
       PROVE  Retrieval!Higher(score[i], score[j])
  <2>0. /\ score[i] = Retrieval!Sum(Retrieval!Share(12, byWords, i), Retrieval!Share(10, byNear, i))
        /\ score[j] = Retrieval!Sum(Retrieval!Share(12, byWords, j), Retrieval!Share(10, byNear, j))
    BY <1>7
  <2>1. /\ i \in W /\ i \in N
        /\ ~ (j \in W /\ j \in N) \/ (~ blank /\ i.words > j.words /\ i.near > j.near)
    BY <1>1, <1>2, <1>3, <1>11 DEF Precedes
  <2>2. /\ w(i) \in 61..110 /\ v(i) \in 61..110
        /\ score[i] = Retrieval!Sum(Part(12, w(i)), Part(10, v(i)))
    BY <1>4, <1>5, <2>0, <2>1
  <2>3. CASE j \in W /\ j \notin N
    <3>1. w(j) \in 61..110 /\ score[j] = Retrieval!Sum(Part(12, w(j)), Retrieval!Whole(0))
      BY <1>4, <1>5, <2>0, <2>3
    <3> HIDE DEF w, v
    <3> QED
      BY <2>2, <3>1, BothBeatOne
  <2>4. CASE j \notin W /\ j \in N
    <3>1. v(j) \in 61..110 /\ score[j] = Retrieval!Sum(Retrieval!Whole(0), Part(10, v(j)))
      BY <1>4, <1>5, <2>0, <2>4
    <3> HIDE DEF w, v
    <3> QED
      BY <2>2, <3>1, BothBeatOne
  <2>5. CASE j \in W /\ j \in N
    <3>1. /\ w(j) \in 61..110 /\ v(j) \in 61..110
          /\ score[j] = Retrieval!Sum(Part(12, w(j)), Part(10, v(j)))
      BY <1>4, <1>5, <2>0, <2>5
    <3>2. /\ Retrieval!Place(byWords, i) < Retrieval!Place(byWords, j)
          /\ Retrieval!Place(byNear, i) < Retrieval!Place(byNear, j)
      BY <1>6, <2>1, <2>5
    <3>3. w(i) < w(j) /\ v(i) < v(j)
      <4>1. /\ Retrieval!Place(byWords, i) \in Int /\ Retrieval!Place(byWords, j) \in Int
            /\ Retrieval!Place(byNear, i) \in Int /\ Retrieval!Place(byNear, j) \in Int
        BY <1>1, <1>2, <2>1, <2>5, RankingPlaces DEF W, N, byWords, byNear
      <4> QED
        BY <3>2, <4>1
    <3>4. w(i) \in Nat \ {0} /\ v(i) \in Nat \ {0} /\ w(j) \in Nat /\ v(j) \in Nat
      BY <2>2, <3>1
    <3> HIDE DEF w, v
    <3> QED
      BY <2>2, <3>1, <3>3, <3>4, EarlierIsHigher
  <2> QED
    BY <2>3, <2>4, <2>5
<1>12. DOMAIN score = {i \in items : \/ FoundByWords("hybrid", blank, i)
                                   \/ FoundByLikeness("hybrid", i)}
  BY <1>1, <1>2, <1>7
<1>13. /\ score \in [DOMAIN score -> Fraction]
       /\ \A i, j \in DOMAIN score :
            Precedes("hybrid", blank, i, j) => Retrieval!Ahead(score, i, j)
  BY <1>7, <1>10, <1>11 DEF Retrieval!Ahead
<1> QED
  BY <1>8, <1>12, <1>13 DEF byWords, byNear, score, words, nears

\* By words alone: what the repositories answer, and a hybrid search without vectors.
LEMMA KeywordAnswersWell ==
  ASSUME NEW store, Stored(store), NEW fault, NEW blank \in BOOLEAN, NEW limit \in Nat, NEW cache,
         NEW up, NEW upAfter, NEW answer, answer.how.mode \in {"repository", "keyword"},
         answer.found = Retrieval!Below(limit,
                          Retrieval!KeywordRank(Retrieval!Candidates(store, fault), blank)),
         answer.how.fallback /\ up /\ upAfter =>
            Retrieval!Cardinality(Retrieval!Missing(Retrieval!Candidates(store, fault), cache)) > 2
  PROVE  Retrieval!AnswersWell(store, fault, blank, limit, cache, up, upAfter, answer)
<1> DEFINE items == Retrieval!Candidates(store, fault)
           score == WordScore(items, blank)
<1>1. Stored(items)
  BY CandidatesAre
<1> HIDE DEF items
<1>2. /\ DOMAIN score = {i \in items : blank \/ i.words >= Retrieval!MinWords}
      /\ score \in [DOMAIN score -> Fraction]
      /\ Retrieval!KeywordRank(items, blank) = Retrieval!Ranking(score)
      /\ \A i, j \in DOMAIN score : ~ blank /\ i.words > j.words => Retrieval!Ahead(score, i, j)
  BY <1>1, WordScoreIs
<1> HIDE DEF score
<1>3. DOMAIN score = Findable(store, fault, answer.how.mode, blank)
  BY <1>2 DEF Findable, FoundByWords, FoundByLikeness, items
<1>4. \A i, j \in DOMAIN score :
         Precedes(answer.how.mode, blank, i, j) => Retrieval!Ahead(score, i, j)
  BY <1>2 DEF Precedes, FoundByWords, FoundByLikeness
<1>5. answer.found = Retrieval!Below(limit, Retrieval!Ranking(score))
  BY <1>2 DEF items
<1> QED
  BY <1>2, <1>3, <1>4, <1>5, ScoreAnswersWell

\* By likeness alone, or not at all (hybrid_knowledge_retriever.py:119-144), of any knowledge
\* base.
THEOREM SemanticAnswersWell ==
  ASSUME NEW store, Stored(store), NEW fault, NEW blank \in BOOLEAN, NEW limit \in Nat,
         NEW cache, CacheOf(cache, store), NEW up, NEW upAfter
  PROVE  Retrieval!AnswersWell(store, fault, blank, limit, cache, up, upAfter,
                               Retrieval!Semantic(store, fault, limit, cache, up, upAfter))
<1> DEFINE items == Retrieval!Candidates(store, fault)
           after == Retrieval!CacheAfter(items, cache, upAfter)
           answer == Retrieval!Semantic(store, fault, limit, cache, up, upAfter)
           score == NearScore(items)
<1>1. CASE ~ Retrieval!Embedded(items, cache, up, upAfter)
  <2>1. answer.how.mode = "error"
    BY <1>1 DEF Retrieval!Semantic, Retrieval!Mode
  <2> HIDE DEF answer
  <2>2. Retrieval!AnswersWell(store, fault, blank, limit, cache, up, upAfter, answer)
    BY <2>1 DEF Retrieval!AnswersWell
  <2> QED
    BY <2>2 DEF answer
<1>2. CASE Retrieval!Embedded(items, cache, up, upAfter)
  <2>1. /\ answer.how.mode = "semantic" /\ answer.how.fallback = FALSE
        /\ answer.found = Retrieval!Below(limit, Retrieval!SemanticRank(items, after))
    BY <1>2 DEF Retrieval!Semantic, Retrieval!Mode
  <2>2. items \subseteq store /\ Stored(items)
    BY CandidatesAre
  <2>3. CacheOf(after, store) /\ Retrieval!Missing(items, after) = {}
    BY <1>2, <2>2, CacheStays DEF Retrieval!Embedded
  <2> HIDE DEF items, after, answer
  <2>4. Retrieval!SemanticRank(items, after) = Retrieval!Ranking(score)
    BY <2>2, <2>3, NearsAreRanked
  <2>5. /\ DOMAIN score = {i \in items : i.near >= 1}
        /\ score \in [DOMAIN score -> Fraction]
        /\ \A i, j \in DOMAIN score : i.near > j.near => Retrieval!Ahead(score, i, j)
    BY <2>2, NearsCompare
  <2> HIDE DEF score
  <2>6. DOMAIN score = Findable(store, fault, answer.how.mode, blank)
    BY <2>1, <2>5 DEF Findable, FoundByWords, FoundByLikeness, items
  <2>7. \A i, j \in DOMAIN score :
           Precedes(answer.how.mode, blank, i, j) => Retrieval!Ahead(score, i, j)
    BY <2>1, <2>5 DEF Precedes, FoundByWords, FoundByLikeness
  <2>8. Retrieval!AnswersWell(store, fault, blank, limit, cache, up, upAfter, answer)
    BY <2>1, <2>4, <2>5, <2>6, <2>7, ScoreAnswersWell
  <2> QED
    BY <2>8 DEF answer
<1> QED
  BY <1>1, <1>2

\* By both, or by words where the vectors are not to be had (hybrid_knowledge_retriever.py:48-82),
\* of any knowledge base up to fifty items: of many more, an item that both ways found may
\* come after one that only one of them found.
THEOREM HybridAnswersWell ==
  ASSUME NEW store, Stored(store), Cardinality(store) <= 50, NEW fault, NEW blank \in BOOLEAN,
         NEW limit \in Nat, NEW cache, CacheOf(cache, store), NEW up \in BOOLEAN, NEW upAfter \in BOOLEAN
  PROVE  Retrieval!AnswersWell(store, fault, blank, limit, cache, up, upAfter,
                               Retrieval!Hybrid(store, fault, blank, limit, cache, up, upAfter))
<1> DEFINE items == Retrieval!Candidates(store, fault)
           after == Retrieval!CacheAfter(items, cache, upAfter)
           answer == Retrieval!Hybrid(store, fault, blank, limit, cache, up, upAfter)
<1>1. items \subseteq store /\ Stored(items)
  BY CandidatesAre
<1>2. CASE items # {} /\ ~ Retrieval!Embedded(items, cache, up, upAfter)
  <2>1. /\ answer.how.mode = "keyword"
        /\ answer.found = Retrieval!Below(limit, Retrieval!KeywordRank(items, blank))
    BY <1>2 DEF Retrieval!Hybrid, Retrieval!Mode
  <2>2. up /\ upAfter => Retrieval!Cardinality(Retrieval!Missing(items, cache)) > 2
    BY <1>1, <1>2, EmbeddingFails
  <2> HIDE DEF answer
  <2>3. Retrieval!AnswersWell(store, fault, blank, limit, cache, up, upAfter, answer)
    BY <2>1, <2>2, KeywordAnswersWell
  <2> QED
    BY <2>3 DEF answer
<1>3. CASE items # {} /\ Retrieval!Embedded(items, cache, up, upAfter)
  <2> DEFINE words == WordScore(items, blank)
             nears == NearScore(items)
             score == FusedScore(words, nears)
  <2>1. /\ answer.how.mode = "hybrid" /\ answer.how.fallback = FALSE
        /\ answer.found = Retrieval!Below(limit,
             Retrieval!Fused(Retrieval!KeywordRank(items, blank), Retrieval!SemanticRank(items, after)))
    BY <1>3 DEF Retrieval!Hybrid, Retrieval!Mode
  <2>2. CacheOf(after, store) /\ Retrieval!Missing(items, after) = {}
    BY <1>1, <1>3, CacheStays DEF Retrieval!Embedded
  <2>3. Cardinality(items) <= 50
    <3>1. IsFiniteSet(store) /\ IsFiniteSet(items) /\ Cardinality(items) <= Cardinality(store)
      BY <1>1, FS_Subset DEF Stored, Named
    <3>2. Cardinality(items) \in Nat /\ Cardinality(store) \in Nat
      BY <3>1, FS_CardinalityType
    <3> HIDE DEF items
    <3> QED
      BY <3>1, <3>2
  <2> HIDE DEF items, after, answer
  <2>4. Retrieval!SemanticRank(items, after) = Retrieval!Ranking(nears)
    BY <1>1, <2>2, NearsAreRanked
  <2>5. Retrieval!KeywordRank(items, blank) = Retrieval!Ranking(words)
    BY <1>1, WordScoreIs
  <2>6. /\ DOMAIN score = {i \in items : \/ FoundByWords("hybrid", blank, i)
                                        \/ FoundByLikeness("hybrid", i)}
        /\ score \in [DOMAIN score -> Fraction]
        /\ Retrieval!Fused(Retrieval!Ranking(words), Retrieval!Ranking(nears))
             = Retrieval!Ranking(score)
        /\ \A i, j \in DOMAIN score :
             Precedes("hybrid", blank, i, j) => Retrieval!Ahead(score, i, j)
    BY <1>1, <2>3, FusedScoreIs
  <2> HIDE DEF score, words, nears
  <2>7. DOMAIN score = Findable(store, fault, answer.how.mode, blank)
    BY <2>1, <2>6 DEF Findable, items
  <2>8. Retrieval!AnswersWell(store, fault, blank, limit, cache, up, upAfter, answer)
    BY <2>1, <2>4, <2>5, <2>6, <2>7, ScoreAnswersWell
  <2> QED
    BY <2>8 DEF answer
<1>4. CASE items = {}
  <2>1. /\ answer.how.mode = "hybrid" /\ answer.how.fallback = FALSE /\ answer.found = <<>>
    BY <1>4 DEF Retrieval!Hybrid, Retrieval!Mode
  <2>2. {i \in store : i.status = "confirmed" /\ i.fault = fault} = {}
    BY <1>4 DEF Retrieval!Candidates
  <2>3. Retrieval!Range(answer.found) = {} /\ Len(answer.found) = 0
    BY <2>1 DEF Retrieval!Range
  <2>4. Retrieval!Cardinality({}) = 0
    BY CountedAlike, FS_EmptySet
  <2> HIDE DEF answer
  <2> DEFINE of == {i \in store : i.status = "confirmed" /\ i.fault = fault}
             these == {i \in of : \/ (answer.how.mode # "semantic" /\ (blank \/ i.words >= Retrieval!MinWords))
                                  \/ (answer.how.mode \in {"hybrid", "semantic"} /\ i.near >= 1)}
  <2>5. these = {}
    BY <2>2
  <2>6. 0 < limit \/ limit = 0
    OBVIOUS
  <2> HIDE DEF these
  <2>7. /\ Retrieval!Cardinality(these) = 0 /\ \A i \in these : FALSE
        /\ Len(answer.found) = IF Retrieval!Cardinality(these) < limit
                               THEN Retrieval!Cardinality(these) ELSE limit
    BY <2>3, <2>4, <2>5, <2>6
  <2>8. Retrieval!Range(answer.found) \subseteq these /\ Retrieval!Cardinality(Retrieval!Range(answer.found)) = Len(answer.found)
    BY <2>3, <2>4
  <2>9. Retrieval!AnswersWell(store, fault, blank, limit, cache, up, upAfter, answer)
    BY <2>1, <2>7, <2>8 DEF Retrieval!AnswersWell, these
  <2> QED
    BY <2>9 DEF answer
<1> QED
  BY <1>2, <1>3, <1>4

\* Items, and the answer to a question put with the cache it was put with.
StoredItems == [id : Nat, updated : Nat, status : {"candidate", "confirmed"},
                fault : {"camera", "alarm"}, words : Nat, near : Nat]

AnswerFrom(store, asked) ==
  CASE asked.kind = "repository" ->
          Retrieval!Keyword(store, "camera", asked.blank, asked.limit, asked.cache)
    [] asked.kind = "semantic" ->
          Retrieval!Semantic(store, "camera", asked.limit, asked.cache, asked.up, asked.upAfter)
    [] asked.kind = "hybrid" ->
          Retrieval!Hybrid(store, "camera", asked.blank, asked.limit, asked.cache,
                           asked.up, asked.upAfter)

\* A question, with the cache there was before it.
IsAsked(asked) ==
  /\ asked.kind \in {"repository", "semantic", "hybrid"} /\ asked.limit \in Nat
  /\ asked.blank \in BOOLEAN /\ asked.up \in BOOLEAN /\ asked.upAfter \in BOOLEAN

\* The store keeps its items, reviewed or not; what is cached is embedded of them; and
\* the answer is the one to the question.
StoreTyped(store) ==
  /\ store \subseteq StoredItems /\ Stored(store) /\ Cardinality(store) <= 50
SearchTyped ==
  scene = "search" =>
    /\ search = [store |-> search.store, cache |-> search.cache,
                 asked |-> search.asked, answer |-> search.answer]
    /\ StoreTyped(search.store)
    /\ CacheOf(search.cache, search.store)
    /\ search.asked # None =>
         /\ IsAsked(search.asked) /\ CacheOf(search.asked.cache, search.store)
         /\ search.answer = AnswerFrom(search.store, search.asked)

\* The knowledge bases of the scene are typed.
LEMMA ThreeItems ==
  ASSUME NEW a, NEW b, NEW c
  PROVE  IsFiniteSet({a, b, c}) /\ Cardinality({a, b, c}) <= 3
<1>1. IsFiniteSet({}) /\ Cardinality({}) = 0
  BY FS_EmptySet
<1>2. IsFiniteSet({a}) /\ Cardinality({a}) = 1
  BY FS_Singleton
<1>3. IsFiniteSet({a} \cup {b}) /\ Cardinality({a} \cup {b}) \in {1, 2}
  BY <1>2, FS_AddElement
<1>4. IsFiniteSet(({a} \cup {b}) \cup {c}) /\ Cardinality(({a} \cup {b}) \cup {c}) \in {1, 2, 3}
  BY <1>3, FS_AddElement
<1>5. {a, b, c} = ({a} \cup {b}) \cup {c}
  OBVIOUS
<1> QED
  BY <1>4, <1>5

LEMMA StoresTyped ==
  ASSUME NEW store \in MCStores
  PROVE  StoreTyped(store)
<1>1. PICK a \in MCMeasures, b \in MCMeasures, c \in MCMeasures, status \in {"candidate", "confirmed"},
           fault \in {"camera", "alarm"} :
        store = {MCItemNo(1, a, "confirmed", "camera"), MCItemNo(2, b, "confirmed", "camera"),
                 MCItemNo(3, c, status, fault)}
  BY DEF MCStores
<1> DEFINE x == MCItemNo(1, a, "confirmed", "camera")
           y == MCItemNo(2, b, "confirmed", "camera")
           z == MCItemNo(3, c, status, fault)
<1>2. \A m \in MCMeasures : m[1] \in Nat /\ m[2] \in Nat
  BY DEF MCMeasures
<1>3. x \in StoredItems /\ y \in StoredItems /\ z \in StoredItems
  BY <1>2 DEF MCItemNo, StoredItems
<1>4. x.id = 1 /\ y.id = 2 /\ z.id = 3
  BY DEF MCItemNo
<1> HIDE DEF x, y, z
<1>5. store = {x, y, z}
  BY <1>1 DEF x, y, z
<1>6. IsFiniteSet(store) /\ Cardinality(store) <= 3
  BY <1>5, ThreeItems
<1>7. Cardinality(store) <= 50
  <2>1. Cardinality(store) \in Nat
    BY <1>6, FS_CardinalityType
  <2> QED
    BY <1>6, <2>1
<1>8. store \subseteq StoredItems /\ \A i, j \in store : i.id = j.id => i = j
  BY <1>3, <1>4, <1>5
<1>9. \A i \in store : i.id \in Nat /\ i.words \in Nat /\ i.near \in Nat
  BY <1>8 DEF StoredItems
<1> QED
  BY <1>6, <1>7, <1>8, <1>9 DEF StoreTyped, Stored, Named

\* A review changes no name and no text.
LEMMA ReviewKeepsStore ==
  ASSUME NEW store, StoreTyped(store), NEW i \in store, NEW cache, CacheOf(cache, store)
  PROVE  LET after == (store \ {i}) \cup {[i EXCEPT !.status = "confirmed", !.updated = @ + 1]}
         IN  StoreTyped(after) /\ CacheOf(cache, after)
<1> DEFINE new == [i EXCEPT !.status = "confirmed", !.updated = @ + 1]
           after == (store \ {i}) \cup {new}
<1>1. i \in StoredItems /\ Stored(store) /\ store \subseteq StoredItems
  BY DEF StoreTyped
<1>2. /\ new \in StoredItems
      /\ new.id = i.id /\ new.words = i.words /\ new.near = i.near
  <2>1. /\ i.id \in Nat /\ i.updated + 1 \in Nat /\ i.fault \in {"camera", "alarm"}
        /\ i.words \in Nat /\ i.near \in Nat
    BY <1>1 DEF StoredItems
  <2>2. new = [id |-> i.id, updated |-> i.updated + 1, status |-> "confirmed",
               fault |-> i.fault, words |-> i.words, near |-> i.near]
    <3>1. i = [id |-> i.id, updated |-> i.updated, status |-> i.status,
               fault |-> i.fault, words |-> i.words, near |-> i.near]
      BY <1>1 DEF StoredItems
    <3> DEFINE first == [i EXCEPT !.status = "confirmed"]
               later == i.updated + 1
    <3>2. first = [id |-> i.id, updated |-> i.updated, status |-> "confirmed",
                   fault |-> i.fault, words |-> i.words, near |-> i.near]
      BY <3>1
    <3>3. new = [first EXCEPT !.updated = later]
      <4> HIDE DEF later
      <4>1. [i EXCEPT !.status = "confirmed", !.updated = later] = [first EXCEPT !.updated = later]
        BY <3>1
      <4> QED
        BY <4>1 DEF later
    <3> HIDE DEF first, later, new
    <3>4. [first EXCEPT !.updated = later]
            = [id |-> first.id, updated |-> later, status |-> first.status,
               fault |-> first.fault, words |-> first.words, near |-> first.near]
      BY <3>2
    <3>5. /\ first.id = i.id /\ first.status = "confirmed" /\ first.fault = i.fault
          /\ first.words = i.words /\ first.near = i.near
      BY <3>2
    <3> QED
      BY <3>3, <3>4, <3>5 DEF later
  <2> HIDE DEF new
  <2> QED
    BY <2>1, <2>2 DEF StoredItems
<1>3. IsFiniteSet(store) /\ Cardinality(store) \in Nat /\ Cardinality(store) <= 50
  BY <1>1, FS_CardinalityType DEF Stored, Named, StoreTyped
<1>4. IsFiniteSet(store \ {i}) /\ Cardinality(store \ {i}) = Cardinality(store) - 1
  BY <1>3, FS_RemoveElement
<1> HIDE DEF new
<1>5. IsFiniteSet(after) /\ Cardinality(after) <= 50
  <2>1. /\ IsFiniteSet(after)
        /\ Cardinality(after) \in {Cardinality(store \ {i}), Cardinality(store \ {i}) + 1}
    BY <1>4, FS_AddElement
  <2> HIDE DEF after
  <2> QED
    BY <1>3, <1>4, <2>1
<1>6. \A j \in after : j \in StoredItems /\ \E k \in store : /\ k.id = j.id
                                                            /\ k.words = j.words /\ k.near = j.near
  BY <1>1, <1>2
<1>7. \A j, k \in after : j.id = k.id => j = k
  BY <1>1, <1>2 DEF Stored, Named
<1> HIDE DEF after
<1>8. \A j \in after : j.id \in Nat /\ j.words \in Nat /\ j.near \in Nat
  BY <1>6 DEF StoredItems
<1>9. CacheOf(cache, after)
  BY <1>6 DEF CacheOf
<1>10. StoreTyped(after)
  BY <1>5, <1>6, <1>7, <1>8 DEF StoreTyped, Stored, Named
<1> QED
  BY <1>9, <1>10 DEF after, new

\* A search caches what it embedded of the store.
LEMMA AnswerKeepsCache ==
  ASSUME NEW store, Stored(store), NEW asked, IsAsked(asked), CacheOf(asked.cache, store)
  PROVE  CacheOf(AnswerFrom(store, asked).cache, store)
<1> DEFINE items == Retrieval!Candidates(store, "camera")
           after == Retrieval!CacheAfter(items, asked.cache, asked.upAfter)
<1>1. items \subseteq store
  BY CandidatesAre
<1>2. CacheOf(after, store)
  BY <1>1, CacheStays
<1>3. AnswerFrom(store, asked).cache \in {asked.cache, after}
  BY DEF IsAsked, AnswerFrom, Retrieval!Keyword, Retrieval!Semantic, Retrieval!Hybrid
<1> HIDE DEF after
<1> QED
  BY <1>2, <1>3

\* Searches fill the cache, reviews change the store.
LEMMA SearchTypedHolds == MCSpec => []SearchTyped
<1>1. MCInit => SearchTyped
  <2> SUFFICES ASSUME MCInit, scene = "search"
               PROVE  SearchTyped
    BY DEF SearchTyped
  <2>1. search \in [store : MCStores, cache : {{}}, asked : {None}, answer : {None}]
    BY DEF MCInit
  <2>2. search.store \in MCStores /\ search.cache = {} /\ search.asked = None
    BY <2>1
  <2>3. StoreTyped(search.store)
    BY <2>2, StoresTyped
  <2>4. CacheOf(search.cache, search.store)
    BY <2>2 DEF CacheOf
  <2>5. search = [store |-> search.store, cache |-> search.cache,
                  asked |-> search.asked, answer |-> search.answer]
    BY <2>1
  <2> QED
    BY <2>2, <2>3, <2>4, <2>5 DEF SearchTyped
<1>2. SearchTyped /\ [MCNext]_mcvars => SearchTyped'
  <2> SUFFICES ASSUME SearchTyped, [MCNext]_mcvars
               PROVE  SearchTyped'
    OBVIOUS
  <2>1. CASE Search
    <3>1. /\ scene = "search" /\ search.asked = None
          /\ search = [store |-> search.store, cache |-> search.cache,
                       asked |-> search.asked, answer |-> search.answer]
          /\ StoreTyped(search.store) /\ CacheOf(search.cache, search.store)
      BY <2>1 DEF Search, SearchTyped
    <3>2. PICK asked \in MCAsked :
            search' = [search EXCEPT !.asked = asked, !.answer = Answer(asked),
                                     !.cache = Answer(asked).cache]
      BY <2>1 DEF Search
    <3>3. IsAsked(asked) /\ asked.cache = search.cache
      BY DEF MCAsked, IsAsked
    <3>4. Answer(asked) = AnswerFrom(search.store, asked)
      BY <3>3 DEF Answer, AnswerFrom
    <3>5. /\ search'.store = search.store /\ search'.cache = Answer(asked).cache
          /\ search'.asked = asked /\ search'.answer = Answer(asked)
          /\ search' = [store |-> search'.store, cache |-> search'.cache,
                        asked |-> search'.asked, answer |-> search'.answer]
      BY <3>1, <3>2
    <3>6. CacheOf(search'.cache, search.store)
      BY <3>1, <3>3, <3>4, <3>5, AnswerKeepsCache DEF StoreTyped
    <3> QED
      BY <3>1, <3>3, <3>4, <3>5, <3>6 DEF SearchTyped
  <2>2. CASE Confirm
    <3>1. /\ scene = "search"
          /\ search = [store |-> search.store, cache |-> search.cache,
                       asked |-> search.asked, answer |-> search.answer]
          /\ StoreTyped(search.store) /\ CacheOf(search.cache, search.store)
      BY <2>2 DEF Confirm, SearchTyped
    <3>2. PICK i \in search.store :
            search' = [search EXCEPT
              !.store = (@ \ {i}) \cup {[i EXCEPT !.status = "confirmed", !.updated = @ + 1]},
              !.asked = None, !.answer = None]
      BY <2>2 DEF Confirm
    <3>3. /\ search'.store = (search.store \ {i})
                               \cup {[i EXCEPT !.status = "confirmed", !.updated = @ + 1]}
          /\ search'.cache = search.cache /\ search'.asked = None
          /\ search' = [store |-> search'.store, cache |-> search'.cache,
                        asked |-> search'.asked, answer |-> search'.answer]
      BY <3>1, <3>2
    <3>4. StoreTyped(search'.store) /\ CacheOf(search'.cache, search'.store)
      BY <3>1, <3>3, ReviewKeepsStore
    <3> QED
      BY <3>3, <3>4 DEF SearchTyped
  <2>3. CASE CitationStep
    BY <2>3 DEF CitationStep, scenes, SearchTyped
  <2>4. CASE LandFact \/ AddRange \/ AddAsset \/ NextCall
    BY <2>4 DEF LandFact, AddRange, AddAsset, NextCall, citation, SearchTyped
  <2>5. CASE UNCHANGED mcvars
    BY <2>5 DEF mcvars, scenes, SearchTyped
  <2> QED
    BY <2>1, <2>2, <2>3, <2>4, <2>5 DEF MCNext
<1> QED
  BY <1>1, <1>2, PTL DEF MCSpec

\* In the scene that is so whatever is asked and confirmed, and wherever the service fails
\* (hybrid_knowledge_retriever.py:48-180).
THEOREM SearchesAreAnsweredWell == MCSpec => []SearchesAnswerWell
<1>1. SearchTyped => SearchesAnswerWell
  <2> DEFINE store == search.store
             asked == search.asked
             answer == search.answer
  <2> SUFFICES ASSUME SearchTyped, scene = "search", asked # None
               PROVE  Retrieval!AnswersWell(store, "camera", asked.blank, asked.limit, asked.cache,
                                            asked.up, asked.upAfter, answer)
    BY DEF SearchesAnswerWell
  <2>1. /\ Stored(store) /\ Cardinality(store) <= 50 /\ IsAsked(asked)
        /\ CacheOf(asked.cache, store) /\ answer = AnswerFrom(store, asked)
    BY DEF SearchTyped, StoreTyped
  <2> HIDE DEF store, asked, answer
  <2>2. CASE asked.kind = "repository"
    <3>1. answer = Retrieval!Keyword(store, "camera", asked.blank, asked.limit, asked.cache)
      BY <2>1, <2>2 DEF AnswerFrom
    <3>2. /\ answer.how.mode = "repository" /\ answer.how.fallback = FALSE
          /\ answer.found = Retrieval!Below(asked.limit,
               Retrieval!KeywordRank(Retrieval!Candidates(store, "camera"), asked.blank))
      BY <3>1 DEF Retrieval!Keyword, Retrieval!Mode
    <3> QED
      BY <2>1, <3>2, KeywordAnswersWell DEF IsAsked
  <2>3. CASE asked.kind = "semantic"
    <3>1. answer = Retrieval!Semantic(store, "camera", asked.limit, asked.cache, asked.up, asked.upAfter)
      BY <2>1, <2>3 DEF AnswerFrom
    <3> QED
      BY <2>1, <3>1, SemanticAnswersWell DEF IsAsked
  <2>4. CASE asked.kind = "hybrid"
    <3>1. answer = Retrieval!Hybrid(store, "camera", asked.blank, asked.limit, asked.cache,
                                    asked.up, asked.upAfter)
      BY <2>1, <2>4 DEF AnswerFrom
    <3> QED
      BY <2>1, <3>1, HybridAnswersWell DEF IsAsked
  <2> QED
    BY <2>1, <2>2, <2>3, <2>4 DEF IsAsked
<1> QED
  BY <1>1, SearchTypedHolds, PTL
==============================================================================
