-------------------------- MODULE RoutedGatewayProofs --------------------------
(***************************************************************************)
(* Proofs about RoutedGateway, for any devices, manifests, adapters and    *)
(* number of threads, calls and rotations.                                 *)
(***************************************************************************)
EXTENDS RoutedGateway, FiniteSetTheorems, SequenceTheorems, TLAPS

-----------------------------------------------------------------------------
(* Budgets and the history of grants. *)

\* Consuming budget gives a budget (device_authorization.py:384-394).
LEMMA ConsumeType ==
  ASSUME NEW b \in Budget, NEW o \in Operation
  PROVE  /\ Consume(b, o) \in Budget
         /\ Consume(b, o).total = b.total + 1
         /\ Consume(b, o).calls[o] = b.calls[o] + 1
         /\ \A p \in Operation : p # o => Consume(b, o).calls[p] = b.calls[p]
<1> DEFINE c == [b.calls EXCEPT ![o] = b.calls[o] + 1]
<1>1. b.total \in Nat /\ b.calls \in [Operation -> Nat] /\ b = [total |-> b.total, calls |-> b.calls]
  BY DEF Budget
<1>2. /\ c \in [Operation -> Nat] /\ c[o] = b.calls[o] + 1
      /\ \A p \in Operation : p # o => c[p] = b.calls[p]
  BY <1>1
<1>3. Consume(b, o) = [total |-> b.total + 1, calls |-> c]
  BY <1>1 DEF Consume
<1> QED
  BY <1>1, <1>2, <1>3 DEF Budget

LEMMA EmptyBudgetType == EmptyBudget \in Budget
BY DEF EmptyBudget, Budget

\* An authorized call is appended to the history.
LEMMA AppendGrant ==
  ASSUME TypeOK, NEW g \in Grant
  PROVE  /\ Append(grants, g) \in Seq(Grant)
         /\ Len(grants) \in Nat
         /\ DOMAIN grants = 1..Len(grants)
         /\ DOMAIN Append(grants, g) = (DOMAIN grants) \cup {Len(grants) + 1}
         /\ Len(grants) + 1 \notin DOMAIN grants
         /\ Append(grants, g)[Len(grants) + 1] = g
         /\ \A i \in DOMAIN grants : Append(grants, g)[i] = grants[i]
<1>1. grants \in Seq(Grant)
  BY DEF TypeOK
<1>2. Len(grants) \in Nat /\ DOMAIN grants = 1..Len(grants)
  BY <1>1, LenProperties
<1>3. /\ Append(grants, g) \in Seq(Grant)
      /\ Len(Append(grants, g)) = Len(grants) + 1
      /\ \A i \in 1..Len(grants) : Append(grants, g)[i] = grants[i]
      /\ Append(grants, g)[Len(grants) + 1] = g
  BY <1>1, AppendProperties
<1>4. DOMAIN Append(grants, g) = 1..(Len(grants) + 1)
  BY <1>3, LenProperties
<1>5. 1..(Len(grants) + 1) = 1..Len(grants) \cup {Len(grants) + 1}
  BY <1>2
<1> QED
  BY <1>1, <1>2, <1>3, <1>4, <1>5

\* The fate of a grant is all that ever changes of it.
LEMMA SetFate ==
  ASSUME TypeOK, NEW i \in Nat, NEW fate \in {"not_ready"} \cup AdapterAnswerKinds
  PROVE  /\ [grants EXCEPT ![i].fate = fate] \in Seq(Grant)
         /\ DOMAIN [grants EXCEPT ![i].fate = fate] = DOMAIN grants
         /\ Len([grants EXCEPT ![i].fate = fate]) = Len(grants)
         /\ \A j \in DOMAIN grants :
              LET g == [grants EXCEPT ![i].fate = fate][j] IN
              /\ g.batch = grants[j].batch /\ g.device = grants[j].device
              /\ g.operation = grants[j].operation /\ g.at = grants[j].at
              /\ g.fate = IF j = i THEN fate ELSE grants[j].fate
<1> DEFINE s == [grants EXCEPT ![i].fate = fate]
<1>1. grants \in Seq(Grant) /\ Len(grants) \in Nat /\ DOMAIN grants = 1..Len(grants)
      /\ grants \in [1..Len(grants) -> Grant]
  BY LenProperties DEF TypeOK
<1>2. \A j \in DOMAIN grants : grants[j] \in Grant
  BY <1>1
<1>3. s \in [1..Len(grants) -> Grant]
  BY <1>1, <1>2 DEF Grant
<1>4. s \in Seq(Grant)
  BY <1>1, <1>3, SeqDef
<1>5. Len(s) = Len(grants)
  BY <1>1, <1>3, <1>4, LenProperties
<1>6. DOMAIN s = DOMAIN grants
  BY <1>1, <1>3
<1>7. \A j \in DOMAIN grants :
        /\ s[j].batch = grants[j].batch /\ s[j].device = grants[j].device
        /\ s[j].operation = grants[j].operation /\ s[j].at = grants[j].at
        /\ s[j].fate = IF j = i THEN fate ELSE grants[j].fate
  BY <1>1, <1>2 DEF Grant
<1> QED
  BY <1>4, <1>5, <1>6, <1>7

-----------------------------------------------------------------------------
(* Type correctness. *)

LEMMA InitType == Init => TypeOK
<1> SUFFICES ASSUME Init PROVE TypeOK
  OBVIOUS
<1>1. <<manifest>> \in Seq(Manifests) /\ Len(<<manifest>>) = 1 /\ <<manifest>>[1] = manifest
  BY DEF Init
<1>2. <<>> \in Seq(Grant)
  BY EmptySeq
<1>3. 0 \in 0..MaxBatches /\ 0 \in 0..Horizon /\ 0 \in 0..MaxCalls
  BY Bounds
<1>4. /\ pc \in [Worker -> {"idle", "authorizing", "granted", "calling"}]
      /\ call \in [Worker -> Call \cup {NoCall}]
      /\ \A w \in Worker : pc[w] = "idle"
  BY DEF Init
<1>5. Len(manifests) = batch + 1 /\ manifest = manifests[batch + 1] /\ manifests \in Seq(Manifests)
  BY <1>1 DEF Init
<1>6. grants \in Seq(Grant) /\ budget \in Budget
  BY <1>2, StartingBudget DEF Init
<1> QED
  BY <1>3, <1>4, <1>5, <1>6 DEF Init, TypeOK

LEMMA EndType ==
  ASSUME TypeOK, NEW w \in Worker, End(w)
  PROVE  /\ pc' \in [Worker -> {"idle", "authorizing", "granted", "calling"}]
         /\ call' \in [Worker -> Call \cup {NoCall}]
         /\ \A v \in Worker : pc'[v] # "idle" => call'[v] \in Call
BY DEF TypeOK, End

LEMMA StartCallType ==
  ASSUME TypeOK, NEW w \in Worker, NEW d \in Device, NEW o \in Operation, StartCall(w, d, o)
  PROVE  TypeOK'
<1>1. started' \in 0..MaxCalls
  BY Bounds DEF TypeOK, StartCall
<1>2. CASE UNCHANGED <<pc, call>>
  BY <1>1, <1>2 DEF TypeOK, StartCall, session
<1>3. CASE /\ pc' = [pc EXCEPT ![w] = "authorizing"]
           /\ call' = [call EXCEPT ![w] = [device |-> d, operation |-> o, grant |-> 0]]
  <2>1. [device |-> d, operation |-> o, grant |-> 0] \in Call
    BY DEF Call
  <2>2. call' \in [Worker -> Call \cup {NoCall}] /\ \A v \in Worker : pc'[v] # "idle" => call'[v] \in Call
    BY <1>3, <2>1 DEF TypeOK
  <2>3. pc' \in [Worker -> {"idle", "authorizing", "granted", "calling"}]
    BY <1>3 DEF TypeOK
  <2> QED
    BY <1>1, <2>2, <2>3 DEF TypeOK, StartCall, session
<1> QED
  BY <1>2, <1>3 DEF StartCall

LEMMA AuthorizeType ==
  ASSUME TypeOK, NEW w \in Worker, Authorize(w)
  PROVE  TypeOK'
<1>1. CASE End(w) /\ UNCHANGED <<budget, grants>>
  BY <1>1, EndType DEF TypeOK, Authorize
<1>2. CASE Allows(call[w].device, call[w].operation)
           /\ budget' = Consume(budget, call[w].operation)
           /\ grants' = Append(grants, [batch |-> batch, device |-> call[w].device,
                                        operation |-> call[w].operation,
                                        at |-> clock, fate |-> "pending"])
           /\ pc' = [pc EXCEPT ![w] = "granted"]
           /\ call' = [call EXCEPT ![w].grant = Len(grants) + 1]
  <2>1. call[w] \in Call
    BY DEF TypeOK, Authorize
  <2> DEFINE g == [batch |-> batch, device |-> call[w].device, operation |-> call[w].operation,
                   at |-> clock, fate |-> "pending"]
  <2>2. g \in Grant
    BY <2>1, Bounds DEF TypeOK, Call, Grant
  <2> HIDE DEF g
  <2>3. grants' \in Seq(Grant) /\ Len(grants) + 1 \in Nat
    BY <1>2, <2>2, AppendGrant DEF g
  <2>4. budget' \in Budget
    BY <1>2, <2>1, ConsumeType DEF TypeOK, Call
  <2>5. [call[w] EXCEPT !.grant = Len(grants) + 1] \in Call
    BY <2>1, <2>3 DEF Call
  <2>6. call' = [call EXCEPT ![w] = [call[w] EXCEPT !.grant = Len(grants) + 1]]
    BY <1>2
  <2>7. call' \in [Worker -> Call \cup {NoCall}] /\ \A v \in Worker : pc'[v] # "idle" => call'[v] \in Call
    BY <1>2, <2>5, <2>6 DEF TypeOK
  <2>8. pc' \in [Worker -> {"idle", "authorizing", "granted", "calling"}]
    BY <1>2 DEF TypeOK
  <2> QED
    BY <2>3, <2>4, <2>7, <2>8 DEF TypeOK, Authorize
<1> QED
  BY <1>1, <1>2 DEF Authorize

LEMMA GetReadyType ==
  ASSUME TypeOK, NEW w \in Worker, GetReady(w)
  PROVE  TypeOK'
<1>1. CASE pc' = [pc EXCEPT ![w] = "calling"] /\ UNCHANGED <<call, grants>>
  BY <1>1 DEF TypeOK, GetReady, session
<1>2. CASE grants' = [grants EXCEPT ![call[w].grant].fate = "not_ready"] /\ End(w)
  <2>1. call[w].grant \in Nat
    BY DEF TypeOK, GetReady, Call
  <2>2. grants' \in Seq(Grant)
    BY <1>2, <2>1, SetFate
  <2> QED
    BY <1>2, <2>2, EndType DEF TypeOK, GetReady, session
<1> QED
  BY <1>1, <1>2 DEF GetReady

LEMMA AdapterAnswersType ==
  ASSUME TypeOK, NEW w \in Worker, NEW answer \in Answering, AdapterAnswers(w, answer)
  PROVE  TypeOK'
<1>1. call[w].grant \in Nat /\ answer \in AdapterAnswerKinds
  BY KnownAnswers DEF TypeOK, AdapterAnswers, Call
<1>2. grants' \in Seq(Grant)
  BY <1>1, SetFate DEF AdapterAnswers
<1> QED
  BY <1>2, EndType DEF TypeOK, AdapterAnswers, session

LEMMA RotateType ==
  ASSUME TypeOK, NEW m \in Manifests, Rotate(m)
  PROVE  TypeOK'
<1>1. batch \in Nat /\ batch + 1 \in 0..MaxBatches
  BY Bounds DEF TypeOK, Rotate
<1>2. /\ manifests' \in Seq(Manifests) /\ Len(manifests') = batch + 2
      /\ manifests'[batch + 2] = m
  BY <1>1, AppendProperties DEF TypeOK, Rotate
<1> QED
  BY <1>1, <1>2, EmptyBudgetType DEF TypeOK, Rotate

LEMMA OtherType ==
  ASSUME TypeOK,
         \/ Close
         \/ \E key \in Adapter, state \in {"ready", "not_ready"} : Register(key, state) \/ Mark(key, state)
         \/ Tick
         \/ UNCHANGED vars
  PROVE  TypeOK'
<1>1. CASE Close
  BY <1>1 DEF TypeOK, Close
<1>2. CASE \E key \in Adapter, state \in {"ready", "not_ready"} : Register(key, state) \/ Mark(key, state)
  BY <1>2 DEF TypeOK, Register, Mark, session
<1>3. CASE Tick
  BY <1>3, Bounds DEF TypeOK, Tick, session
<1>4. CASE UNCHANGED vars
  BY <1>4 DEF TypeOK, vars, session
<1> QED
  BY <1>1, <1>2, <1>3, <1>4

LEMMA NextType == TypeOK /\ [Next]_vars => TypeOK'
BY StartCallType, AuthorizeType, GetReadyType, AdapterAnswersType, RotateType, OtherType
   DEF Next, CallStep

\* Every reachable state of gateway, session and registry is well typed.
THEOREM TypeCorrect == Spec => []TypeOK
BY InitType, NextType, PTL DEF Spec

-----------------------------------------------------------------------------
(* What steps do to the history of grants. *)

\* A step grants one call, of the running batch, or rotates, or changes fates only.
LEMMA HistoryStep ==
  ASSUME TypeOK, [Next]_vars
  PROVE  \/ \E w \in Worker :
              /\ pc[w] = "authorizing" /\ Allows(call[w].device, call[w].operation)
              /\ budget' = Consume(budget, call[w].operation)
              /\ grants' = Append(grants, [batch |-> batch, device |-> call[w].device,
                                           operation |-> call[w].operation,
                                           at |-> clock, fate |-> "pending"])
              /\ UNCHANGED <<manifest, batch, closed, manifests>>
         \/ \E m \in Manifests :
              /\ ~ closed /\ manifest' = m /\ budget' = EmptyBudget /\ batch' = batch + 1
              /\ manifests' = Append(manifests, m)
              /\ UNCHANGED <<closed, grants>>
         \/ /\ UNCHANGED <<manifest, budget, batch, manifests>>
            /\ closed => closed'
            /\ DOMAIN grants' = DOMAIN grants /\ Len(grants') = Len(grants)
            /\ \A j \in DOMAIN grants :
                 /\ grants'[j].batch = grants[j].batch /\ grants'[j].device = grants[j].device
                 /\ grants'[j].operation = grants[j].operation /\ grants'[j].at = grants[j].at
<1>1. ASSUME NEW w \in Worker, Authorize(w)
      PROVE  \/ /\ pc[w] = "authorizing" /\ Allows(call[w].device, call[w].operation)
                /\ budget' = Consume(budget, call[w].operation)
                /\ grants' = Append(grants, [batch |-> batch, device |-> call[w].device,
                                             operation |-> call[w].operation,
                                             at |-> clock, fate |-> "pending"])
                /\ UNCHANGED <<manifest, batch, closed, manifests>>
             \/ UNCHANGED <<session, grants>>
  BY <1>1 DEF Authorize, session
<1>2. ASSUME NEW w \in Worker, GetReady(w)
      PROVE  \/ UNCHANGED <<session, grants>>
             \/ UNCHANGED session /\ grants' = [grants EXCEPT ![call[w].grant].fate = "not_ready"]
                /\ call[w].grant \in Nat
  BY <1>2 DEF GetReady, TypeOK, Call
<1>3. ASSUME NEW w \in Worker, NEW answer \in Answering, AdapterAnswers(w, answer)
      PROVE  /\ UNCHANGED session /\ grants' = [grants EXCEPT ![call[w].grant].fate = answer]
             /\ call[w].grant \in Nat /\ answer \in AdapterAnswerKinds
  BY <1>3, KnownAnswers DEF AdapterAnswers, TypeOK, Call
<1>4. ASSUME NEW i \in Nat, NEW fate \in {"not_ready"} \cup AdapterAnswerKinds,
             UNCHANGED session, grants' = [grants EXCEPT ![i].fate = fate]
      PROVE  /\ UNCHANGED <<manifest, budget, batch, closed, manifests>>
             /\ DOMAIN grants' = DOMAIN grants /\ Len(grants') = Len(grants)
             /\ \A j \in DOMAIN grants :
                  /\ grants'[j].batch = grants[j].batch /\ grants'[j].device = grants[j].device
                  /\ grants'[j].operation = grants[j].operation /\ grants'[j].at = grants[j].at
  BY <1>4, SetFate DEF session
<1>5. CASE \E m \in Manifests \ {NoManifest} : Rotate(m)
  BY <1>5 DEF Rotate
<1>6. CASE Close
  BY <1>6 DEF Close
<1>7. ASSUME UNCHANGED <<session, grants>>
      PROVE  /\ UNCHANGED <<manifest, budget, batch, closed, manifests>>
             /\ DOMAIN grants' = DOMAIN grants /\ Len(grants') = Len(grants)
             /\ \A j \in DOMAIN grants : grants'[j] = grants[j]
  BY <1>7 DEF session
<1>8. CASE \E w \in Worker, d \in Device, o \in Operation : StartCall(w, d, o)
  BY <1>7, <1>8 DEF StartCall
<1>9. CASE \E w \in Worker : CallStep(w)
  <2> PICK w \in Worker : CallStep(w)
    BY <1>9
  <2>1. CASE Authorize(w)
    BY <1>1, <1>7, <2>1
  <2>2. CASE GetReady(w)
    BY <1>2, <1>4, <1>7, <2>2
  <2>3. CASE \E answer \in Answering : AdapterAnswers(w, answer)
    BY <1>3, <1>4, <2>3
  <2> QED
    BY <2>1, <2>2, <2>3 DEF CallStep
<1>10. CASE \/ \E key \in Adapter, state \in {"ready", "not_ready"} : Register(key, state) \/ Mark(key, state)
            \/ Tick
            \/ UNCHANGED vars
  BY <1>7, <1>10 DEF Register, Mark, Tick, vars
<1> QED
  BY <1>5, <1>6, <1>8, <1>9, <1>10 DEF Next

-----------------------------------------------------------------------------
(* The budget counts the grants. *)

\* The grants of a batch, and of an operation in it, are finitely many.
LEMMA GrantsFinite ==
  ASSUME TypeOK, NEW b
  PROVE  /\ IsFiniteSet(GrantsIn(b)) /\ Cardinality(GrantsIn(b)) \in Nat
         /\ \A o : IsFiniteSet(GrantsOf(b, o)) /\ Cardinality(GrantsOf(b, o)) \in Nat
<1>1. DOMAIN grants = 1..Len(grants) /\ Len(grants) \in Nat
  BY LenProperties DEF TypeOK
<1>2. IsFiniteSet(DOMAIN grants)
  BY <1>1, FS_Interval
<1>3. IsFiniteSet(GrantsIn(b))
  BY <1>2, FS_Subset DEF GrantsIn
<1>4. ASSUME NEW o PROVE IsFiniteSet(GrantsOf(b, o))
  BY <1>3, FS_Subset DEF GrantsOf
<1> QED
  BY <1>3, <1>4, FS_CardinalityType

\* Batches are numbered up to the running one.
GrantsAreNumbered == \A i \in DOMAIN grants : grants[i].batch \in 0..batch

\* A grant counts in the running batch, once in all and once for its operation.
LEMMA CountGrant ==
  ASSUME TypeOK, NEW g \in Grant, grants' = Append(grants, g)
  PROVE  /\ Cardinality(GrantsIn(g.batch)') = Cardinality(GrantsIn(g.batch)) + 1
         /\ Cardinality(GrantsOf(g.batch, g.operation)')
              = Cardinality(GrantsOf(g.batch, g.operation)) + 1
         /\ \A b : b # g.batch => GrantsIn(b)' = GrantsIn(b)
         /\ \A b, o : b # g.batch \/ o # g.operation => GrantsOf(b, o)' = GrantsOf(b, o)
<1> DEFINE n == Len(grants) + 1
<1>1. /\ DOMAIN grants' = (DOMAIN grants) \cup {n} /\ n \notin DOMAIN grants
      /\ grants'[n] = g /\ \A i \in DOMAIN grants : grants'[i] = grants[i]
  BY AppendGrant
<1> HIDE DEF n
<1>2. GrantsIn(g.batch)' = GrantsIn(g.batch) \cup {n} /\ n \notin GrantsIn(g.batch)
  BY <1>1 DEF GrantsIn
<1>3. \A b : b # g.batch => GrantsIn(b)' = GrantsIn(b)
  BY <1>1 DEF GrantsIn
<1>4. /\ GrantsOf(g.batch, g.operation)' = GrantsOf(g.batch, g.operation) \cup {n}
      /\ n \notin GrantsOf(g.batch, g.operation)
  BY <1>1 DEF GrantsOf, GrantsIn
<1>5. \A b, o : b # g.batch \/ o # g.operation => GrantsOf(b, o)' = GrantsOf(b, o)
  BY <1>1 DEF GrantsOf, GrantsIn
<1>6. IsFiniteSet(GrantsIn(g.batch)) /\ IsFiniteSet(GrantsOf(g.batch, g.operation))
  BY GrantsFinite
<1>7. Cardinality(GrantsIn(g.batch) \cup {n}) = Cardinality(GrantsIn(g.batch)) + 1
  BY <1>2, <1>6, FS_AddElement
<1>8. Cardinality(GrantsOf(g.batch, g.operation) \cup {n})
        = Cardinality(GrantsOf(g.batch, g.operation)) + 1
  BY <1>4, <1>6, FS_AddElement
<1>9. Cardinality(GrantsIn(g.batch)') = Cardinality(GrantsIn(g.batch)) + 1
  BY <1>2, <1>7
<1>10. Cardinality(GrantsOf(g.batch, g.operation)')
         = Cardinality(GrantsOf(g.batch, g.operation)) + 1
  BY <1>4, <1>8
<1> QED
  BY <1>3, <1>5, <1>9, <1>10

\* Changing fates changes no count.
LEMMA SameGrants ==
  ASSUME DOMAIN grants' = DOMAIN grants,
         \A j \in DOMAIN grants :
           grants'[j].batch = grants[j].batch /\ grants'[j].operation = grants[j].operation
  PROVE  /\ \A b : GrantsIn(b)' = GrantsIn(b)
         /\ \A b, o : GrantsOf(b, o)' = GrantsOf(b, o)
BY DEF GrantsIn, GrantsOf

BInv == TypeOK /\ GrantsAreNumbered /\ BudgetCountsGrants /\ BatchesKeepTheirBudget /\ GrantsAreInScope

LEMMA InitCounts == Init => BInv
<1> SUFFICES ASSUME Init PROVE BInv
  OBVIOUS
<1>1. DOMAIN grants = {}
  BY EmptySeq, LenProperties DEF Init
<1>2. \A b : GrantsIn(b) = {} /\ \A o : GrantsOf(b, o) = {}
  BY <1>1 DEF GrantsIn, GrantsOf
<1>3. budget \in Budget /\ batch = 0 /\ budget = InitialBudget
  BY StartingBudget DEF Init
<1>4. BudgetCountsGrants
  BY <1>2, <1>3, FS_EmptySet DEF BudgetCountsGrants, UsedBefore, Budget
<1> QED
  BY <1>1, <1>2, <1>4, InitType
     DEF BInv, GrantsAreNumbered, BatchesKeepTheirBudget, GrantsAreInScope

\* Granting keeps the counts, and every batch within its budget.
LEMMA GrantCounts ==
  ASSUME BInv, TypeOK', NEW w \in Worker,
         pc[w] = "authorizing", Routable(call[w].device, call[w].operation),
         Allows(call[w].device, call[w].operation),
         budget' = Consume(budget, call[w].operation),
         grants' = Append(grants, [batch |-> batch, device |-> call[w].device,
                                   operation |-> call[w].operation,
                                   at |-> clock, fate |-> "pending"]),
         UNCHANGED <<manifest, batch, closed, manifests>>
  PROVE  BInv'
<1>1. call[w].device \in Device /\ call[w].operation \in Operation /\ batch \in Nat /\ clock \in Nat
  BY Bounds DEF BInv, TypeOK, Call
<1>2. PICK d \in Device, o \in Operation : d = call[w].device /\ o = call[w].operation
  BY <1>1
<1>13. PICK g \in Grant : g = [batch |-> batch, device |-> d, operation |-> o, at |-> clock,
                               fate |-> "pending"]
  BY <1>1 DEF Grant
<1>15. /\ TypeOK /\ grants' = Append(grants, g)
       /\ g.batch = batch /\ g.operation = o /\ g.device = d /\ g.at = clock
  BY <1>2, <1>13 DEF BInv
<1>3. /\ Cardinality(GrantsIn(batch)') = Cardinality(GrantsIn(batch)) + 1
      /\ Cardinality(GrantsOf(batch, o)') = Cardinality(GrantsOf(batch, o)) + 1
      /\ \A b : b # batch => GrantsIn(b)' = GrantsIn(b)
      /\ \A b, p : b # batch \/ p # o => GrantsOf(b, p)' = GrantsOf(b, p)
  <2>1. /\ Cardinality(GrantsIn(g.batch)') = Cardinality(GrantsIn(g.batch)) + 1
        /\ Cardinality(GrantsOf(g.batch, g.operation)')
             = Cardinality(GrantsOf(g.batch, g.operation)) + 1
        /\ \A b : b # g.batch => GrantsIn(b)' = GrantsIn(b)
        /\ \A b, p : b # g.batch \/ p # g.operation => GrantsOf(b, p)' = GrantsOf(b, p)
    BY <1>15, CountGrant
  <2>2. batch' = batch
    OBVIOUS
  <2> QED
    BY <2>1, <2>2, <1>15
<1>4. /\ DOMAIN grants' = (DOMAIN grants) \cup {Len(grants) + 1}
      /\ grants'[Len(grants) + 1] = g
      /\ \A i \in DOMAIN grants : grants'[i] = grants[i]
  BY <1>15, AppendGrant
<1>5. manifest = manifests[batch + 1] /\ budget \in Budget /\ UsedBefore(batch) \in Budget
  BY StartingBudget, EmptyBudgetType DEF BInv, TypeOK, UsedBefore
<1>6. /\ Consume(budget, o).total = budget.total + 1
      /\ Consume(budget, o).calls[o] = budget.calls[o] + 1
      /\ \A p \in Operation : p # o => Consume(budget, o).calls[p] = budget.calls[p]
  BY <1>1, <1>5, ConsumeType
<1>14. budget' = Consume(budget, o)
  BY <1>2
<1>7. /\ Cardinality(GrantsIn(batch)) \in Nat
      /\ \A p : Cardinality(GrantsOf(batch, p)) \in Nat
  BY GrantsFinite DEF BInv
<1>8. /\ manifest # NoManifest /\ manifest \in Manifest /\ manifest.environment = Environment
      /\ manifest.from <= clock /\ clock < manifest.until
      /\ d \in manifest.assets /\ d \in Alias /\ o \in manifest.operations
      /\ budget.total < manifest.maxTotal /\ budget.calls[o] < manifest.max[o]
  BY <1>2, ManifestShape DEF Allows, Preflight, Valid, Left, BInv, TypeOK
<1>9. BudgetCountsGrants'
  <2>1. budget'.total = UsedBefore(batch).total + Cardinality(GrantsIn(batch)')
    BY <1>3, <1>5, <1>6, <1>7, <1>14 DEF BInv, BudgetCountsGrants, Budget
  <2>2. ASSUME NEW p \in Operation
        PROVE  budget'.calls[p] = UsedBefore(batch).calls[p] + Cardinality(GrantsOf(batch, p)')
    <3>1. budget.calls[p] \in Nat /\ UsedBefore(batch).calls[p] \in Nat
      BY <1>5 DEF Budget
    <3>2. CASE p = o
      <4>1. budget'.calls[p] = budget.calls[p] + 1
        BY <1>6, <1>14, <3>2
      <4>2. Cardinality(GrantsOf(batch, p)') = Cardinality(GrantsOf(batch, p)) + 1
        BY <1>3, <3>2
      <4>3. budget.calls[p] = UsedBefore(batch).calls[p] + Cardinality(GrantsOf(batch, p))
        BY DEF BInv, BudgetCountsGrants
      <4> QED
        BY <1>7, <3>1, <4>1, <4>2, <4>3
    <3>3. CASE p # o
      <4>1. budget'.calls[p] = budget.calls[p] /\ GrantsOf(batch, p)' = GrantsOf(batch, p)
        BY <1>3, <1>6, <1>14, <3>3
      <4> QED
        BY <4>1 DEF BInv, BudgetCountsGrants
    <3> QED
      BY <3>2, <3>3
  <2> QED
    BY <2>1, <2>2 DEF BudgetCountsGrants, UsedBefore
<1>10. BatchesKeepTheirBudget'
  <2> SUFFICES ASSUME NEW b \in 0..batch
               PROVE  /\ GrantsIn(b)' # {} =>
                           manifests[b + 1] # NoManifest
                           /\ UsedBefore(b).total + Cardinality(GrantsIn(b)') <= manifests[b + 1].maxTotal
                      /\ \A p \in Operation : GrantsOf(b, p)' # {} =>
                           UsedBefore(b).calls[p] + Cardinality(GrantsOf(b, p)') <= manifests[b + 1].max[p]
    BY DEF BatchesKeepTheirBudget, UsedBefore
  <2>1. CASE b # batch
    BY <1>3, <2>1 DEF BInv, BatchesKeepTheirBudget
  <2>2. CASE b = batch
    <3>1. UsedBefore(batch).total + Cardinality(GrantsIn(batch)') <= manifest.maxTotal
      BY <1>3, <1>5, <1>7, <1>8 DEF BInv, BudgetCountsGrants, Budget, Manifest
    <3>2. ASSUME NEW p \in Operation, GrantsOf(batch, p)' # {}
          PROVE  UsedBefore(batch).calls[p] + Cardinality(GrantsOf(batch, p)') <= manifest.max[p]
      <4>1. budget.calls[p] \in Nat /\ UsedBefore(batch).calls[p] \in Nat /\ manifest.max[p] \in Nat
        BY <1>5, <1>8 DEF Budget, Manifest
      <4>2. CASE p = o
        <5>1. Cardinality(GrantsOf(batch, p)') = Cardinality(GrantsOf(batch, p)) + 1
          BY <1>3, <4>2
        <5>2. budget.calls[p] = UsedBefore(batch).calls[p] + Cardinality(GrantsOf(batch, p))
          BY DEF BInv, BudgetCountsGrants
        <5>3. budget.calls[p] < manifest.max[p]
          BY <1>8, <4>2
        <5> QED
          BY <1>7, <4>1, <5>1, <5>2, <5>3
      <4>3. CASE p # o
        <5>1. GrantsOf(batch, p)' = GrantsOf(batch, p)
          BY <1>3, <4>3
        <5>2. batch \in 0..batch
          BY <1>1
        <5>3. GrantsOf(batch, p) # {} =>
                UsedBefore(batch).calls[p] + Cardinality(GrantsOf(batch, p))
                  <= manifests[batch + 1].max[p]
          BY <5>2 DEF BInv, BatchesKeepTheirBudget
        <5> QED
          BY <1>5, <3>2, <5>1, <5>3
      <4> QED
        BY <4>2, <4>3
    <3> QED
      BY <1>5, <1>8, <2>2, <3>1, <3>2
  <2> QED
    BY <2>1, <2>2
<1>11. GrantsAreInScope'
  <2>1. /\ d \in DOMAIN Catalog /\ Catalog[d].enabled
        /\ CapabilityOf(o) \in Catalog[d].capabilities
    BY <1>2 DEF Routable
  <2> SUFFICES ASSUME NEW i \in DOMAIN grants'
               PROVE  LET h == grants'[i]  m == manifests[h.batch + 1] IN
                      /\ h.batch <= batch /\ m # NoManifest /\ m.environment = Environment
                      /\ h.device \in m.assets \cap Alias /\ h.operation \in m.operations
                      /\ m.from <= h.at /\ h.at < m.until
                      /\ h.device \in DOMAIN Catalog /\ Catalog[h.device].enabled
                      /\ CapabilityOf(h.operation) \in Catalog[h.device].capabilities
    BY DEF GrantsAreInScope
  <2>3. CASE i \in DOMAIN grants
    BY <1>4, <2>3 DEF BInv, GrantsAreInScope
  <2>4. CASE i = Len(grants) + 1
    <3>1. grants'[i] = g
      BY <1>4, <2>4
    <3> QED
      BY <1>1, <1>5, <1>8, <1>15, <2>1, <3>1
  <2> QED
    BY <1>4, <2>3, <2>4
<1>12. GrantsAreNumbered'
  <2>1. batch \in 0..batch /\ g.batch = batch
    BY <1>1, <1>15
  <2> QED
    BY <1>4, <2>1 DEF BInv, GrantsAreNumbered
<1> QED
  BY <1>9, <1>10, <1>11, <1>12 DEF BInv

\* A rotation starts a batch nothing was granted in.
LEMMA RotateCounts ==
  ASSUME BInv, TypeOK', NEW m \in Manifests,
         manifest' = m, budget' = EmptyBudget, batch' = batch + 1,
         manifests' = Append(manifests, m), UNCHANGED grants
  PROVE  BInv'
<1>1. batch \in Nat /\ Len(manifests) = batch + 1 /\ manifests \in Seq(Manifests)
  BY Bounds DEF BInv, TypeOK
<1>2. \A b \in 0..batch : manifests'[b + 1] = manifests[b + 1]
  BY <1>1, AppendProperties
<1>3. /\ \A b : GrantsIn(b)' = GrantsIn(b)
      /\ \A b, o : GrantsOf(b, o)' = GrantsOf(b, o)
  BY DEF GrantsIn, GrantsOf
<1>4. GrantsIn(batch + 1) = {} /\ \A o : GrantsOf(batch + 1, o) = {}
  BY <1>1 DEF BInv, GrantsAreNumbered, GrantsIn, GrantsOf
<1>5. \A b \in 0..batch' : b \in 0..batch \/ b = batch + 1
  BY <1>1
<1>6. BudgetCountsGrants'
  <2>1. UsedBefore(batch') = EmptyBudget
    BY <1>1 DEF UsedBefore
  <2>2. EmptyBudget.total = 0 /\ \A o \in Operation : EmptyBudget.calls[o] = 0
    BY DEF EmptyBudget
  <2>3. GrantsIn(batch)' = {} /\ \A o : GrantsOf(batch, o)' = {}
    BY <1>1 DEF BInv, GrantsAreNumbered, GrantsIn, GrantsOf
  <2>4. Cardinality({}) = 0
    BY FS_EmptySet
  <2>5. UsedBefore(batch)' = EmptyBudget
    BY <2>1 DEF UsedBefore
  <2>6. Cardinality(GrantsIn(batch))' = 0 /\ \A o : Cardinality(GrantsOf(batch, o))' = 0
    BY <2>3, <2>4
  <2>7. budget'.total = UsedBefore(batch)'.total + Cardinality(GrantsIn(batch))'
    BY <2>2, <2>5, <2>6
  <2>8. \A o \in Operation :
          budget'.calls[o] = UsedBefore(batch)'.calls[o] + Cardinality(GrantsOf(batch, o))'
    BY <2>2, <2>5, <2>6
  <2> QED
    BY <2>7, <2>8 DEF BudgetCountsGrants
<1>7. BatchesKeepTheirBudget'
  <2> SUFFICES ASSUME NEW b \in 0..batch'
               PROVE  /\ GrantsIn(b) # {} =>
                           manifests'[b + 1] # NoManifest
                           /\ UsedBefore(b).total + Cardinality(GrantsIn(b)) <= manifests'[b + 1].maxTotal
                      /\ \A p \in Operation : GrantsOf(b, p) # {} =>
                           UsedBefore(b).calls[p] + Cardinality(GrantsOf(b, p)) <= manifests'[b + 1].max[p]
    BY <1>3 DEF BatchesKeepTheirBudget, UsedBefore
  <2>1. CASE b \in 0..batch
    BY <1>2, <2>1 DEF BInv, BatchesKeepTheirBudget
  <2>2. CASE b = batch + 1
    BY <1>4, <2>2
  <2> QED
    BY <1>5, <2>1, <2>2
<1>8. GrantsAreNumbered' /\ \A i \in DOMAIN grants : manifests'[grants[i].batch + 1] = manifests[grants[i].batch + 1]
  BY <1>1, <1>2 DEF BInv, GrantsAreNumbered
<1>9. GrantsAreInScope'
  BY <1>1, <1>8 DEF BInv, GrantsAreInScope, GrantsAreNumbered
<1> QED
  BY <1>6, <1>7, <1>8, <1>9 DEF BInv

\* Steps that leave the session alone leave the counts alone.
LEMMA FateCounts ==
  ASSUME BInv, TypeOK', UNCHANGED <<manifest, budget, batch, manifests>>,
         DOMAIN grants' = DOMAIN grants,
         \A j \in DOMAIN grants :
           /\ grants'[j].batch = grants[j].batch /\ grants'[j].device = grants[j].device
           /\ grants'[j].operation = grants[j].operation /\ grants'[j].at = grants[j].at
  PROVE  BInv'
<1>1. /\ \A b : GrantsIn(b)' = GrantsIn(b)
      /\ \A b, o : GrantsOf(b, o)' = GrantsOf(b, o)
  BY SameGrants
<1>2. BudgetCountsGrants'
  BY <1>1 DEF BInv, BudgetCountsGrants, UsedBefore
<1>3. BatchesKeepTheirBudget'
  BY <1>1 DEF BInv, BatchesKeepTheirBudget, UsedBefore
<1>4. GrantsAreInScope'
  BY DEF BInv, GrantsAreInScope
<1>5. GrantsAreNumbered'
  BY DEF BInv, GrantsAreNumbered
<1> QED
  BY <1>2, <1>3, <1>4, <1>5 DEF BInv

\* A call that is under way was routable when it began, and still is.
RoutedCalls ==
  \A w \in Worker : pc[w] # "idle" => Routable(call[w].device, call[w].operation)

LEMMA RoutedStep ==
  ASSUME TypeOK, RoutedCalls, [Next]_vars
  PROVE  RoutedCalls'
<1>1. ASSUME NEW w \in Worker, End(w) PROVE RoutedCalls'
  BY <1>1 DEF TypeOK, RoutedCalls, End
<1>2. ASSUME UNCHANGED <<pc, call>> PROVE RoutedCalls'
  BY <1>2 DEF RoutedCalls
<1>3. ASSUME NEW w \in Worker, NEW d \in Device, NEW o \in Operation, StartCall(w, d, o)
      PROVE  RoutedCalls'
  <2>1. CASE /\ Routable(d, o)
             /\ pc' = [pc EXCEPT ![w] = "authorizing"]
             /\ call' = [call EXCEPT ![w] = [device |-> d, operation |-> o, grant |-> 0]]
    BY <2>1 DEF TypeOK, RoutedCalls
  <2> QED
    BY <1>2, <1>3, <2>1 DEF StartCall
<1>4. ASSUME NEW w \in Worker, Authorize(w) PROVE RoutedCalls'
  <2>1. CASE /\ pc' = [pc EXCEPT ![w] = "granted"]
             /\ call' = [call EXCEPT ![w].grant = Len(grants) + 1]
    <3>1. call[w] \in Call /\ Routable(call[w].device, call[w].operation)
      BY <1>4 DEF TypeOK, RoutedCalls, Authorize
    <3>2. call'[w].device = call[w].device /\ call'[w].operation = call[w].operation
      BY <2>1, <3>1 DEF TypeOK, Call
    <3>3. \A v \in Worker : v # w => call'[v] = call[v] /\ pc'[v] = pc[v]
      BY <2>1 DEF TypeOK
    <3> QED
      BY <3>1, <3>2, <3>3 DEF RoutedCalls
  <2> QED
    BY <1>1, <1>4, <2>1 DEF Authorize
<1>5. ASSUME NEW w \in Worker, GetReady(w) PROVE RoutedCalls'
  <2>1. CASE pc' = [pc EXCEPT ![w] = "calling"] /\ UNCHANGED call
    BY <1>5, <2>1 DEF TypeOK, RoutedCalls, GetReady
  <2> QED
    BY <1>1, <1>5, <2>1 DEF GetReady
<1>6. ASSUME NEW w \in Worker, NEW answer \in Answering, AdapterAnswers(w, answer) PROVE RoutedCalls'
  BY <1>1, <1>6 DEF AdapterAnswers
<1>7. CASE \/ \E m \in Manifests \ {NoManifest} : Rotate(m)
           \/ Close
           \/ \E key \in Adapter, state \in {"ready", "not_ready"} : Register(key, state) \/ Mark(key, state)
           \/ Tick
           \/ UNCHANGED vars
  BY <1>2, <1>7 DEF Rotate, Close, Register, Mark, Tick, vars
<1> QED
  BY <1>3, <1>4, <1>5, <1>6, <1>7 DEF Next, CallStep

IInv == BInv /\ RoutedCalls

LEMMA CountsInvariant == Spec => []IInv
<1>1. Init => IInv
  BY InitCounts DEF IInv, RoutedCalls, Init
<1>2. ASSUME IInv, [Next]_vars PROVE IInv'
  <2>1. TypeOK /\ TypeOK' /\ BInv /\ RoutedCalls'
    BY <1>2, NextType, RoutedStep DEF IInv, BInv
  <2>2. BInv'
    <3>1. CASE \E w \in Worker :
                 /\ pc[w] = "authorizing" /\ Allows(call[w].device, call[w].operation)
                 /\ budget' = Consume(budget, call[w].operation)
                 /\ grants' = Append(grants, [batch |-> batch, device |-> call[w].device,
                                              operation |-> call[w].operation,
                                              at |-> clock, fate |-> "pending"])
                 /\ UNCHANGED <<manifest, batch, closed, manifests>>
      <4>1. \A w \in Worker : pc[w] = "authorizing" => Routable(call[w].device, call[w].operation)
        BY <1>2 DEF IInv, RoutedCalls
      <4> QED
        BY <2>1, <3>1, <4>1, GrantCounts
    <3>2. CASE \E m \in Manifests :
                 /\ ~ closed /\ manifest' = m /\ budget' = EmptyBudget /\ batch' = batch + 1
                 /\ manifests' = Append(manifests, m)
                 /\ UNCHANGED <<closed, grants>>
      BY <2>1, <3>2, RotateCounts
    <3>3. CASE /\ UNCHANGED <<manifest, budget, batch, manifests>>
               /\ closed => closed'
               /\ DOMAIN grants' = DOMAIN grants /\ Len(grants') = Len(grants)
               /\ \A j \in DOMAIN grants :
                    /\ grants'[j].batch = grants[j].batch /\ grants'[j].device = grants[j].device
                    /\ grants'[j].operation = grants[j].operation /\ grants'[j].at = grants[j].at
      BY <2>1, <3>3, FateCounts
    <3> QED
      BY <1>2, <2>1, <3>1, <3>2, <3>3, HistoryStep
  <2> QED
    BY <2>1, <2>2 DEF IInv
<1> QED
  BY <1>1, <1>2, PTL DEF Spec

\* No batch ever grants more calls than its own manifest allows, in all and of each
\* operation, whatever calls race and whenever the session is rotated
\* (device_authorization.py:309-368, 488-523).
THEOREM BudgetsKept == Spec => []BatchesKeepTheirBudget
BY CountsInvariant, PTL DEF IInv, BInv

\* Every granted call is one the catalog and the manifest of its batch allow, inside
\* the window of that manifest (routed.py:178-193).
THEOREM GrantsInScope == Spec => []GrantsAreInScope
BY CountsInvariant, PTL DEF IInv, BInv

\* The budget is exactly what the calls granted in this batch cost
\* (device_authorization.py:384-394, routed.py:193).
THEOREM BudgetCounted == Spec => []BudgetCountsGrants
BY CountsInvariant, PTL DEF IInv, BInv

\* Budget comes back by a rotation only, and only to a batch of its own
\* (device_authorization.py:470-481).
THEOREM RefillsOnlyByRotation == Spec => OnlyRotationRefills
<1> DEFINE A == /\ batch' = batch =>
                     /\ manifest' = manifest /\ budget'.total >= budget.total
                     /\ \A o \in Operation : budget'.calls[o] >= budget.calls[o]
                /\ batch' # batch => batch' = batch + 1 /\ Len(grants') = Len(grants)
<1>1. ASSUME TypeOK, [Next]_vars PROVE A
  <2>1. /\ budget \in Budget /\ batch \in Nat /\ budget.total \in Nat
        /\ \A o \in Operation : budget.calls[o] \in Nat
    BY <1>1, Bounds DEF TypeOK, Budget
  <2>2. ASSUME NEW w \in Worker, pc[w] = "authorizing",
               budget' = Consume(budget, call[w].operation)
        PROVE  /\ budget'.total >= budget.total
               /\ \A o \in Operation : budget'.calls[o] >= budget.calls[o]
    <3> DEFINE p == call[w].operation
    <3>1. p \in Operation
      BY <1>1, <2>2 DEF TypeOK, Call
    <3>2. budget' = Consume(budget, p)
      BY <2>2
    <3> HIDE DEF p
    <3> QED
      BY <2>1, <3>1, <3>2, ConsumeType
  <2>3. ASSUME UNCHANGED <<manifest, budget, batch>> PROVE A
    BY <2>1, <2>3
  <2>4. CASE \E w \in Worker :
               /\ pc[w] = "authorizing" /\ budget' = Consume(budget, call[w].operation)
               /\ UNCHANGED <<manifest, batch>>
    BY <2>1, <2>2, <2>4
  <2>5. CASE batch' = batch + 1 /\ UNCHANGED grants
    BY <2>1, <2>5
  <2> QED
    BY <1>1, <2>3, <2>4, <2>5, HistoryStep
<1>2. TypeOK /\ [Next]_vars => [A]_vars
  BY <1>1
<1>3. Spec => [][A]_vars
  BY <1>2, TypeCorrect, PTL DEF Spec
<1> QED
  BY <1>3 DEF OnlyRotationRefills

\* Once the session is closed it stays so: no call is granted and no batch begins
\* (device_authorization.py:483-503).
THEOREM ClosedGrantsNothing == Spec => NothingGrantedOnceClosed
<1> DEFINE A == closed => closed' /\ batch' = batch /\ Len(grants') = Len(grants)
<1>1. TypeOK /\ [Next]_vars => [A]_vars
  BY HistoryStep DEF Allows
<1>2. Spec => [][A]_vars
  BY <1>1, TypeCorrect, PTL DEF Spec
<1> QED
  BY <1>2 DEF NothingGrantedOnceClosed

-----------------------------------------------------------------------------
(* A grant is good for one call. *)

\* The thread holds grant i: its call was granted and is not over.
Busy(w) == pc[w] \in {"granted", "calling"}
Holds(w, i) == Busy(w) /\ call[w].grant = i

Pending ==
  \A i \in DOMAIN grants : grants[i].fate = "pending" <=> \E w \in Worker : Holds(w, i)

Held ==
  \A w \in Worker : Busy(w) =>
    /\ call[w].grant \in DOMAIN grants
    /\ grants[call[w].grant].device = call[w].device
    /\ grants[call[w].grant].operation = call[w].operation
    /\ \A v \in Worker : Holds(v, call[w].grant) => v = w

LEMMA OneCallParts == OneCallPerGrant <=> Pending /\ Held
BY DEF OneCallPerGrant, Pending, Held, Holds, Busy

\* Steps that leave alone the grants and the calls that hold one.
LEMMA HoldsSame ==
  ASSUME Pending, Held, UNCHANGED grants,
         \A v \in Worker : /\ Busy(v)' <=> Busy(v)
                           /\ Busy(v) => call'[v] = call[v]
  PROVE  Pending' /\ Held'
<1>1. \A v \in Worker : \A i : Holds(v, i)' <=> Holds(v, i)
  BY DEF Holds
<1>2. Pending'
  BY <1>1 DEF Pending
<1>3. Held'
  BY <1>1 DEF Held
<1> QED
  BY <1>2, <1>3

\* An authorized call holds the grant it was given, and only it does.
LEMMA HoldTaken ==
  ASSUME TypeOK, Pending, Held, NEW w \in Worker, pc[w] = "authorizing", NEW g \in Grant,
         g.device = call[w].device, g.operation = call[w].operation, g.fate = "pending",
         grants' = Append(grants, g),
         pc' = [pc EXCEPT ![w] = "granted"],
         call' = [call EXCEPT ![w].grant = Len(grants) + 1]
  PROVE  Pending' /\ Held'
<1> DEFINE n == Len(grants) + 1
<1>1. /\ DOMAIN grants' = (DOMAIN grants) \cup {n} /\ n \notin DOMAIN grants
      /\ grants'[n] = g /\ \A i \in DOMAIN grants : grants'[i] = grants[i]
  BY AppendGrant
<1>2. call[w] \in Call
  BY DEF TypeOK
<1>3. /\ call'[w].grant = n /\ call'[w].device = call[w].device
      /\ call'[w].operation = call[w].operation
      /\ \A v \in Worker : v # w => call'[v] = call[v] /\ pc'[v] = pc[v]
      /\ pc'[w] = "granted"
  <2>1. call' = [call EXCEPT ![w] = [call[w] EXCEPT !.grant = n]]
    OBVIOUS
  <2> QED
    BY <1>2, <2>1 DEF TypeOK, Call
<1> HIDE DEF n
<1>4. ~ Busy(w) /\ Busy(w)' /\ \A v \in Worker : v # w => (Busy(v)' <=> Busy(v))
  BY <1>3 DEF Busy
<1>5. \A i : Holds(w, i)' <=> i = n
  BY <1>3, <1>4 DEF Holds
<1>6. \A v \in Worker : v # w => \A i : Holds(v, i)' <=> Holds(v, i)
  BY <1>3, <1>4 DEF Holds
<1>7. \A v \in Worker : ~ Holds(v, n) /\ \A i : ~ Holds(w, i)
  BY <1>1, <1>4 DEF Held, Holds
<1>8. Pending'
  <2> SUFFICES ASSUME NEW i \in DOMAIN grants'
               PROVE  grants'[i].fate = "pending" <=> \E v \in Worker : Holds(v, i)'
    BY DEF Pending
  <2>1. CASE i = n
    BY <1>1, <1>5, <2>1
  <2>2. CASE i \in DOMAIN grants
    BY <1>1, <1>5, <1>6, <1>7, <2>2 DEF Pending
  <2> QED
    BY <1>1, <2>1, <2>2
<1>9. Held'
  <2> SUFFICES ASSUME NEW v \in Worker, Busy(v)'
               PROVE  /\ call'[v].grant \in DOMAIN grants'
                      /\ grants'[call'[v].grant].device = call'[v].device
                      /\ grants'[call'[v].grant].operation = call'[v].operation
                      /\ \A u \in Worker : Busy(u)' /\ call'[u].grant = call'[v].grant => u = v
    BY DEF Held, Holds
  <2>1. CASE v = w
    <3>1. \A u \in Worker : Busy(u)' /\ call'[u].grant = n => u = w
      BY <1>6, <1>7 DEF Holds
    <3> QED
      BY <1>1, <1>3, <2>1, <3>1
  <2>2. CASE v # w
    <3>1. Busy(v) /\ call'[v] = call[v]
      BY <1>3, <1>4, <2>2
    <3>2. call[v].grant \in DOMAIN grants /\ call[v].grant # n
      BY <1>1, <3>1 DEF Held
    <3>3. ASSUME NEW u \in Worker, Busy(u)', call'[u].grant = call[v].grant PROVE u = v
      <4>1. u # w
        BY <1>3, <3>2, <3>3
      <4>2. Busy(u) /\ call'[u] = call[u]
        BY <1>3, <1>4, <3>3, <4>1
      <4> QED
        BY <3>1, <3>3, <4>2 DEF Held, Holds
    <3>4. grants'[call[v].grant] = grants[call[v].grant] /\ call[v].grant \in DOMAIN grants'
      BY <1>1, <3>2
    <3>5. grants[call[v].grant].device = call[v].device /\ grants[call[v].grant].operation = call[v].operation
      BY <3>1 DEF Held
    <3> QED
      BY <3>1, <3>3, <3>4, <3>5
  <2> QED
    BY <2>1, <2>2
<1> QED
  BY <1>8, <1>9

\* A call that ends settles the grant it holds, whatever came of it.
LEMMA HoldSettled ==
  ASSUME TypeOK, Pending, Held, NEW w \in Worker, Busy(w),
         NEW fate \in {"not_ready"} \cup AdapterAnswerKinds,
         grants' = [grants EXCEPT ![call[w].grant].fate = fate],
         End(w)
  PROVE  Pending' /\ Held'
<1>1. call[w].grant \in Nat
  BY DEF TypeOK, Call, Busy
<1>2. /\ DOMAIN grants' = DOMAIN grants
      /\ \A j \in DOMAIN grants :
           /\ grants'[j].device = grants[j].device /\ grants'[j].operation = grants[j].operation
           /\ grants'[j].fate = IF j = call[w].grant THEN fate ELSE grants[j].fate
  BY <1>1, SetFate
<1>3. fate # "pending"
  BY DEF AdapterAnswerKinds, AdapterErrors
<1>4. ~ Busy(w)' /\ \A v \in Worker : v # w => (Busy(v)' <=> Busy(v)) /\ call'[v] = call[v]
  BY DEF TypeOK, End, Busy
<1>5. /\ \A i : ~ Holds(w, i)'
      /\ \A v \in Worker : v # w => \A i : Holds(v, i)' <=> Holds(v, i)
  BY <1>4 DEF Holds
<1>6. \A v \in Worker : Holds(v, call[w].grant) => v = w
  BY DEF Held
<1>7. \A i : Holds(w, i) <=> i = call[w].grant
  BY DEF Holds
<1>8. Pending'
  <2> SUFFICES ASSUME NEW i \in DOMAIN grants
               PROVE  grants'[i].fate = "pending" <=> \E v \in Worker : Holds(v, i)'
    BY <1>2 DEF Pending
  <2>1. CASE i = call[w].grant
    BY <1>2, <1>3, <1>5, <1>6, <2>1
  <2>2. CASE i # call[w].grant
    BY <1>2, <1>5, <1>7, <2>2 DEF Pending
  <2> QED
    BY <2>1, <2>2
<1>9. Held'
  <2> SUFFICES ASSUME NEW v \in Worker, Busy(v)'
               PROVE  /\ call'[v].grant \in DOMAIN grants'
                      /\ grants'[call'[v].grant].device = call'[v].device
                      /\ grants'[call'[v].grant].operation = call'[v].operation
                      /\ \A u \in Worker : Busy(u)' /\ call'[u].grant = call'[v].grant => u = v
    BY DEF Held, Holds
  <2>1. v # w /\ Busy(v) /\ call'[v] = call[v]
    BY <1>4
  <2>2. \A u \in Worker : Busy(u)' /\ call'[u].grant = call[v].grant => u = v
    BY <1>5, <2>1 DEF Held, Holds
  <2> QED
    BY <1>2, <2>1, <2>2 DEF Held
<1> QED
  BY <1>8, <1>9

LEMMA HoldsStep ==
  ASSUME TypeOK, Pending, Held, [Next]_vars
  PROVE  Pending' /\ Held'
<1>1. ASSUME UNCHANGED <<pc, call, grants>> PROVE Pending' /\ Held'
  BY <1>1, HoldsSame DEF Busy
<1>2. ASSUME NEW w \in Worker, ~ Busy(w), End(w), UNCHANGED grants PROVE Pending' /\ Held'
  <2>1. \A v \in Worker : (Busy(v)' <=> Busy(v)) /\ (Busy(v) => call'[v] = call[v])
    BY <1>2 DEF TypeOK, End, Busy
  <2> QED
    BY <1>2, <2>1, HoldsSame
<1>3. ASSUME NEW w \in Worker, NEW d \in Device, NEW o \in Operation, StartCall(w, d, o)
      PROVE  Pending' /\ Held'
  <2>1. CASE /\ pc' = [pc EXCEPT ![w] = "authorizing"]
             /\ call' = [call EXCEPT ![w] = [device |-> d, operation |-> o, grant |-> 0]]
    <3>1. \A v \in Worker : (Busy(v)' <=> Busy(v)) /\ (Busy(v) => call'[v] = call[v])
      BY <1>3, <2>1 DEF TypeOK, StartCall, Busy
    <3> QED
      BY <1>3, <3>1, HoldsSame DEF StartCall
  <2> QED
    BY <1>1, <1>3, <2>1 DEF StartCall
<1>4. ASSUME NEW w \in Worker, Authorize(w) PROVE Pending' /\ Held'
  <2>1. CASE End(w) /\ UNCHANGED <<budget, grants>>
    BY <1>2, <1>4, <2>1 DEF Authorize, Busy
  <2>2. CASE /\ grants' = Append(grants, [batch |-> batch, device |-> call[w].device,
                                          operation |-> call[w].operation,
                                          at |-> clock, fate |-> "pending"])
             /\ pc' = [pc EXCEPT ![w] = "granted"]
             /\ call' = [call EXCEPT ![w].grant = Len(grants) + 1]
    <3>1. call[w] \in Call /\ pc[w] = "authorizing"
      BY <1>4 DEF TypeOK, Authorize
    <3>2. batch \in Nat /\ clock \in Nat
      BY Bounds DEF TypeOK
    <3>3. PICK g \in Grant : g = [batch |-> batch, device |-> call[w].device,
                                  operation |-> call[w].operation, at |-> clock, fate |-> "pending"]
      BY <3>1, <3>2 DEF Call, Grant
    <3>4. /\ g.device = call[w].device /\ g.operation = call[w].operation /\ g.fate = "pending"
          /\ grants' = Append(grants, g)
      BY <2>2, <3>3
    <3> QED
      BY <2>2, <3>1, <3>4, HoldTaken
  <2> QED
    BY <1>4, <2>1, <2>2 DEF Authorize
<1>5. ASSUME NEW w \in Worker, GetReady(w) PROVE Pending' /\ Held'
  <2>1. CASE pc' = [pc EXCEPT ![w] = "calling"] /\ UNCHANGED <<call, grants>>
    <3>1. \A v \in Worker : (Busy(v)' <=> Busy(v)) /\ call'[v] = call[v]
      BY <1>5, <2>1 DEF TypeOK, GetReady, Busy
    <3> QED
      BY <2>1, <3>1, HoldsSame
  <2>2. CASE grants' = [grants EXCEPT ![call[w].grant].fate = "not_ready"] /\ End(w)
    <3>1. Busy(w)
      BY <1>5 DEF GetReady, Busy
    <3> QED
      BY <2>2, <3>1, HoldSettled
  <2> QED
    BY <1>5, <2>1, <2>2 DEF GetReady
<1>6. ASSUME NEW w \in Worker, NEW answer \in Answering, AdapterAnswers(w, answer)
      PROVE  Pending' /\ Held'
  BY <1>6, HoldSettled, KnownAnswers DEF AdapterAnswers, Busy
<1>7. CASE \/ \E m \in Manifests \ {NoManifest} : Rotate(m)
           \/ Close
           \/ \E key \in Adapter, state \in {"ready", "not_ready"} : Register(key, state) \/ Mark(key, state)
           \/ Tick
           \/ UNCHANGED vars
  BY <1>1, <1>7 DEF Rotate, Close, Register, Mark, Tick, vars
<1> QED
  BY <1>3, <1>4, <1>5, <1>6, <1>7 DEF Next, CallStep

\* A grant is good for one call of the device and operation it was given for: each is
\* pending in exactly one thread, was used by one call, or was lost to an adapter that
\* was not ready (routed.py:178-193).
THEOREM GrantsAreUsedOnce == Spec => []OneCallPerGrant
<1>1. Init => Pending /\ Held
  <2> SUFFICES ASSUME Init PROVE Pending /\ Held
    OBVIOUS
  <2>1. DOMAIN grants = {} /\ \A w \in Worker : ~ Busy(w)
    BY EmptySeq, LenProperties DEF Init, Busy
  <2> QED
    BY <2>1 DEF Pending, Held
<1>2. TypeOK /\ Pending /\ Held /\ [Next]_vars => Pending' /\ Held'
  BY HoldsStep
<1>3. Spec => [](Pending /\ Held)
  BY <1>1, <1>2, TypeCorrect, PTL DEF Spec
<1> QED
  BY <1>3, OneCallParts, PTL
=============================================================================
