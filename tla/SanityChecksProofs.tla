------------------------- MODULE SanityChecksProofs -------------------------
(***************************************************************************)
(* Proofs about the Entities and CallGas checks, for every instance: the   *)
(* type invariant for any number of tasks and, when validations run one   *)
(* at a time, the SREP-030 throttling limit.                               *)
(***************************************************************************)
EXTENDS SanityChecks, FiniteSetTheorems, TLAPS

\* The record fields the checks read, for every hash.
LEMMA UoFields ==
  ASSUME NEW h \in Hashes
  PROVE  /\ Uo[h].tip \in Nat /\ Uo[h].maxFee \in Nat
BY UoAssumption DEF UoRecords

LEMMA PriceNat ==
  ASSUME NEW h \in Hashes, NEW b \in Nat
  PROVE  EffectiveGasPrice(h, b) \in Nat
BY UoFields DEF EffectiveGasPrice

-----------------------------------------------------------------------------
(* Type correctness. *)

LEMMA InitTypeOK == Init => TypeOK
BY SanityChecksAssumption DEF Init, TypeOK, ExecResults

LEMMA NextTypeOK == TypeOK /\ [Next]_vars => TypeOK'
<1> SUFFICES ASSUME TypeOK, [Next]_vars PROVE TypeOK'
  OBVIOUS
<1>1. ASSUME NEW t \in Tasks, NEW h \in Hashes, Start(t, h) PROVE TypeOK'
  BY <1>1 DEF Start, Goto, TypeOK
<1>2. ASSUME NEW t \in Tasks, Simulate(t) PROVE TypeOK'
  <2>1. PICK g \in GasUsed, x \in ExecutionGas :
          exec' = [exec EXCEPT ![t] =
                     [paid |-> (g + x) * EffectiveGasPrice(op[t], baseFee),
                      preOpGas |-> g]]
    BY <1>2 DEF Simulate
  <2>2. EffectiveGasPrice(op[t], baseFee) \in Nat
    BY PriceNat, SanityChecksAssumption DEF TypeOK
  <2> QED
    BY <1>2, <2>1, <2>2, SanityChecksAssumption DEF Simulate, Goto, TypeOK, ExecResults
<1>3. ASSUME NEW t \in Tasks, ProviderError(t) PROVE TypeOK'
  BY <1>3 DEF ProviderError, Goto, TypeOK
<1>4. ASSUME NEW t \in Tasks, Block(t) PROVE TypeOK'
  BY <1>4 DEF Block, Goto, TypeOK
<1>5. ASSUME NEW t \in Tasks, Entities(t) PROVE TypeOK'
  BY <1>5 DEF Entities, Goto, TypeOK
<1>6. ASSUME NEW t \in Tasks, Admit(t) PROVE TypeOK'
  BY <1>6 DEF Admit, Goto, TypeOK
<1>7. ASSUME NEW h \in Hashes, Bundle(h) PROVE TypeOK'
  BY <1>7 DEF Bundle, TypeOK
<1>8. CASE NewBlock
  BY <1>8 DEF NewBlock, TypeOK
<1>9. CASE UNCHANGED vars
  BY <1>9 DEF vars, TypeOK
<1> QED
  BY <1>1, <1>2, <1>3, <1>4, <1>5, <1>6, <1>7, <1>8, <1>9 DEF Next

\* The checks keep every variable within its type, however many tasks run.
THEOREM TypeCorrect == Spec => []TypeOK
BY InitTypeOK, NextTypeOK, PTL DEF Spec

-----------------------------------------------------------------------------
(* Counting the operations that name an address. *)

LEMMA NamingFinite ==
  ASSUME NEW a, NEW hs \in SUBSET Hashes
  PROVE  /\ IsFiniteSet(SentBy(a, hs))
         /\ IsFiniteSet(NamingEntity(a, hs))
         /\ IsFiniteSet(Naming(a, hs))
BY SanityChecksAssumption, FS_Subset DEF SentBy, NamingEntity, Naming

\* Naming a in fewer operations never names it in more.
LEMMA NamingMono ==
  ASSUME NEW a, NEW hs \in SUBSET Hashes, NEW ks \in SUBSET hs
  PROVE  Cardinality(Naming(a, ks)) <= Cardinality(Naming(a, hs))
<1>1. Naming(a, ks) \subseteq Naming(a, hs)
  BY DEF Naming, SentBy, NamingEntity
<1> QED
  BY <1>1, NamingFinite, FS_Subset

\* The operations naming a are at most the count that check_throttled
\* compares: the sender index plus the entity index.
LEMMA NamingBelowCount ==
  ASSUME NEW a, pool \subseteq Hashes
  PROVE  Cardinality(Naming(a, pool)) <= MempoolCount(a)
<1> DEFINE S == SentBy(a, pool)
          T == NamingEntity(a, pool)
<1>1. IsFiniteSet(S) /\ IsFiniteSet(T)
  BY NamingFinite
<1>2. /\ Cardinality(S) \in Nat /\ Cardinality(T) \in Nat
      /\ Cardinality(S \cap T) \in Nat
  BY <1>1, FS_CardinalityType, FS_Intersection
<1>3. Cardinality(S \cup T) = Cardinality(S) + Cardinality(T) - Cardinality(S \cap T)
  BY <1>1, FS_Union
<1>4. Cardinality(S \cup T) <= Cardinality(S) + Cardinality(T)
  BY <1>2, <1>3
<1> QED
  BY <1>4 DEF Naming, MempoolCount

\* The admission of h adds at most h to the operations naming a, and
\* nothing when h does not name a.
LEMMA AdmitNaming ==
  ASSUME NEW a, NEW h \in Hashes, NEW hs \in SUBSET Hashes, NEW X
  PROVE  /\ Naming(a, (hs \ X) \cup {h}) \subseteq Naming(a, hs) \cup {h}
         /\ a \notin {Sender(h)} \cup OptionalEntities(h) =>
              Naming(a, (hs \ X) \cup {h}) \subseteq Naming(a, hs)
BY DEF Naming, SentBy, NamingEntity

-----------------------------------------------------------------------------
(* The throttling limit when validations run one at a time.               *)

\* At most one validation is in flight.
SingleTask == \A t, u \in Tasks : t = u

\* The entities check_user_operation reads the reputation of.
CheckedEntities(h) == {Sender(h)} \cup OptionalEntities(h)

\* A task at the admission has found room below the limit for each of its
\* throttled entities, and the pool has not grown since.
AdmitRoom ==
  \A t \in Tasks : pc[t] = "admit" =>
    \A a \in Throttled \cap CheckedEntities(op[t]) :
      Cardinality(Naming(a, pool)) < THROTTLED_ENTITY_MEMPOOL_COUNT

IInv == TypeOK /\ ThrottledWithinLimit /\ AdmitRoom

LEMMA InitIInv == Init => IInv
<1> SUFFICES ASSUME Init PROVE IInv
  OBVIOUS
<1>1. \A a : Naming(a, pool) = {}
  BY DEF Init, Naming, SentBy, NamingEntity
<1> QED
  BY <1>1, InitTypeOK, FS_EmptySet, SanityChecksAssumption
  DEF Init, IInv, ThrottledWithinLimit, AdmitRoom

\* A step that leaves the pool alone and sends no task to the admission.
LEMMA QuietStep ==
  ASSUME IInv, TypeOK', pool' = pool, op' = op, NEW t \in Tasks,
         pc' = [pc EXCEPT ![t] = pc'[t]], pc'[t] # "admit"
  PROVE  IInv'
BY DEF IInv, TypeOK, ThrottledWithinLimit, AdmitRoom

\* A step that shrinks the pool and moves no task.
LEMMA ShrinkStep ==
  ASSUME IInv, TypeOK', pool' \subseteq pool, op' = op, pc' = pc
  PROVE  IInv'
<1>1. ASSUME NEW a \in Throttled
      PROVE  Cardinality(Naming(a, pool')) <= Cardinality(Naming(a, pool))
  <2>1. pool \in SUBSET Hashes /\ pool' \in SUBSET pool
    BY DEF IInv, TypeOK
  <2> QED
    BY <2>1, NamingMono
<1>2. ASSUME NEW a \in Throttled
      PROVE  /\ Cardinality(Naming(a, pool)) \in Nat
             /\ Cardinality(Naming(a, pool')) \in Nat
  <2>1. pool \in SUBSET Hashes /\ pool' \in SUBSET Hashes
    BY DEF IInv, TypeOK
  <2>2. IsFiniteSet(Naming(a, pool)) /\ IsFiniteSet(Naming(a, pool'))
    BY <2>1, NamingFinite
  <2> QED
    BY <2>2, FS_CardinalityType
<1> QED
  BY <1>1, <1>2, SanityChecksAssumption
  DEF IInv, ThrottledWithinLimit, AdmitRoom

\* check_user_operation lets h through only if each of its throttled
\* entities has room below the limit.
LEMMA EntitiesRoom ==
  ASSUME TypeOK, NEW t \in Tasks, Entities(t), pc'[t] = "admit",
         NEW a \in Throttled \cap CheckedEntities(op[t])
  PROVE  Cardinality(Naming(a, pool)) < THROTTLED_ENTITY_MEMPOOL_COUNT
<1>1. ~Rejected(a)
  BY DEF Entities, Goto, CheckedEntities, TypeOK
<1>2. MempoolCount(a) \in Nat
  BY NamingFinite, FS_CardinalityType DEF TypeOK, MempoolCount
<1>3. MempoolCount(a) < THROTTLED_ENTITY_MEMPOOL_COUNT
  BY <1>1, <1>2, SanityChecksAssumption DEF Rejected
<1>4. Cardinality(Naming(a, pool)) \in Nat
  BY NamingFinite, FS_CardinalityType DEF TypeOK
<1>5. Cardinality(Naming(a, pool)) <= MempoolCount(a)
  BY NamingBelowCount DEF TypeOK
<1> QED
  BY <1>2, <1>3, <1>4, <1>5, SanityChecksAssumption

\* The admission keeps the limit: an entity h names had room for h, and
\* the others gain nothing.
LEMMA AdmitWithin ==
  ASSUME IInv, NEW t \in Tasks, Admit(t)
  PROVE  ThrottledWithinLimit'
<1> SUFFICES ASSUME NEW a \in Throttled
             PROVE  Cardinality(Naming(a, pool')) <= THROTTLED_ENTITY_MEMPOOL_COUNT
  BY DEF ThrottledWithinLimit
<1> DEFINE h == op[t]
           N == Naming(a, pool)
<1>1. h \in Hashes /\ pool \in SUBSET Hashes
  BY DEF IInv, TypeOK
<1>2. pool' = (pool \ SameSlot(h, pool)) \cup {h}
  BY DEF Admit
<1>3. IsFiniteSet(N) /\ Cardinality(N) \in Nat
  BY <1>1, NamingFinite, FS_CardinalityType
<1>4. Cardinality(N) <= THROTTLED_ENTITY_MEMPOOL_COUNT
  BY DEF IInv, ThrottledWithinLimit
<1>8. pool' \in SUBSET Hashes
  BY <1>1, <1>2
<1>9. Cardinality(Naming(a, pool')) \in Nat
  BY <1>8, NamingFinite, FS_CardinalityType
<1>5. /\ IsFiniteSet(N \cup {h})
      /\ Cardinality(N \cup {h}) <= Cardinality(N) + 1
      /\ Cardinality(N \cup {h}) \in Nat
  BY <1>3, FS_AddElement, FS_CardinalityType
<1>6. CASE a \in CheckedEntities(h)
  <2>1. Cardinality(N) < THROTTLED_ENTITY_MEMPOOL_COUNT
    BY <1>6 DEF IInv, AdmitRoom, Admit
  <2>2. Naming(a, pool') \subseteq N \cup {h}
    BY <1>1, <1>2, AdmitNaming
  <2>3. Cardinality(Naming(a, pool')) <= Cardinality(N \cup {h})
    BY <1>5, <2>2, FS_Subset
  <2> QED
    BY <1>3, <1>9, <1>5, <2>1, <2>3, SanityChecksAssumption
<1>7. CASE a \notin CheckedEntities(h)
  <2>1. Naming(a, pool') \subseteq N
    BY <1>1, <1>2, <1>7, AdmitNaming DEF CheckedEntities
  <2>2. Cardinality(Naming(a, pool')) <= Cardinality(N)
    BY <1>3, <2>1, FS_Subset
  <2> QED
    BY <1>3, <1>4, <1>9, <2>2, SanityChecksAssumption
<1> QED
  BY <1>6, <1>7

LEMMA NextIInv == SingleTask /\ IInv /\ [Next]_vars => IInv'
<1> SUFFICES ASSUME SingleTask, IInv, [Next]_vars PROVE IInv'
  OBVIOUS
<1>0. TypeOK'
  BY NextTypeOK DEF IInv
<1>1. ASSUME NEW t \in Tasks, NEW h \in Hashes, Start(t, h) PROVE IInv'
  <2>1. ThrottledWithinLimit'
    BY <1>1 DEF Start, IInv, ThrottledWithinLimit
  <2>2. AdmitRoom'
    <3> SUFFICES ASSUME NEW u \in Tasks, pc'[u] = "admit"
                 PROVE  \A a \in Throttled \cap CheckedEntities(op'[u]) :
                          Cardinality(Naming(a, pool')) < THROTTLED_ENTITY_MEMPOOL_COUNT
      BY DEF AdmitRoom
    <3>1. u # t /\ op'[u] = op[u] /\ pc[u] = "admit"
      BY <1>1 DEF Start, Goto, IInv, TypeOK
    <3> QED
      BY <1>1, <3>1 DEF Start, IInv, AdmitRoom
  <2> QED
    BY <1>0, <2>1, <2>2 DEF IInv
<1>2. ASSUME NEW t \in Tasks, Simulate(t) PROVE IInv'
  BY <1>0, <1>2, QuietStep DEF Simulate, Goto, IInv, TypeOK
<1>3. ASSUME NEW t \in Tasks, ProviderError(t) PROVE IInv'
  BY <1>0, <1>3, QuietStep DEF ProviderError, Goto, IInv, TypeOK
<1>4. ASSUME NEW t \in Tasks, Block(t) PROVE IInv'
  <2>1. pc'[t] \in {"idle", "entities"}
    BY <1>4 DEF Block, Goto, IInv, TypeOK
  <2> QED
    BY <1>0, <1>4, <2>1, QuietStep DEF Block, Goto, IInv, TypeOK
<1>5. ASSUME NEW t \in Tasks, Entities(t) PROVE IInv'
  <2>1. ThrottledWithinLimit'
    BY <1>5 DEF Entities, IInv, ThrottledWithinLimit
  <2>2. AdmitRoom'
    <3> SUFFICES ASSUME NEW u \in Tasks, pc'[u] = "admit",
                        NEW a \in Throttled \cap CheckedEntities(op'[u])
                 PROVE  Cardinality(Naming(a, pool')) < THROTTLED_ENTITY_MEMPOOL_COUNT
      BY DEF AdmitRoom
    <3>1. CASE u = t
      BY <1>5, <3>1, EntitiesRoom DEF Entities, IInv
    <3>2. CASE u # t
      BY <1>5, <3>2 DEF Entities, Goto, IInv, TypeOK, AdmitRoom
    <3> QED
      BY <3>1, <3>2
  <2> QED
    BY <1>0, <2>1, <2>2 DEF IInv
<1>6. ASSUME NEW t \in Tasks, Admit(t) PROVE IInv'
  <2>1. ThrottledWithinLimit'
    BY <1>6, AdmitWithin
  <2>2. AdmitRoom'
    <3>1. \A u \in Tasks : pc'[u] = "idle"
      BY <1>6 DEF Admit, Goto, SingleTask, IInv, TypeOK
    <3> QED
      BY <3>1 DEF AdmitRoom
  <2> QED
    BY <1>0, <2>1, <2>2 DEF IInv
<1>7. ASSUME NEW h \in Hashes, Bundle(h) PROVE IInv'
  BY <1>0, <1>7, ShrinkStep DEF Bundle
<1>8. CASE NewBlock
  BY <1>0, <1>8, ShrinkStep DEF NewBlock
<1>9. CASE UNCHANGED vars
  BY <1>0, <1>9, ShrinkStep DEF vars
<1> QED
  BY <1>1, <1>2, <1>3, <1>4, <1>5, <1>6, <1>7, <1>8, <1>9 DEF Next

\* When one validation runs at a time, check_throttled (entities.rs:57),
\* run before the admission with the mempool counts of that moment, keeps
\* every THROTTLED entity named by at most THROTTLED_ENTITY_MEMPOOL_COUNT
\* pooled operations, for every limit and every set of operations.
THEOREM SequentialThrottledWithinLimit ==
  SingleTask => (Spec => []ThrottledWithinLimit)
<1> SUFFICES ASSUME SingleTask PROVE Spec => []ThrottledWithinLimit
  OBVIOUS
<1>1. IInv /\ [Next]_vars => IInv'
  BY NextIInv
<1>2. IInv => ThrottledWithinLimit
  BY DEF IInv
<1> QED
  BY <1>1, <1>2, InitIInv, PTL DEF Spec

=============================================================================
