------------------------ MODULE MemoryMempoolProofs ------------------------
(***************************************************************************)
(* Proofs about the in-memory mempool backend, for every set of hashes,    *)
(* addresses and operations: the type invariant, the consistency of the    *)
(* two indices with the map of operations, and the refinement of the       *)
(* Mempool contract.                                                       *)
(***************************************************************************)
EXTENDS MemoryMempool, SortOrderProofs, TLAPS

\* The record fields the index operators read, for every hash.
LEMMA UoFields ==
  ASSUME NEW h \in Hashes
  PROVE  /\ Sender(h) \in Addrs
         /\ OptionalEntities(h) \subseteq Addrs
BY UoAssumption DEF Sender, OptionalEntities, UoRecords

-----------------------------------------------------------------------------
(* Type correctness. *)

LEMMA InitTypeOK == Init => TypeOK
BY DEF Init, TypeOK, Results

LEMMA NextTypeOK == TypeOK /\ [Next]_vars => TypeOK'
<1> SUFFICES ASSUME TypeOK, [Next]_vars PROVE TypeOK'
  OBVIOUS
<1>1. ASSUME NEW h \in Hashes, add(h) PROVE TypeOK'
  BY <1>1, UoFields DEF add, TypeOK, Results
<1>2. ASSUME NEW hs \in SUBSET Hashes, RemoveAll(hs), result' \in Results
      PROVE TypeOK'
  BY <1>2 DEF RemoveAll, TypeOK
<1>3. ASSUME NEW h \in Hashes, remove(h) PROVE TypeOK'
  BY <1>3, <1>2 DEF remove, TypeOK, Results
<1>4. ASSUME NEW e \in Addrs, remove_by_entity(e) PROVE TypeOK'
  BY <1>4, <1>2 DEF remove_by_entity, TypeOK, Results
<1>5. ASSUME NEW h \in Hashes, NEW cs \in CodeHashInputs, set_code_hashes(h, cs)
      PROVE TypeOK'
  BY <1>5, CodeHashInputsAssumption DEF set_code_hashes, TypeOK, Results
<1>6. ASSUME clear PROVE TypeOK'
  BY <1>6 DEF clear, TypeOK, Results
<1>7. ASSUME UNCHANGED vars PROVE TypeOK'
  BY <1>7 DEF vars, TypeOK
<1>. QED
  BY <1>1, <1>3, <1>4, <1>5, <1>6, <1>7 DEF Next

\* The type invariant of the in-memory backend.
THEOREM TypeCorrect == Spec => []TypeOK
BY InitTypeOK, NextTypeOK, PTL DEF Spec

-----------------------------------------------------------------------------
(* Index consistency.  With the type invariant it is inductive as it is.  *)

IInv == TypeOK /\ IndexConsistency

LEMMA InitIInv == Init => IInv
BY InitTypeOK DEF Init, IInv, IndexConsistency, SentBy, NamingEntity

\* Removing any set of stored operations, each from its own keys, keeps the
\* indices consistent: the step shared by remove and remove_by_entity.
LEMMA RemoveAllConsistent ==
  ASSUME TypeOK, IndexConsistency, NEW hs \in SUBSET Hashes, RemoveAll(hs)
  PROVE  IndexConsistency'
BY DEF RemoveAll, IndexConsistency, SentBy, NamingEntity, TypeOK

LEMMA NextIInv == IInv /\ [Next]_vars => IInv'
<1> SUFFICES ASSUME IInv, [Next]_vars PROVE IInv'
  OBVIOUS
<1>0. TypeOK'
  BY NextTypeOK DEF IInv
<1>1. ASSUME NEW h \in Hashes, add(h) PROVE IndexConsistency'
  <2> SUFFICES ASSUME NEW a \in Addrs
               PROVE /\ user_operations_by_sender'[a] = SentBy(a, user_operations')
                     /\ user_operations_by_entity'[a] = NamingEntity(a, user_operations')
    BY DEF IndexConsistency
  <2>1. user_operations_by_sender'[a] = SentBy(a, user_operations')
    BY <1>1, UoFields DEF add, IInv, IndexConsistency, TypeOK, SentBy
  <2>2. user_operations_by_entity'[a] = NamingEntity(a, user_operations')
    BY <1>1 DEF add, IInv, IndexConsistency, TypeOK, NamingEntity
  <2> QED
    BY <2>1, <2>2
<1>2. ASSUME NEW h \in Hashes, remove(h) PROVE IndexConsistency'
  BY <1>2, RemoveAllConsistent DEF remove, IInv, IndexConsistency
<1>3. ASSUME NEW e \in Addrs, remove_by_entity(e) PROVE IndexConsistency'
  BY <1>3, RemoveAllConsistent DEF remove_by_entity, IInv, TypeOK
<1>4. ASSUME NEW h \in Hashes, NEW cs \in CodeHashInputs, set_code_hashes(h, cs)
      PROVE IndexConsistency'
  BY <1>4 DEF set_code_hashes, IInv, IndexConsistency, SentBy, NamingEntity
<1>5. ASSUME clear PROVE IndexConsistency'
  BY <1>5 DEF clear, IndexConsistency, SentBy, NamingEntity
<1>6. ASSUME UNCHANGED vars PROVE IndexConsistency'
  BY <1>6 DEF vars, IInv, IndexConsistency, SentBy, NamingEntity
<1>. QED
  BY <1>0, <1>1, <1>2, <1>3, <1>4, <1>5, <1>6 DEF Next, IInv

\* Every reachable state of the in-memory backend has consistent indices.
THEOREM IndicesConsistent == Spec => []IndexConsistency
<1>1. Spec => []IInv
  BY InitIInv, NextIInv, PTL DEF Spec
<1>. QED
  BY <1>1, PTL DEF IInv

\* The count verify_sender tests and the list it indexes agree in every
\* reachable state: the listing keeps every hash the sender index holds.
THEOREM SenderCountsAgree == Spec => []SenderCountMatchesList
<1>1. ASSUME IndexConsistency, NEW a \in Addrs
      PROVE  get_all_by_sender(a) = user_operations_by_sender[a]
  BY <1>1 DEF IndexConsistency, get_all_by_sender, SentBy
<1>2. IndexConsistency => SenderCountMatchesList
  BY <1>1 DEF SenderCountMatchesList, get_number_by_sender
<1> QED
  BY <1>2, IndicesConsistent, PTL

\* The comparator of get_sorted says "not Greater" exactly for the pairs
\* in the order of spec 8.3.
LEMMA CompareInOrder ==
  ASSUME NEW a \in Hashes, NEW b \in Hashes
  PROVE  SortCompare(a, b) # "Greater" <=> InOrder(a, b)
BY OrderFields DEF SortCompare, Cmp, InOrder

\* SequencesExt counts with the Cardinality of FiniteSets.
LEMMA SeqsCardinality ==
  ASSUME NEW S
  PROVE  Seqs!Cardinality(S) = Cardinality(S)
BY DEF Seqs!Cardinality, Cardinality

\* In every state whose pool is a set of hashes, get_sorted has a result,
\* and each of its results lists the pool by tip descending, then nonce
\* ascending.
LEMMA SortLawOfPool == TypeOK => SortLaw
<1> SUFFICES ASSUME TypeOK PROVE SortLaw
  OBVIOUS
<1>1. IsFiniteSet(user_operations)
  BY HashesAssumption, FS_Subset DEF TypeOK
<1>2. PICK s \in Arrangements(user_operations) :
        \A i, j \in 1..Cardinality(user_operations) : i < j => InOrder(s[i], s[j])
  BY <1>1, SortedArrangementExists DEF TypeOK
<1>3. s \in get_sorted
  <2>1. s \in Seqs!SetToSeqs(user_operations) /\ DOMAIN s = 1..Cardinality(user_operations)
    BY <1>2, SeqsCardinality DEF Arrangements, Seqs!SetToSeqs
  <2>2. ASSUME NEW i \in DOMAIN s, NEW j \in DOMAIN s, i < j
        PROVE  SortCompare(s[i], s[j]) # "Greater"
    <3>1. s[i] \in Hashes /\ s[j] \in Hashes
      BY <2>1 DEF Arrangements, TypeOK
    <3> QED
      BY <1>2, <2>1, <2>2, <3>1, CompareInOrder
  <2> QED
    BY <2>1, <2>2 DEF get_sorted
<1>4. ASSUME NEW t \in get_sorted PROVE Abstract!SortedAsSpecified(t)
  <2>1. /\ t \in [1..Cardinality(user_operations) -> user_operations]
        /\ \A i, j \in DOMAIN t : i < j => SortCompare(t[i], t[j]) # "Greater"
    BY SeqsCardinality DEF get_sorted, Seqs!SetToSeqs
  <2>2. ASSUME NEW i \in DOMAIN t, NEW j \in DOMAIN t, i < j
        PROVE  InOrder(t[i], t[j])
    <3>1. t[i] \in Hashes /\ t[j] \in Hashes
      BY <2>1 DEF TypeOK
    <3> QED
      BY <2>1, <2>2, <3>1, CompareInOrder
  <2> QED
    BY <2>2 DEF Abstract!SortedAsSpecified, InOrder
<1> QED
  BY <1>3, <1>4 DEF SortLaw

\* get_sorted always yields the pool in the order spec 8.3 promises (tip
\* descending, nonce ascending), for every pool the backend can reach.
THEOREM SortLawHolds == Spec => []SortLaw
BY SortLawOfPool, TypeCorrect, PTL

-----------------------------------------------------------------------------
(* Refinement: every step of the backend is a step of the Mempool contract *)
(* under pool <- user_operations, codes <- code_hashes_by_user_operation.  *)

LEMMA InitRefines == Init => Abstract!Init
BY DEF Init, Abstract!Init

LEMMA NextRefines ==
  IInv /\ [Next]_vars => [Abstract!Next]_Abstract!vars
<1> SUFFICES ASSUME IInv, [Next]_vars PROVE [Abstract!Next]_Abstract!vars
  OBVIOUS
<1>1. ASSUME NEW h \in Hashes, add(h) PROVE Abstract!Add(h)
  BY <1>1 DEF add, Abstract!Add
<1>2. ASSUME NEW h \in Hashes, remove(h)
      PROVE Abstract!Remove(h) \/ UNCHANGED Abstract!vars
  BY <1>2 DEF remove, RemoveAll, Abstract!Remove, Abstract!vars, IInv, TypeOK
<1>3. ASSUME NEW e \in Addrs, remove_by_entity(e) PROVE Abstract!RemoveByEntity(e)
  <2>1. user_operations_by_entity[e] = NamingEntity(e, user_operations)
    BY DEF IInv, IndexConsistency
  <2>2. NamingEntity(e, user_operations) \subseteq user_operations
    BY DEF NamingEntity
  <2> QED
    BY <1>3, <2>1, <2>2
    DEF remove_by_entity, RemoveAll, Abstract!RemoveByEntity, Abstract!NamingEntity,
        NamingEntity, Abstract!OptionalEntities, OptionalEntities
<1>4. ASSUME NEW h \in Hashes, NEW cs \in CodeHashInputs, set_code_hashes(h, cs)
      PROVE Abstract!SetCodeHashes(h, cs)
  BY <1>4 DEF set_code_hashes, Abstract!SetCodeHashes
<1>5. ASSUME clear PROVE Abstract!Clear
  BY <1>5 DEF clear, Abstract!Clear
<1>6. ASSUME UNCHANGED vars PROVE UNCHANGED Abstract!vars
  BY <1>6 DEF vars, Abstract!vars
<1>. QED
  BY <1>1, <1>2, <1>3, <1>4, <1>5, <1>6, CodeHashInputsAssumption
  DEF Next, Abstract!Next

\* The in-memory backend implements the Mempool contract (AbstractSpec).
THEOREM ImplementsMempool == Spec => AbstractSpec
<1>1. Spec => []IInv
  BY InitIInv, NextIInv, PTL DEF Spec
<1>2. []IInv /\ [][Next]_vars => [][Abstract!Next]_Abstract!vars
  BY NextRefines, PTL
<1>. QED
  BY <1>1, <1>2, InitRefines, PTL DEF Spec, AbstractSpec, Abstract!Spec
=============================================================================
