----------------------- MODULE DatabaseMempoolProofs -----------------------
(***************************************************************************)
(* Proofs about the MDBX mempool backend, for every set of hashes,         *)
(* addresses, operations and code-hash lists: the type invariant and the   *)
(* consistency of the two DUPSORT index tables with UserOperations, under  *)
(* failing transactions of remove_by_entity's loop included.               *)
(***************************************************************************)
EXTENDS DatabaseMempool, SortOrderProofs, TLAPS

\* The record fields the index rows are built from, for every hash.
LEMMA UoFields ==
  ASSUME NEW h \in Hashes
  PROVE  /\ Sender(h) \in Addrs
         /\ OptionalEntities(h) \subseteq Addrs
BY UoAssumption DEF Sender, OptionalEntities, UoRecords

\* The entity rows of operations are (address, hash) pairs.
LEMMA EntityRowsType ==
  ASSUME NEW hs \in SUBSET Hashes
  PROVE  EntityRows(hs) \subseteq Addrs \X Hashes
BY UoFields DEF EntityRows

-----------------------------------------------------------------------------
(* Type correctness. *)

LEMMA InitTypeOK == Init => TypeOK
BY DEF Init, TypeOK, Results

\* The effect of remove's transactions on any set of hashes keeps the types.
LEMMA RemoveAllType ==
  ASSUME TypeOK, NEW hs \in SUBSET Hashes, RemoveAll(hs), result' \in Results
  PROVE  TypeOK'
BY DEF RemoveAll, TypeOK

LEMMA NextTypeOK == TypeOK /\ [Next]_vars => TypeOK'
<1> SUFFICES ASSUME TypeOK, [Next]_vars PROVE TypeOK'
  OBVIOUS
<1>1. ASSUME NEW h \in Hashes, add(h) PROVE TypeOK'
  BY <1>1, UoFields, EntityRowsType DEF add, TypeOK, Results
<1>2. ASSUME NEW h \in Hashes, remove(h) PROVE TypeOK'
  BY <1>2, RemoveAllType DEF remove, TypeOK, Results
<1>3. ASSUME NEW e \in Addrs, remove_by_entity(e) PROVE TypeOK'
  <2>1. Dups(UserOperationsByEntity, e) \subseteq Hashes
    BY DEF Dups, TypeOK
  <2> QED
    BY <1>3, <2>1, RemoveAllType DEF remove_by_entity, Results
<1>4. ASSUME NEW h \in Hashes, NEW cs \in CodeHashInputs, set_code_hashes(h, cs)
      PROVE TypeOK'
  BY <1>4, DbConstantsAssumption DEF set_code_hashes, TypeOK, Results
<1>5. ASSUME clear PROVE TypeOK'
  BY <1>5 DEF clear, TypeOK, Results
<1>6. ASSUME UNCHANGED vars PROVE TypeOK'
  BY <1>6 DEF vars, TypeOK
<1> QED
  BY <1>1, <1>2, <1>3, <1>4, <1>5, <1>6 DEF Next

\* Every table of the database backend only holds rows of its type: in
\* particular add puts no (NONE, hash) row for a missing factory or paymaster.
THEOREM TypeCorrect == Spec => []TypeOK
BY InitTypeOK, NextTypeOK, PTL DEF Spec

-----------------------------------------------------------------------------
(* Index consistency.  With the type invariant it is inductive as it is.  *)

IInv == TypeOK /\ IndexConsistency

LEMMA InitIInv == Init => IInv
BY InitTypeOK DEF Init, IInv, IndexConsistency, EntityRows

\* A row of an index table names the hash it is stored with, so deleting
\* the rows of hs leaves exactly the rows of the other operations.
LEMMA SenderRowsMinus ==
  ASSUME NEW S, NEW hs
  PROVE  {<<Sender(g), g>> : g \in S} \ {<<Sender(h), h>> : h \in hs}
           = {<<Sender(g), g>> : g \in S \ hs}
<1>1. {<<Sender(g), g>> : g \in S} \ {<<Sender(h), h>> : h \in hs}
        \subseteq {<<Sender(g), g>> : g \in S \ hs}
  BY Zenon
<1>2. {<<Sender(g), g>> : g \in S \ hs}
        \subseteq {<<Sender(g), g>> : g \in S} \ {<<Sender(h), h>> : h \in hs}
  <2> SUFFICES ASSUME NEW g \in S \ hs
               PROVE  <<Sender(g), g>> \notin {<<Sender(h), h>> : h \in hs}
    BY Zenon
  <2>1. \A h \in hs : <<Sender(g), g>> # <<Sender(h), h>>
    OBVIOUS
  <2> QED
    BY <2>1, Zenon
<1> QED
  BY <1>1, <1>2

LEMMA EntityRowsMinus ==
  ASSUME NEW S, NEW hs
  PROVE  EntityRows(S) \ EntityRows(hs) = EntityRows(S \ hs)
BY DEF EntityRows

LEMMA EntityRowsPlus ==
  ASSUME NEW S, NEW h
  PROVE  EntityRows(S) \cup EntityRows({h}) = EntityRows(S \cup {h})
BY DEF EntityRows

\* The step shared by remove and remove_by_entity.
LEMMA RemoveAllConsistent ==
  ASSUME IndexConsistency, NEW hs, RemoveAll(hs)
  PROVE  IndexConsistency'
<1>1. UserOperationsBySender' = {<<Sender(g), g>> : g \in UserOperations'}
  <2>1. UserOperationsBySender' =
          {<<Sender(g), g>> : g \in UserOperations} \ {<<Sender(h), h>> : h \in hs}
    BY DEF RemoveAll, IndexConsistency
  <2>2. UserOperations' = UserOperations \ hs
    BY DEF RemoveAll
  <2> QED
    BY <2>1, <2>2, SenderRowsMinus
<1>2. UserOperationsByEntity' = EntityRows(UserOperations')
  <2>1. UserOperationsByEntity' = EntityRows(UserOperations) \ EntityRows(hs)
    BY DEF RemoveAll, IndexConsistency
  <2>2. UserOperations' = UserOperations \ hs
    BY DEF RemoveAll
  <2> QED
    BY <2>1, <2>2, EntityRowsMinus
<1> QED
  BY <1>1, <1>2 DEF IndexConsistency

LEMMA NextIInv == IInv /\ [Next]_vars => IInv'
<1> SUFFICES ASSUME IInv, [Next]_vars PROVE IInv'
  OBVIOUS
<1>0. TypeOK'
  BY NextTypeOK DEF IInv
<1>1. ASSUME NEW h \in Hashes, add(h) PROVE IndexConsistency'
  BY <1>1, EntityRowsPlus DEF add, IInv, IndexConsistency
<1>2. ASSUME NEW h \in Hashes, remove(h) PROVE IndexConsistency'
  <2>1. CASE UNCHANGED <<UserOperations, UserOperationsBySender, UserOperationsByEntity>>
    BY <2>1 DEF IInv, IndexConsistency
  <2>2. CASE RemoveAll({h})
    BY <2>2, RemoveAllConsistent DEF IInv
  <2> QED
    BY <1>2, <2>1, <2>2 DEF remove
<1>3. ASSUME NEW e \in Addrs, remove_by_entity(e) PROVE IndexConsistency'
  <2>1. CASE RemoveAll(Dups(UserOperationsByEntity, e))
    BY <2>1, RemoveAllConsistent DEF IInv
  <2>2. CASE \E done \in SUBSET Dups(UserOperationsByEntity, e) : RemoveAll(done)
    BY <2>2, RemoveAllConsistent DEF IInv
  <2> QED
    BY <1>3, <2>1, <2>2 DEF remove_by_entity
<1>4. ASSUME NEW h \in Hashes, NEW cs \in CodeHashInputs, set_code_hashes(h, cs)
      PROVE IndexConsistency'
  BY <1>4 DEF set_code_hashes, IInv, IndexConsistency
<1>5. ASSUME clear PROVE IndexConsistency'
  BY <1>5 DEF clear, IndexConsistency, EntityRows
<1>6. ASSUME UNCHANGED vars PROVE IndexConsistency'
  BY <1>6 DEF vars, IInv, IndexConsistency
<1> QED
  BY <1>0, <1>1, <1>2, <1>3, <1>4, <1>5, <1>6 DEF Next, IInv

\* The sender and entity tables hold exactly one row per (address, stored
\* operation naming it): add's puts, remove's deletes, and the removes of
\* remove_by_entity that commit before a failing one all keep it so.
THEOREM IndicesConsistent == Spec => []IndexConsistency
<1>1. IInv => IndexConsistency
  BY DEF IInv
<1> QED
  BY <1>1, InitIInv, NextIInv, PTL DEF Spec

\* The count verify_sender tests and the list it indexes agree in every
\* reachable state: the listing keeps every hash the sender index holds.
THEOREM SenderCountsAgree == Spec => []SenderCountMatchesList
<1>1. ASSUME IndexConsistency, NEW a \in Addrs
      PROVE  get_all_by_sender(a) = Dups(UserOperationsBySender, a)
  BY <1>1 DEF IndexConsistency, get_all_by_sender, Dups, SentBy
<1>2. IndexConsistency => SenderCountMatchesList
  BY <1>1 DEF SenderCountMatchesList, get_number_by_sender
<1> QED
  BY <1>2, IndicesConsistent, PTL

-----------------------------------------------------------------------------
(* The order of get_sorted. *)

\* The comparator of get_sorted says "not Greater" exactly for the pairs
\* in the order of spec 8.3.
LEMMA CompareInOrder ==
  ASSUME NEW a \in Hashes, NEW b \in Hashes
  PROVE  SortCompare(a, b) # "Greater" <=> InOrder(a, b)
BY OrderFields DEF SortCompare, Cmp, InOrder

\* SequencesExt counts with the Cardinality of FiniteSets.
LEMMA SeqsCardinality ==
  ASSUME NEW S
  PROVE  Seqs!Cardinality(S) = Cardinality(S)
BY DEF Seqs!Cardinality, Cardinality

\* In every state whose pool is a set of hashes, get_sorted has a result,
\* and each of its results lists the pool by tip descending, then nonce
\* ascending.
LEMMA SortLawOfPool == TypeOK => SortLaw
<1> SUFFICES ASSUME TypeOK PROVE SortLaw
  OBVIOUS
<1>1. IsFiniteSet(UserOperations)
  BY HashesAssumption, FS_Subset DEF TypeOK
<1>2. PICK s \in Arrangements(UserOperations) :
        \A i, j \in 1..Cardinality(UserOperations) : i < j => InOrder(s[i], s[j])
  BY <1>1, SortedArrangementExists DEF TypeOK
<1>3. s \in get_sorted
  <2>1. s \in Seqs!SetToSeqs(UserOperations) /\ DOMAIN s = 1..Cardinality(UserOperations)
    BY <1>2, SeqsCardinality DEF Arrangements, Seqs!SetToSeqs
  <2>2. ASSUME NEW i \in DOMAIN s, NEW j \in DOMAIN s, i < j
        PROVE  SortCompare(s[i], s[j]) # "Greater"
    <3>1. s[i] \in Hashes /\ s[j] \in Hashes
      BY <2>1 DEF Arrangements, TypeOK
    <3> QED
      BY <1>2, <2>1, <2>2, <3>1, CompareInOrder
  <2> QED
    BY <2>1, <2>2 DEF get_sorted
<1>4. ASSUME NEW t \in get_sorted PROVE Abstract!SortedAsSpecified(t)
  <2>1. /\ t \in [1..Cardinality(UserOperations) -> UserOperations]
        /\ \A i, j \in DOMAIN t : i < j => SortCompare(t[i], t[j]) # "Greater"
    BY SeqsCardinality DEF get_sorted, Seqs!SetToSeqs
  <2>2. ASSUME NEW i \in DOMAIN t, NEW j \in DOMAIN t, i < j
        PROVE  InOrder(t[i], t[j])
    <3>1. t[i] \in Hashes /\ t[j] \in Hashes
      BY <2>1 DEF TypeOK
    <3> QED
      BY <2>1, <2>2, <3>1, CompareInOrder
  <2> QED
    BY <2>2 DEF Abstract!SortedAsSpecified, InOrder
<1> QED
  BY <1>3, <1>4 DEF SortLaw

\* get_sorted always yields the pool in the order spec 8.3 promises (tip
\* descending, nonce ascending), for every pool the backend can reach.
THEOREM SortLawHolds == Spec => []SortLaw
BY SortLawOfPool, TypeCorrect, PTL
=============================================================================
