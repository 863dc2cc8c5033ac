-------------------------- MODULE SortOrderProofs ---------------------------
(***************************************************************************)
(* The order get_sorted promises (spec 8.3), on any finite set of stored   *)
(* operations: every such set can be arranged so that, taken pairwise, a   *)
(* higher tip comes first and, among equal tips, a lower nonce.  Both      *)
(* backends' proofs of SortLaw rest on this: it is what makes the stable   *)
(* sort of the code always have a result with the promised order.          *)
(*                                                                         *)
(* The arrangement is built without induction: operations are ranked in a  *)
(* strict total order that refines the spec's order (ties in tip and nonce *)
(* broken by a position in an enumeration of the set), and the operation  *)
(* of rank i is put at position i.                                         *)
(***************************************************************************)
EXTENDS UserOperation, FiniteSetTheorems, TLAPS

\* Two operations in the order of spec 8.3.
InOrder(a, b) ==
  \/ Uo[a].tip > Uo[b].tip
  \/ Uo[a].tip = Uo[b].tip /\ Uo[a].nonce <= Uo[b].nonce

\* The sequences holding every element of P exactly once.
Arrangements(P) ==
  {s \in [1..Cardinality(P) -> P] :
     \A i, j \in 1..Cardinality(P) : i # j => s[i] # s[j]}

\* The rank construction behind SortedArrangementExists, for a finite set P
\* of operations and a numbering b of it: TieBreak is the position of h in
\* b, Strictly the spec's order without ties, Before its refinement by
\* TieBreak into a strict total order, and RankIn the position h gets.
TieBreak(P, b, h) == CHOOSE i \in 1..Cardinality(P) : b[i] = h

Strictly(g, h) ==
  \/ Uo[g].tip > Uo[h].tip
  \/ Uo[g].tip = Uo[h].tip /\ Uo[g].nonce < Uo[h].nonce

Before(P, b, g, h) ==
  \/ Strictly(g, h)
  \/ /\ Uo[g].tip = Uo[h].tip /\ Uo[g].nonce = Uo[h].nonce
     /\ TieBreak(P, b, g) < TieBreak(P, b, h)

PredIn(P, b, h) == {g \in P : Before(P, b, g, h)}

RankIn(P, b, h) == Cardinality(PredIn(P, b, h)) + 1

LEMMA OrderFields ==
  ASSUME NEW h \in Hashes
  PROVE  Uo[h].tip \in Nat /\ Uo[h].nonce \in Nat
BY UoAssumption DEF UoRecords

\* Every finite set of operations has an arrangement in the order of spec
\* 8.3.
LEMMA SortedArrangementExists ==
  ASSUME NEW P \in SUBSET Hashes, IsFiniteSet(P)
  PROVE  \E s \in Arrangements(P) :
           \A i, j \in 1..Cardinality(P) : i < j => InOrder(s[i], s[j])
<1>1. Cardinality(P) \in Nat /\ ExistsBijection(1..Cardinality(P), P)
  BY FS_CardinalityType
<1>2. PICK b \in Bijection(1..Cardinality(P), P) : TRUE
  BY <1>1 DEF ExistsBijection
<1>3. \A h \in P : TieBreak(P, b, h) \in 1..Cardinality(P) /\ b[TieBreak(P, b, h)] = h
  BY <1>2 DEF Bijection, Surjection, TieBreak
<1>4. \A g, h \in P : TieBreak(P, b, g) = TieBreak(P, b, h) => g = h
  BY <1>3
<1>5. \A h \in P : Uo[h].tip \in Nat /\ Uo[h].nonce \in Nat /\ TieBreak(P, b, h) \in Nat
  BY <1>1, <1>3, OrderFields
<1>6. \A h \in P : ~Before(P, b, h, h)
  BY <1>5 DEF Before, Strictly
<1>7. \A f, g, h \in P : Before(P, b, f, g) /\ Before(P, b, g, h) => Before(P, b, f, h)
  BY <1>5 DEF Before, Strictly
<1>8. \A g, h \in P : g # h => Before(P, b, g, h) \/ Before(P, b, h, g)
  BY <1>4, <1>5 DEF Before, Strictly
<1>9. ASSUME NEW h \in P
      PROVE  /\ IsFiniteSet(PredIn(P, b, h))
             /\ Cardinality(PredIn(P, b, h)) \in Nat
             /\ Cardinality(PredIn(P, b, h)) <= Cardinality(P) - 1
  <2>1. PredIn(P, b, h) \subseteq P \ {h}
    BY <1>6 DEF PredIn
  <2>2. IsFiniteSet(P \ {h}) /\ Cardinality(P \ {h}) = Cardinality(P) - 1
    BY FS_RemoveElement
  <2>3. IsFiniteSet(PredIn(P, b, h)) /\ Cardinality(PredIn(P, b, h)) <= Cardinality(P \ {h})
    BY <2>1, <2>2, FS_Subset
  <2> QED
    BY <2>2, <2>3, FS_CardinalityType
<1>10. ASSUME NEW g \in P, NEW h \in P, Before(P, b, g, h)
       PROVE  RankIn(P, b, g) < RankIn(P, b, h)
  <2>1. PredIn(P, b, g) \subseteq PredIn(P, b, h)
    BY <1>7, <1>10 DEF PredIn
  <2>2. g \in PredIn(P, b, h) /\ g \notin PredIn(P, b, g)
    BY <1>6, <1>10 DEF PredIn
  <2>3. /\ Cardinality(PredIn(P, b, g)) <= Cardinality(PredIn(P, b, h))
        /\ Cardinality(PredIn(P, b, h)) = Cardinality(PredIn(P, b, g))
             => PredIn(P, b, h) = PredIn(P, b, g)
    BY <2>1, <1>9, FS_Subset
  <2>4. Cardinality(PredIn(P, b, g)) \in Nat /\ Cardinality(PredIn(P, b, h)) \in Nat
    BY <1>9
  <2> QED
    BY <2>2, <2>3, <2>4 DEF RankIn
<1>11. \A h \in P : RankIn(P, b, h) \in 1..Cardinality(P)
  BY <1>1, <1>9 DEF RankIn
<1>12. [h \in P |-> RankIn(P, b, h)] \in Injection(P, 1..Cardinality(P))
  <2>1. ASSUME NEW g \in P, NEW h \in P, RankIn(P, b, g) = RankIn(P, b, h) PROVE g = h
    BY <2>1, <1>8, <1>10, <1>11
  <2> QED
    BY <2>1, <1>11 DEF Injection, IsInjective
<1>13. [h \in P |-> RankIn(P, b, h)] \in Surjection(P, 1..Cardinality(P))
  <2>1. IsFiniteSet(1..Cardinality(P)) /\ Cardinality(1..Cardinality(P)) = Cardinality(P)
    BY <1>1, FS_Interval
  <2> QED
    BY <1>12, <2>1, FS_Injection
<1>14. \A i \in 1..Cardinality(P) : \E h \in P : RankIn(P, b, h) = i
  BY <1>13 DEF Surjection
<1> DEFINE s == [i \in 1..Cardinality(P) |-> CHOOSE h \in P : RankIn(P, b, h) = i]
<1>15. \A i \in 1..Cardinality(P) : s[i] \in P /\ RankIn(P, b, s[i]) = i
  BY <1>14
<1>16. s \in Arrangements(P)
  <2>1. s \in [1..Cardinality(P) -> P]
    BY <1>15
  <2>2. ASSUME NEW i \in 1..Cardinality(P), NEW j \in 1..Cardinality(P), i # j
        PROVE  s[i] # s[j]
    BY <1>15, <2>2
  <2> QED
    BY <2>1, <2>2 DEF Arrangements
<1>17. ASSUME NEW i \in 1..Cardinality(P), NEW j \in 1..Cardinality(P), i < j
       PROVE  InOrder(s[i], s[j])
  <2>1. /\ s[i] \in P /\ s[j] \in P
        /\ RankIn(P, b, s[i]) = i /\ RankIn(P, b, s[j]) = j
    BY <1>15
  <2>2. /\ Uo[s[i]].tip \in Nat /\ Uo[s[i]].nonce \in Nat
        /\ Uo[s[j]].tip \in Nat /\ Uo[s[j]].nonce \in Nat
    BY <2>1, <1>5
  <2>3. ~InOrder(s[i], s[j]) => Before(P, b, s[j], s[i])
    BY <2>2 DEF InOrder, Before, Strictly
  <2>4. Before(P, b, s[j], s[i]) => j < i
    BY <2>1, <1>10
  <2> QED
    BY <2>3, <2>4, <1>17
<1> QED
  BY <1>16, <1>17
=============================================================================
