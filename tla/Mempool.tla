------------------------------ MODULE Mempool ------------------------------
(***************************************************************************)
(* What a mempool store promises: the contract of the Mempool trait that   *)
(* the in-memory and the database backends both implement (spec 4.1).      *)
(* The store is a set of operations keyed by hash, plus the list of        *)
(* CodeHash values recorded for a hash (abstracted to a set; absent is     *)
(* NONE, so has_code_hashes is codes[h] # NONE).                           *)
(***************************************************************************)
EXTENDS UserOperation

VARIABLES
  pool,    \* hashes of the operations in the store
  codes    \* codes[h]: the code hashes recorded for h, or NONE

vars == <<pool, codes>>

TypeOK ==
  /\ pool \subseteq Hashes
  /\ codes \in [Hashes -> (SUBSET CodeHashVals) \cup {NONE}]

Init ==
  /\ pool = {}
  /\ codes = [h \in Hashes |-> NONE]

\* add: the operation is stored; its recorded code hashes are left as they are.
Add(h) ==
  /\ pool' = pool \cup {h}
  /\ UNCHANGED codes

\* remove: the operation and its code hashes are gone (NotFound leaves all alone).
Remove(h) ==
  /\ h \in pool
  /\ pool' = pool \ {h}
  /\ codes' = [codes EXCEPT ![h] = NONE]

\* remove_by_entity: every operation naming the entity as factory or paymaster goes.
RemoveByEntity(e) ==
  LET gone == NamingEntity(e, pool) IN
  /\ pool' = pool \ gone
  /\ codes' = [h \in Hashes |-> IF h \in gone THEN NONE ELSE codes[h]]

SetCodeHashes(h, cs) ==
  /\ codes' = [codes EXCEPT ![h] = cs]
  /\ UNCHANGED pool

\* clear: nothing is left, neither operations nor code hashes.
Clear ==
  /\ pool' = {}
  /\ codes' = [h \in Hashes |-> NONE]

Next ==
  \/ \E h \in Hashes : Add(h) \/ Remove(h)
  \/ \E e \in Addrs : RemoveByEntity(e)
  \/ \E h \in Hashes, cs \in SUBSET CodeHashVals : SetCodeHashes(h, cs)
  \/ Clear

Spec == Init /\ [][Next]_vars

\* The order get_sorted promises (spec 4.1 and 8.3): a higher tip first, and
\* on equal tips the lower nonce first.
SortedAsSpecified(s) ==
  \A i, j \in DOMAIN s :
    i < j => \/ Uo[s[i]].tip > Uo[s[j]].tip
             \/ Uo[s[i]].tip = Uo[s[j]].tip /\ Uo[s[i]].nonce <= Uo[s[j]].nonce
=============================================================================
