-------------------------- MODULE DatabaseMempool --------------------------
(***************************************************************************)
(* The MDBX-backed mempool (crates/uopool/src/database/mempool.rs).        *)
(*                                                                         *)
(* Four tables.  UserOperations is keyed uniquely by hash (the set of its  *)
(* keys, the hash determining the operation); UserOperationsBySender,      *)
(* UserOperationsByEntity and CodeHashes are DUPSORT tables, i.e. sets of  *)
(* (key, value) pairs: putting a pair that is already there adds nothing.  *)
(* Each method runs in one transaction that commits at its end or is       *)
(* dropped on the first error, so it is one atomic step; remove_by_entity  *)
(* reads the entity's hashes in one transaction and then calls remove for  *)
(* each, one transaction per remove.                                       *)
(***************************************************************************)
EXTENDS UserOperation

Seqs == INSTANCE SequencesExt

CONSTANTS
  CodeHashInputs,   \* the code-hash lists set_code_hashes is called with
  TxMayFail         \* whether a transaction of remove_by_entity's loop may fail

ASSUME DbConstantsAssumption ==
  /\ CodeHashInputs \subseteq SUBSET CodeHashVals
  /\ TxMayFail \in BOOLEAN

VARIABLES
  UserOperations,          \* keys of the hash -> operation table
  UserOperationsBySender,  \* (sender, hash) pairs
  UserOperationsByEntity,  \* (factory or paymaster, hash) pairs
  CodeHashes,              \* (hash, code hash) pairs
  result                   \* outcome of the last call

vars == <<UserOperations, UserOperationsBySender, UserOperationsByEntity,
          CodeHashes, result>>

Results == {"Ok", "NotFound", "DBError"}

TypeOK ==
  /\ UserOperations \subseteq Hashes
  /\ UserOperationsBySender \subseteq Addrs \X Hashes
  /\ UserOperationsByEntity \subseteq Addrs \X Hashes
  /\ CodeHashes \subseteq Hashes \X CodeHashVals
  /\ result \in Results

Init ==
  /\ UserOperations = {}
  /\ UserOperationsBySender = {}
  /\ UserOperationsByEntity = {}
  /\ CodeHashes = {}
  /\ result = "Ok"

\* The values stored under a key of a DUPSORT table (a cursor walk from
\* seek_by_key_subkey along next_dup).
Dups(table, k) == {p[2] : p \in {q \in table : q[1] = k}}

\* Fault variant of the entity rows: factory and paymaster put without the
\* `if let Some` guards.
EntityRowsUnchecked(hs) ==
  UNION {{<<Uo[h].factory, h>>, <<Uo[h].paymaster, h>>} : h \in hs}

\* The (entity, hash) rows of the operations hs.
EntityRows(hs) == UNION {{<<e, h>> : e \in OptionalEntities(h)} : h \in hs}

\* add: put the operation, (sender, hash), and (factory, hash), (paymaster,
\* hash) when present; commit.
add(h) ==
  /\ UserOperations' = UserOperations \cup {h}
  /\ UserOperationsBySender' = UserOperationsBySender \cup {<<Sender(h), h>>}
  /\ UserOperationsByEntity' =
       UserOperationsByEntity \cup EntityRows({h})
  /\ result' = "Ok"
  /\ UNCHANGED CodeHashes

\* The effect of the remove(h) transactions for every h in hs, each of which
\* found its operation: delete the operation, its (sender, hash) pair, all its
\* code hashes, and its (factory, hash) and (paymaster, hash) pairs.
RemoveAll(hs) ==
  /\ UserOperations' = UserOperations \ hs
  /\ UserOperationsBySender' =
       UserOperationsBySender \ {<<Sender(h), h>> : h \in hs}
  /\ UserOperationsByEntity' =
       UserOperationsByEntity \ EntityRows(hs)
  /\ CodeHashes' = {p \in CodeHashes : p[1] \notin hs}

\* Fault variant of remove: the (paymaster, hash) row is not deleted.
removeKeepPaymaster(h) ==
  \/ /\ h \notin UserOperations
     /\ result' = "NotFound"
     /\ UNCHANGED <<UserOperations, UserOperationsBySender,
                    UserOperationsByEntity, CodeHashes>>
  \/ /\ h \in UserOperations
     /\ UserOperations' = UserOperations \ {h}
     /\ UserOperationsBySender' = UserOperationsBySender \ {<<Sender(h), h>>}
     /\ UserOperationsByEntity' =
          UserOperationsByEntity \ {<<Uo[h].factory, h>>}
     /\ CodeHashes' = {p \in CodeHashes : p[1] # h}
     /\ result' = "Ok"

\* remove: NotFound when the hash is not in UserOperations (the transaction
\* is dropped), otherwise delete its rows and commit.
remove(h) ==
  \/ /\ h \notin UserOperations
     /\ result' = "NotFound"
     /\ UNCHANGED <<UserOperations, UserOperationsBySender,
                    UserOperationsByEntity, CodeHashes>>
  \/ /\ h \in UserOperations
     /\ RemoveAll({h})
     /\ result' = "Ok"

\* remove_by_entity: collect the entity's hashes, commit, then remove(h)?
\* each in cursor order.  Every remove finds its operation (the entity table
\* only names stored operations, see IndexConsistency); when a transaction of
\* the loop fails, the error is returned after the removes that committed.
remove_by_entity(e) ==
  LET hs == Dups(UserOperationsByEntity, e) IN
  \/ /\ RemoveAll(hs)
     /\ result' = "Ok"
  \/ /\ TxMayFail
     /\ \E done \in SUBSET hs :
          /\ done # hs
          /\ RemoveAll(done)
     /\ result' = "DBError"

\* set_code_hashes: delete every value under the hash if there is one, put
\* each code hash of the list, commit.  An empty list leaves no row.
set_code_hashes(h, cs) ==
  /\ CodeHashes' = {p \in CodeHashes : p[1] # h} \cup {<<h, c>> : c \in cs}
  /\ result' = "Ok"
  /\ UNCHANGED <<UserOperations, UserOperationsBySender, UserOperationsByEntity>>

\* clear: clear UserOperations, UserOperationsBySender and
\* UserOperationsByEntity, commit.  CodeHashes is not cleared.
clear ==
  /\ UserOperations' = {}
  /\ UserOperationsBySender' = {}
  /\ UserOperationsByEntity' = {}
  /\ result' = "Ok"
  /\ UNCHANGED CodeHashes

Next ==
  \/ \E h \in Hashes : add(h) \/ remove(h)
  \/ \E e \in Addrs : remove_by_entity(e)
  \/ \E h \in Hashes, cs \in CodeHashInputs : set_code_hashes(h, cs)
  \/ clear

Spec == Init /\ [][Next]_vars

-----------------------------------------------------------------------------
\* has_code_hashes / get_code_hashes: whether a row is stored under the hash.
has_code_hashes(h) == Dups(CodeHashes, h) # {}

\* Fault variant of get_number_by_sender: the cursor walks the entity table.
get_number_by_sender_entity_index(a) == Cardinality(Dups(UserOperationsByEntity, a))

\* get_number_by_sender / get_number_by_entity: seek the first duplicate of
\* the key and count the rows next_dup walks.
get_number_by_sender(a) == Cardinality(Dups(UserOperationsBySender, a))
get_number_by_entity(a) == Cardinality(Dups(UserOperationsByEntity, a))

\* get_all_by_sender: collect the hashes under the sender, then look each
\* one up in UserOperations, dropping (filter_map) those with no row.
get_all_by_sender(a) == {h \in Dups(UserOperationsBySender, a) : h \in UserOperations}

\* Fault variant of the comparator: nonces compared in the reverse order.
SortCompareNonceDesc(a, b) ==
  IF Uo[a].tip # Uo[b].tip THEN Cmp(Uo[b].tip, Uo[a].tip)
  ELSE Cmp(Uo[b].nonce, Uo[a].nonce)

\* The comparator of get_sorted: max_priority_fee_per_gas descending (b
\* compared with a), then nonce ascending.
SortCompare(a, b) ==
  IF Uo[a].tip # Uo[b].tip THEN Cmp(Uo[b].tip, Uo[a].tip)
  ELSE Cmp(Uo[a].nonce, Uo[b].nonce)

\* get_sorted: walk the UserOperations table in a read transaction (key
\* order, that is the byte order of the hashes, which says nothing of tips
\* or nonces) and sort_by the comparator, a stable sort.  The result is an
\* arrangement of the pool in which no operation compares Greater than one
\* after it; every such arrangement is the result of some key order.
get_sorted ==
  {s \in Seqs!SetToSeqs(UserOperations) :
     \A i, j \in DOMAIN s : i < j => SortCompare(s[i], s[j]) # "Greater"}

(***************************************************************************)
(* IndexConsistency (spec 8.2) for the tables: a stored operation has its  *)
(* (sender, hash) row and a (entity, hash) row for its factory and its     *)
(* paymaster, and every index row names a stored operation that names     *)
(* that address.  It is what makes get_number_by_sender/_by_entity (which  *)
(* count rows) count operations, and what keeps every remove of           *)
(* remove_by_entity's loop from returning NotFound.                        *)
(***************************************************************************)
IndexConsistency ==
  /\ UserOperationsBySender = {<<Sender(h), h>> : h \in UserOperations}
  /\ UserOperationsByEntity = EntityRows(UserOperations)

(***************************************************************************)
(* The database backend implements the Mempool contract that the memory    *)
(* backend implements: UserOperations is the pool and the code hashes of a *)
(* hash are its CodeHashes rows (NONE when it has none).                   *)
(***************************************************************************)
Abstract == INSTANCE Mempool WITH
  pool <- UserOperations,
  codes <- [h \in Hashes |-> IF has_code_hashes(h) THEN Dups(CodeHashes, h) ELSE NONE]
AbstractSpec == Abstract!Spec

(***************************************************************************)
(* SenderCountMatchesList: the count verify_sender tests and the list it   *)
(* then indexes with [0] (sanity_check.rs, lines 238 and 274) agree in     *)
(* every state: a sender counted as having an operation has one to list.  *)
(* It fails if the count reads another table than the list, or if a        *)
(* table keeps a row whose operation is gone.                              *)
(***************************************************************************)
SenderCountMatchesList ==
  \A a \in Addrs : get_number_by_sender(a) = Cardinality(get_all_by_sender(a))

(***************************************************************************)
(* SortLaw (spec 8.3): get_sorted always returns, and whatever order the   *)
(* store hands the operations to sort_by in, the bundler receives them     *)
(* highest tip first and, among equal tips, lowest nonce first.  It fails  *)
(* if the comparator compares a field the wrong way round (the tip is      *)
(* compared b-to-a, the nonce a-to-b) or is not a total order.             *)
(***************************************************************************)
SortLaw ==
  /\ get_sorted # {}
  /\ \A s \in get_sorted : Abstract!SortedAsSpecified(s)
=============================================================================
