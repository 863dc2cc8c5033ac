--------------------------- MODULE MemoryMempool ---------------------------
(***************************************************************************)
(* The in-memory mempool backend (crates/uopool/src/memory/mempool.rs).    *)
(*                                                                         *)
(* Four HashMaps: user_operations (hash -> operation, kept here as the set *)
(* of its keys since the hash determines the operation), the sender and    *)
(* the entity indices (address -> set of hashes; a key whose set becomes   *)
(* empty is deleted by remove, which no reader can tell from an empty set, *)
(* so an index is a total function to sets), and the code hashes by hash  *)
(* (a Vec, kept as a set; a missing key is NONE).  Each trait method takes *)
(* &mut self, so under the pool's write lock it is one atomic step.        *)
(***************************************************************************)
EXTENDS UserOperation

Seqs == INSTANCE SequencesExt

CONSTANT CodeHashInputs   \* the code-hash lists set_code_hashes is called with

ASSUME CodeHashInputsAssumption == CodeHashInputs \subseteq SUBSET CodeHashVals

VARIABLES
  user_operations,                \* keys of the hash -> operation map
  user_operations_by_sender,      \* sender -> hashes
  user_operations_by_entity,      \* factory or paymaster -> hashes
  code_hashes_by_user_operation,  \* hash -> code hashes, or NONE
  result                          \* outcome of the last call

vars == <<user_operations, user_operations_by_sender, user_operations_by_entity,
          code_hashes_by_user_operation, result>>

Results == {"Ok", "NotFound"}

TypeOK ==
  /\ user_operations \subseteq Hashes
  /\ user_operations_by_sender \in [Addrs -> SUBSET Hashes]
  /\ user_operations_by_entity \in [Addrs -> SUBSET Hashes]
  /\ code_hashes_by_user_operation \in [Hashes -> (SUBSET CodeHashVals) \cup {NONE}]
  /\ result \in Results

Init ==
  /\ user_operations = {}
  /\ user_operations_by_sender = [a \in Addrs |-> {}]
  /\ user_operations_by_entity = [a \in Addrs |-> {}]
  /\ code_hashes_by_user_operation = [h \in Hashes |-> NONE]
  /\ result = "Ok"

\* add: insert the hash under the sender, under the factory and paymaster if
\* present, and the operation under its hash.  Code hashes are not touched.
add(h) ==
  /\ user_operations' = user_operations \cup {h}
  /\ user_operations_by_sender' =
       [user_operations_by_sender EXCEPT ![Sender(h)] = @ \cup {h}]
  /\ user_operations_by_entity' =
       [a \in Addrs |-> IF a \in OptionalEntities(h)
                          THEN user_operations_by_entity[a] \cup {h}
                          ELSE user_operations_by_entity[a]]
  /\ result' = "Ok"
  /\ UNCHANGED code_hashes_by_user_operation

\* The state after the remove(h) calls for every h in hs, each of which found
\* its operation: h leaves the map, the index entries of its own sender,
\* factory and paymaster (and no other), and the code hashes.
RemoveAll(hs) ==
  /\ user_operations' = user_operations \ hs
  /\ user_operations_by_sender' =
       [a \in Addrs |-> user_operations_by_sender[a] \ SentBy(a, hs)]
  /\ user_operations_by_entity' =
       [a \in Addrs |-> user_operations_by_entity[a] \ NamingEntity(a, hs)]
  /\ code_hashes_by_user_operation' =
       [h \in Hashes |-> IF h \in hs THEN NONE ELSE code_hashes_by_user_operation[h]]

\* Fault variant of remove: the paymaster's index entry is left behind.
removeKeepPaymaster(h) ==
  \/ /\ h \notin user_operations
     /\ result' = "NotFound"
     /\ UNCHANGED <<user_operations, user_operations_by_sender,
                    user_operations_by_entity, code_hashes_by_user_operation>>
  \/ /\ h \in user_operations
     /\ user_operations' = user_operations \ {h}
     /\ user_operations_by_sender' =
          [user_operations_by_sender EXCEPT ![Sender(h)] = @ \ {h}]
     /\ user_operations_by_entity' =
          [a \in Addrs |-> IF a = Uo[h].factory
                             THEN user_operations_by_entity[a] \ {h}
                             ELSE user_operations_by_entity[a]]
     /\ code_hashes_by_user_operation' = [code_hashes_by_user_operation EXCEPT ![h] = NONE]
     /\ result' = "Ok"

\* remove: "User operation not found" when the hash is not a key; otherwise
\* the hash is dropped from the map, the three indices it is in, and the
\* code-hash map.
remove(h) ==
  \/ /\ h \notin user_operations
     /\ result' = "NotFound"
     /\ UNCHANGED <<user_operations, user_operations_by_sender,
                    user_operations_by_entity, code_hashes_by_user_operation>>
  \/ /\ h \in user_operations
     /\ RemoveAll({h})
     /\ result' = "Ok"

\* remove_by_entity: clone the entity's hash set, then remove(h)? each.  The
\* early return of `?` would need a hash of the entity index that is not in
\* the map, which IndexConsistency (proved in MemoryMempoolProofs) excludes;
\* so every remove finds its operation and the call returns Ok.
remove_by_entity(e) ==
  /\ RemoveAll(user_operations_by_entity[e])
  /\ result' = "Ok"

\* set_code_hashes: insert (replace) the list under the hash, whether or not
\* the hash is in the pool.
set_code_hashes(h, cs) ==
  /\ code_hashes_by_user_operation' = [code_hashes_by_user_operation EXCEPT ![h] = cs]
  /\ result' = "Ok"
  /\ UNCHANGED <<user_operations, user_operations_by_sender, user_operations_by_entity>>

\* Fault variant of clear: the code-hash map is not emptied.
clearKeepCodeHashes ==
  /\ user_operations' = {}
  /\ user_operations_by_sender' = [a \in Addrs |-> {}]
  /\ user_operations_by_entity' = [a \in Addrs |-> {}]
  /\ result' = "Ok"
  /\ UNCHANGED code_hashes_by_user_operation

\* clear: all four maps are emptied.
clear ==
  /\ user_operations' = {}
  /\ user_operations_by_sender' = [a \in Addrs |-> {}]
  /\ user_operations_by_entity' = [a \in Addrs |-> {}]
  /\ code_hashes_by_user_operation' = [h \in Hashes |-> NONE]
  /\ result' = "Ok"

Next ==
  \/ \E h \in Hashes : add(h) \/ remove(h)
  \/ \E e \in Addrs : remove_by_entity(e)
  \/ \E h \in Hashes, cs \in CodeHashInputs : set_code_hashes(h, cs)
  \/ clear

Spec == Init /\ [][Next]_vars

-----------------------------------------------------------------------------
(* Observers used by the validation checks (entities.rs, sanity_check.rs). *)

\* Fault variant of get_number_by_sender: the entity index is counted.
get_number_by_sender_entity_index(a) == Cardinality(user_operations_by_entity[a])

get_number_by_sender(a) == Cardinality(user_operations_by_sender[a])

\* get_all_by_sender: the operations the sender index lists, skipping (by
\* filter_map) a hash that is not a key of the map; a Vec without repeats,
\* kept as a set.
get_all_by_sender(a) == {h \in user_operations_by_sender[a] : h \in user_operations}
get_number_by_entity(a) == Cardinality(user_operations_by_entity[a])

\* Fault variant of the comparator: nonces compared in the reverse order.
SortCompareNonceDesc(a, b) ==
  IF Uo[a].tip # Uo[b].tip THEN Cmp(Uo[b].tip, Uo[a].tip)
  ELSE Cmp(Uo[b].nonce, Uo[a].nonce)

\* The comparator of get_sorted: max_priority_fee_per_gas descending (b
\* compared with a), then nonce ascending.
SortCompare(a, b) ==
  IF Uo[a].tip # Uo[b].tip THEN Cmp(Uo[b].tip, Uo[a].tip)
  ELSE Cmp(Uo[a].nonce, Uo[b].nonce)

\* get_sorted: collect the values of the map, in its (arbitrary) iteration
\* order, and sort_by the comparator, a stable sort.  Whatever the input
\* order, the result is an arrangement of the pool in which no operation
\* compares Greater than one after it, and every such arrangement is the
\* result of some input order.
get_sorted ==
  {s \in Seqs!SetToSeqs(user_operations) :
     \A i, j \in DOMAIN s : i < j => SortCompare(s[i], s[j]) # "Greater"}

-----------------------------------------------------------------------------
(***************************************************************************)
(* IndexConsistency (spec 3 and 8.2): every stored operation is listed     *)
(* under its sender and under its factory and paymaster, and every index   *)
(* entry names a stored operation that really names that address.  add,   *)
(* remove, remove_by_entity and clear each touch the indices on their own  *)
(* keys; the property says they never leave a dangling or missing entry,   *)
(* which is what makes the counts the throttling check reads               *)
(* (get_number_by_sender/_by_entity) equal the pool's contents and keeps   *)
(* remove_by_entity from ever stopping on NotFound.                        *)
(***************************************************************************)
IndexConsistency ==
  \A a \in Addrs :
    /\ user_operations_by_sender[a] = SentBy(a, user_operations)
    /\ user_operations_by_entity[a] = NamingEntity(a, user_operations)

(***************************************************************************)
(* The in-memory backend implements the Mempool contract: mapping the map  *)
(* of operations and the code-hash map to the abstract store, every call   *)
(* is a step of the abstract specification (remove_by_entity, walking the  *)
(* entity index, removes exactly the pooled operations naming the entity). *)
(***************************************************************************)
Abstract == INSTANCE Mempool WITH pool <- user_operations,
                                  codes <- code_hashes_by_user_operation
AbstractSpec == Abstract!Spec

(***************************************************************************)
(* SenderCountMatchesList: the count verify_sender tests and the list it   *)
(* then indexes with [0] (sanity_check.rs, lines 238 and 274) agree in     *)
(* every state: a sender counted as having an operation has one to list.  *)
(* It fails if the count reads another index than the list, or if an      *)
(* index keeps a hash whose operation is gone.                             *)
(***************************************************************************)
SenderCountMatchesList ==
  \A a \in Addrs : get_number_by_sender(a) = Cardinality(get_all_by_sender(a))

(***************************************************************************)
(* SortLaw (spec 8.3): get_sorted always returns, and whatever order the   *)
(* store hands the operations to sort_by in, the bundler receives them     *)
(* highest tip first and, among equal tips, lowest nonce first.  It fails  *)
(* if the comparator compares a field the wrong way round (the tip is      *)
(* compared b-to-a, the nonce a-to-b) or is not a total order.             *)
(***************************************************************************)
SortLaw ==
  /\ get_sorted # {}
  /\ \A s \in get_sorted : Abstract!SortedAsSpecified(s)
=============================================================================
