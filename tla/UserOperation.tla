--------------------------- MODULE UserOperation ---------------------------
(***************************************************************************)
(* The data the mempool stores, abstracted to what its indices tell apart. *)
(*                                                                         *)
(* A user operation is stored under its UserOperationHash, which is        *)
(* content-addressed (keccak of the operation without its signature, the   *)
(* entry point and the chain id), so the hash determines the entities the  *)
(* operation names.  Hashes are model values; Uo maps each hash to the     *)
(* part of the operation the stores read: get_entities() (sender, factory  *)
(* taken from init_code, paymaster taken from paymaster_and_data), the     *)
(* nonce and the two fee fields.  The signature is not hashed and not read *)
(* by any store, so it is left out.                                        *)
(***************************************************************************)
EXTENDS Naturals, FiniteSets

CONSTANTS
  Hashes,        \* UserOperationHash values that can occur
  Addrs,         \* addresses of senders, factories and paymasters
  NONE,          \* the None of Option<Address>
  Uo,            \* Uo[h]: the operation stored under hash h
  CodeHashVals   \* CodeHash values (contract address, code hash) a trace can record

UoRecords ==
  [sender : Addrs, factory : Addrs \cup {NONE}, paymaster : Addrs \cup {NONE},
   nonce : Nat, tip : Nat, maxFee : Nat]

ASSUME NoneAssumption == NONE \notin Addrs
ASSUME UoAssumption == Uo \in [Hashes -> UoRecords]
\* A run meets finitely many operations, so the maps keyed by hash are finite.
ASSUME HashesAssumption == IsFiniteSet(Hashes)

\* uo.get_entities(): the sender, and the factory and paymaster when present.
Sender(h) == Uo[h].sender
OptionalEntities(h) == {Uo[h].factory, Uo[h].paymaster} \ {NONE}

\* The operations among hs that name address a as sender / as factory or paymaster.
SentBy(a, hs) == {h \in hs : Sender(h) = a}

\* Ord::cmp on U256 values.
Cmp(x, y) == IF x < y THEN "Less" ELSE IF x = y THEN "Equal" ELSE "Greater"
NamingEntity(a, hs) == {h \in hs : a \in OptionalEntities(h)}
=============================================================================
