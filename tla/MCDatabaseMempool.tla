-------------------------- MODULE MCDatabaseMempool --------------------------
(***************************************************************************)
(* The database backend on four operations over two addresses, chosen so   *)
(* that every shape get_entities() can return occurs: a factory only, a    *)
(* paymaster only, one address as both factory and paymaster, no optional *)
(* entity, and an address that is a sender of one operation and an entity *)
(* of another.                                                             *)
(***************************************************************************)
EXTENDS DatabaseMempool, TLC

CONSTANTS a1, a2, h1, h2, h3, h4, c1, c2

MCUo ==
  (h1 :> [sender |-> a1, factory |-> a2,   paymaster |-> NONE, nonce |-> 0, tip |-> 1, maxFee |-> 2]) @@
  (h2 :> [sender |-> a1, factory |-> NONE, paymaster |-> a2,   nonce |-> 1, tip |-> 1, maxFee |-> 2]) @@
  (h3 :> [sender |-> a2, factory |-> a1,   paymaster |-> a1,   nonce |-> 0, tip |-> 2, maxFee |-> 3]) @@
  (h4 :> [sender |-> a2, factory |-> NONE, paymaster |-> NONE, nonce |-> 1, tip |-> 2, maxFee |-> 3])

\* set_code_hashes is called with an empty list, one entry, or two.
MCCodeHashInputs == {{}, {c1}, {c1, c2}}

\* Code-hash lists restricted to non-empty ones, so that a run is about clear alone.
MCNonEmptyCodeHashInputs == {{c1}, {c1, c2}}
=============================================================================
