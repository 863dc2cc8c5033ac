--------------------------- MODULE MCSanityChecks ---------------------------
(***************************************************************************)
(* SanityChecks on a small instance.  a2 is THROTTLED and named by h1, h2  *)
(* (as paymaster) and h3 (as sender), one more than the limit of 2; a3 is  *)
(* BANNED and names h4 as factory.  Every operation pays tip 1 and max fee *)
(* 3, so the gas price is 2 or 3 as the base fee is 1 or 2.  A simulation  *)
(* reports pre_op_gas 1 and 0 or 1 gas in the call; call_gas_limit 1 with  *)
(* a stipend of 1 covers the first and not the second.                     *)
(***************************************************************************)
EXTENDS SanityChecks, TLC

CONSTANTS a1, a2, a3, h1, h2, h3, h4, t1, t2

MCUo ==
  (h1 :> [sender |-> a1, factory |-> NONE, paymaster |-> a2,   nonce |-> 0, tip |-> 1, maxFee |-> 3]) @@
  (h2 :> [sender |-> a1, factory |-> NONE, paymaster |-> a2,   nonce |-> 1, tip |-> 1, maxFee |-> 3]) @@
  (h3 :> [sender |-> a2, factory |-> NONE, paymaster |-> NONE, nonce |-> 0, tip |-> 1, maxFee |-> 3]) @@
  (h4 :> [sender |-> a1, factory |-> a3,   paymaster |-> NONE, nonce |-> 2, tip |-> 1, maxFee |-> 3])

MCCallGasLimit == [h \in {h1, h2, h3, h4} |-> 1]
=============================================================================
