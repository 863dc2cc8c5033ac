---------------------------- MODULE MCValidation ----------------------------
(***************************************************************************)
(* Validation on a small instance.  a1 is an unstaked account with code;   *)
(* a2 a staked contract with code and a deposit, used as paymaster,        *)
(* factory and sender; a3 an account not yet deployed.  The operations of  *)
(* a1 are chosen so that verify_sender meets each of its outcomes:         *)
(*   h1  nonce 0, tip 1, max fee 5                                         *)
(*   h2  nonce 0, tip 2, max fee 6, paymaster a2: replaces h1              *)
(*   h3  nonce 1, tip 2, max fee 6: h1's uplift, but another nonce       *)
(*   h4  nonce 0, tip 3, max fee 5: fee difference below h2's             *)
(* h5 deploys a3 through factory a2; h6 is sent by the staked a2; h7      *)
(* underpays its pre-verification gas.  One                               *)
(* of the replies of estimate_gas and of get_gas_price fails the checks.   *)
(***************************************************************************)
EXTENDS Validation, TLC

CONSTANTS a1, a2, a3, h1, h2, h3, h4, h5, h6, h7, t1, t2

MCUo ==
  (h1 :> [sender |-> a1, factory |-> NONE, paymaster |-> NONE, nonce |-> 0, tip |-> 1, maxFee |-> 5]) @@
  (h2 :> [sender |-> a1, factory |-> NONE, paymaster |-> a2,   nonce |-> 0, tip |-> 2, maxFee |-> 6]) @@
  (h3 :> [sender |-> a1, factory |-> NONE, paymaster |-> NONE, nonce |-> 1, tip |-> 2, maxFee |-> 6]) @@
  (h4 :> [sender |-> a1, factory |-> NONE, paymaster |-> NONE, nonce |-> 0, tip |-> 3, maxFee |-> 5]) @@
  (h5 :> [sender |-> a3, factory |-> a2,   paymaster |-> NONE, nonce |-> 0, tip |-> 1, maxFee |-> 5]) @@
  (h6 :> [sender |-> a2, factory |-> NONE, paymaster |-> NONE, nonce |-> 0, tip |-> 1, maxFee |-> 5]) @@
  (h7 :> [sender |-> a2, factory |-> NONE, paymaster |-> NONE, nonce |-> 1, tip |-> 1, maxFee |-> 5])

\* h7 underpays its pre-verification gas; the others pass verification_gas.
MCGas ==
  [h \in {h1, h2, h3, h4, h5, h6, h7} |->
     [verificationGasLimit |-> 1, callGasLimit |-> 1,
      preVerificationGas |-> IF h = h7 THEN 0 ELSE 1]]

MCCalculatedPreVerificationGas == [h \in {h1, h2, h3, h4, h5, h6, h7} |-> 1]

MCDeposit == [a \in {a1, a2, a3} |-> IF a = a2 THEN 10 ELSE 0]
=============================================================================
