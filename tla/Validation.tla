----------------------------- MODULE Validation -----------------------------
(***************************************************************************)
(* The sanity checks of UoPoolService::validate_user_operation             *)
(* (src/uopool/services/sanity_check.rs), run by concurrent tasks against  *)
(* one shared mempool.                                                     *)
(*                                                                         *)
(* Each RPC request runs validate_user_operation in a task of its own; the *)
(* tasks interleave at every .await.  A task is modelled by the stretch of *)
(* code it is suspended in (pc): each action is one provider reply and the *)
(* synchronous code that runs after it, up to the next .await.  The        *)
(* mempool is read under its lock at lines 237-241 and 273-287, each       *)
(* time in one step.  Around the pipeline are the two writers of the pool  *)
(* that the pipeline races with: the admission of a validated operation    *)
(* (spec 4.3, "mempool.add", which per E5 replaces the operation of the    *)
(* same sender and nonce) and the removal of bundled operations by the     *)
(* bundler (spec 4.4, remove_user_operations).  Neither is in src/.        *)
(*                                                                         *)
(* Provider replies are chosen from small sets; a reply can also be an     *)
(* error (ProviderMayFail), which every .await turns into an error of the  *)
(* pipeline with map_err.  Chain state (which addresses have code, which   *)
(* are staked, deposits, bans) is constant over a run.                     *)
(***************************************************************************)
EXTENDS UserOperation

CONSTANTS
  Tasks,             \* the concurrent validate_user_operation calls
  Gas,               \* Gas[h]: the three gas fields of operation h
  Deployed,          \* addresses whose get_code is non-empty
  Staked,            \* addresses for which reputation.verify_stake is Ok
  Banned,            \* addresses whose reputation status is BANNED
  Deposit,           \* Deposit[a]: deposit_info.deposit of address a
  MaxVerificationGas,
  MinPriorityFee,    \* min_priority_fee_per_gas
  CalculatedPreVerificationGas, \* Overhead::calculate_pre_verification_gas per hash
  GasEstimates,      \* replies estimate_gas can give
  GasPrices,         \* replies get_gas_price can give
  ProviderMayFail    \* whether provider calls may return an error

ASSUME ValidationAssumption ==
  /\ Tasks # {}
  /\ IsFiniteSet(Hashes) /\ Hashes # {}
  /\ Gas \in [Hashes -> [verificationGasLimit : Nat, preVerificationGas : Nat,
                         callGasLimit : Nat]]
  /\ Deployed \subseteq Addrs /\ Staked \subseteq Addrs /\ Banned \subseteq Addrs
  /\ Deposit \in [Addrs -> Nat]
  /\ MaxVerificationGas \in Nat /\ MinPriorityFee \in Nat
  /\ CalculatedPreVerificationGas \in [Hashes -> Nat]
  /\ GasEstimates \subseteq Nat /\ GasEstimates # {}
  /\ GasPrices \subseteq Nat /\ GasPrices # {}
  /\ ProviderMayFail \in BOOLEAN

\* SanityCheckResult: what a run records for a later simulation.
Marks == {"FactoryVerified", "PaymasterVerified", "SenderVerified"}

\* Where a task is suspended: the .await whose reply it is waiting for.
Awaits == {"sender_code", "factory_deposit", "paymaster_code",
           "paymaster_deposit", "call_gas", "max_fee", "sender_deposit"}

\* The two U256 subtractions of verify_sender, which panic when they underflow.
PanicKinds == {"index", "underflow"}

VARIABLES
  pool,      \* hashes of the operations in the mempool
  results,   \* sanity_check_results: hash -> set of SanityCheckResult
  pc,        \* pc[t]: "idle", an element of Awaits, or "admit"
  op,        \* op[t]: the hash task t validates
  marks,     \* marks[t]: the results task t recorded in this run (history)
  panics     \* kinds of panic some task has hit (history)

vars == <<pool, results, pc, op, marks, panics>>

TypeOK ==
  /\ pool \subseteq Hashes
  /\ results \in [Hashes -> SUBSET Marks]
  /\ pc \in [Tasks -> {"idle", "admit"} \cup Awaits]
  /\ op \in [Tasks -> Hashes]
  /\ marks \in [Tasks -> SUBSET Marks]
  /\ panics \subseteq PanicKinds

Init ==
  /\ pool = {}
  /\ results = [h \in Hashes |-> {}]
  /\ pc = [t \in Tasks |-> "idle"]
  /\ op = [t \in Tasks |-> CHOOSE h \in Hashes : TRUE]   \* read only after Start
  /\ marks = [t \in Tasks |-> {}]
  /\ panics = {}

\* Task t goes on to the code after the next .await, or ends its run.
Goto(t, l) == pc' = [pc EXCEPT ![t] = l]
Fail(t) == Goto(t, "idle")

\* sanity_check_results.write().entry(hash).or_insert(..).insert(m)
Mark(t, m) ==
  /\ results' = [results EXCEPT ![op[t]] = @ \cup {m}]
  /\ marks' = [marks EXCEPT ![t] = @ \cup {m}]

\* A run recording m only when cond holds.
MarkIf(t, m, cond) ==
  IF cond THEN Mark(t, m) ELSE UNCHANGED <<results, marks>>

\* A panic ends task t; the server goes on with its other tasks.
Panic(t, k) ==
  /\ panics' = panics \cup {k}
  /\ Fail(t)
  /\ UNCHANGED <<pool, results, op, marks>>

\* verification_gas: the verification gas limit and pre-verification gas bounds.
VerificationGasOk(h) ==
  /\ Gas[h].verificationGasLimit <= MaxVerificationGas
  /\ Gas[h].preVerificationGas >= CalculatedPreVerificationGas[h]

\* Where a run goes after verify_factory returns Ok: verification_gas, then
\* verify_paymaster awaits get_code when there is a paymaster, and otherwise
\* call_gas_limit awaits estimate_gas.
AfterFactory(h) ==
  CASE ~VerificationGasOk(h)      -> "idle"
    [] Uo[h].paymaster # NONE     -> "paymaster_code"
    [] OTHER                      -> "call_gas"

\* max_fee_per_gas: the three fee checks against the gas price base.
FeesOk(h, base) ==
  /\ Uo[h].tip <= Uo[h].maxFee
  /\ base + Uo[h].tip <= Uo[h].maxFee
  /\ Uo[h].tip >= MinPriorityFee

\* verify_sender, lines 275-276 and 282: the U256 differences underflow (and
\* panic) when the new value is below the previous one; the second is only
\* evaluated when the conjuncts before it in the && chain hold.
TipUnderflow(h, prev) == Uo[h].tip < Uo[prev].tip
FeeUnderflow(h, prev) ==
  /\ Uo[h].nonce = Uo[prev].nonce
  /\ Uo[h].tip > Uo[prev].tip
  /\ Uo[h].maxFee < Uo[prev].maxFee

\* Fault variants of the replacement rule: the nonce, or the equal uplift,
\* left out.
ReplacesAnyNonce(h, prev) ==
  /\ Uo[h].tip > Uo[prev].tip
  /\ Uo[h].maxFee - Uo[prev].maxFee = Uo[h].tip - Uo[prev].tip
ReplacesNoUplift(h, prev) ==
  /\ Uo[h].nonce = Uo[prev].nonce
  /\ Uo[h].tip > Uo[prev].tip

\* The replacement rule of verify_sender (the sender test always holds, prev
\* being taken from get_all_by_sender of the same sender).
Replaces(h, prev) ==
  /\ Uo[h].nonce = Uo[prev].nonce
  /\ Uo[h].tip > Uo[prev].tip
  /\ Uo[h].maxFee - Uo[prev].maxFee = Uo[h].tip - Uo[prev].tip

\* The operations among hs with the sender and nonce of h.
SameSlot(h, hs) ==
  {o \in hs : Sender(o) = Sender(h) /\ Uo[o].nonce = Uo[h].nonce}

(***************************************************************************)
(* Actions.                                                                *)
(***************************************************************************)

\* validate_user_operation starts: the results of h are reset, and
\* sender_or_init_code awaits get_code(sender).
Start(t, h) ==
  /\ pc[t] = "idle"
  /\ results' = [results EXCEPT ![h] = {}]
  /\ op' = [op EXCEPT ![t] = h]
  /\ marks' = [marks EXCEPT ![t] = {}]
  /\ Goto(t, "sender_code")
  /\ UNCHANGED <<pool, panics>>

\* get_code(sender) replies: exactly one of sender code and init_code must be
\* there; then verify_factory awaits the factory's deposit info, or the run
\* goes on past verify_factory.
SenderCode(t) ==
  LET h == op[t]
      hasCode == Sender(h) \in Deployed
      hasInitCode == Uo[h].factory # NONE
  IN /\ pc[t] = "sender_code"
     /\ Goto(t, CASE hasCode = hasInitCode -> "idle"
                  [] hasInitCode           -> "factory_deposit"
                  [] OTHER                 -> AfterFactory(h))
     /\ UNCHANGED <<pool, results, op, marks, panics>>

\* get_deposit_info(factory) replies: FactoryVerified is recorded when the
\* factory is staked.
FactoryDeposit(t) ==
  LET h == op[t] IN
  /\ pc[t] = "factory_deposit"
  /\ MarkIf(t, "FactoryVerified", Uo[h].factory \in Staked)
  /\ Goto(t, AfterFactory(h))
  /\ UNCHANGED <<pool, op, panics>>

\* get_code(paymaster) replies: no code ends the run; otherwise the
\* paymaster's deposit info is awaited.
PaymasterCode(t) ==
  /\ pc[t] = "paymaster_code"
  /\ Goto(t, IF Uo[op[t]].paymaster \in Deployed THEN "paymaster_deposit"
                                                  ELSE "idle")
  /\ UNCHANGED <<pool, results, op, marks, panics>>

\* get_deposit_info(paymaster) replies: PaymasterVerified is recorded when the
\* deposit exceeds max_fee_per_gas and the paymaster is not banned; then
\* call_gas_limit awaits estimate_gas.
PaymasterDeposit(t) ==
  LET pm == Uo[op[t]].paymaster IN
  /\ pc[t] = "paymaster_deposit"
  /\ MarkIf(t, "PaymasterVerified",
            Deposit[pm] > Uo[op[t]].maxFee /\ pm \notin Banned)
  /\ Goto(t, "call_gas")
  /\ UNCHANGED <<pool, op, panics>>

\* estimate_gas replies: the call gas limit must cover it; then
\* max_fee_per_gas awaits get_gas_price.
CallGas(t) ==
  /\ pc[t] = "call_gas"
  /\ \E estimate \in GasEstimates :
        Goto(t, IF Gas[op[t]].callGasLimit < estimate THEN "idle" ELSE "max_fee")
  /\ UNCHANGED <<pool, results, op, marks, panics>>

\* get_gas_price replies: the fee checks, then verify_sender counts the
\* sender's operations under the mempool lock; none means Ok, otherwise it
\* awaits the sender's deposit info.
MaxFee(t) ==
  LET h == op[t] IN
  /\ pc[t] = "max_fee"
  /\ \E base \in GasPrices :
        Goto(t, CASE ~FeesOk(h, base)            -> "idle"
                  [] SentBy(Sender(h), pool) = {} -> "admit"
                  [] OTHER                        -> "sender_deposit")
  /\ UNCHANGED <<pool, results, op, marks, panics>>

\* get_deposit_info(sender) replies for a staked sender: SenderVerified is
\* recorded and verify_sender returns Ok.
SenderStaked(t) ==
  /\ pc[t] = "sender_deposit"
  /\ Sender(op[t]) \in Staked
  /\ Mark(t, "SenderVerified")
  /\ Goto(t, "admit")
  /\ UNCHANGED <<pool, op, panics>>

\* The reply for an unstaked sender, whose operations were all removed while
\* the task waited: get_all_by_sender(..)[0] indexes an empty vector.
SenderGone(t) ==
  /\ pc[t] = "sender_deposit"
  /\ Sender(op[t]) \notin Staked
  /\ SentBy(Sender(op[t]), pool) = {}
  /\ Panic(t, "index")

\* The reply for an unstaked sender with an operation prev in the pool:
\* [0] is whichever the by-sender index yields first; the two differences
\* may underflow; otherwise the replacement rule decides.
SenderPrev(t) ==
  LET h == op[t] IN
  /\ pc[t] = "sender_deposit"
  /\ Sender(h) \notin Staked
  /\ \E prev \in SentBy(Sender(h), pool) :
        IF TipUnderflow(h, prev) \/ FeeUnderflow(h, prev)
          THEN Panic(t, "underflow")
          ELSE /\ Goto(t, IF Replaces(h, prev) THEN "admit" ELSE "idle")
               /\ UNCHANGED <<pool, results, op, marks, panics>>

\* A provider call returns an error, which map_err makes the run's error.
ProviderError(t) ==
  /\ ProviderMayFail
  /\ pc[t] \in Awaits
  /\ Fail(t)
  /\ UNCHANGED <<pool, results, op, marks, panics>>

\* Spec 4.3 and E5: a validated operation is added to the mempool, replacing
\* the operation of the same sender and nonce.
Admit(t) ==
  LET h == op[t] IN
  /\ pc[t] = "admit"
  /\ pool' = (pool \ SameSlot(h, pool)) \cup {h}
  /\ Fail(t)
  /\ UNCHANGED <<results, op, marks, panics>>

\* Spec 4.4: the bundler removes an operation it has bundled.
Bundle(h) ==
  /\ h \in pool
  /\ pool' = pool \ {h}
  /\ UNCHANGED <<results, pc, op, marks, panics>>

Next ==
  \/ \E t \in Tasks :
       \/ \E h \in Hashes : Start(t, h)
       \/ SenderCode(t) \/ FactoryDeposit(t) \/ PaymasterCode(t)
       \/ PaymasterDeposit(t) \/ CallGas(t) \/ MaxFee(t)
       \/ SenderStaked(t) \/ SenderGone(t) \/ SenderPrev(t)
       \/ ProviderError(t) \/ Admit(t)
  \/ \E h \in Hashes : Bundle(h)

Spec == Init /\ [][Next]_vars

(***************************************************************************)
(* Properties.                                                             *)
(***************************************************************************)

\* Spec 3 and 4.3 rule 6: an unstaked sender never has two operations in the
\* mempool; verify_sender lets a second one in only as a replacement of the
\* same nonce, which the admission then evicts.
UnstakedSenderSingleOp ==
  \A a \in Addrs \ Staked : Cardinality(SentBy(a, pool)) <= 1

\* Spec 7 property 4 (replacement monotonicity): when the admission of an
\* unstaked sender's operation evicts the operation it replaces, the new one
\* has a strictly higher tip and the same uplift of max_fee_per_gas, as
\* verify_sender checked against the operation it read from the pool.
ReplacementMonotonic ==
  [][\A t \in Tasks :
       (Admit(t) /\ Sender(op[t]) \notin Staked) =>
          \A o \in SameSlot(op[t], pool) \ {op[t]} :
             /\ Uo[op[t]].tip > Uo[o].tip
             /\ Uo[op[t]].maxFee - Uo[o].maxFee = Uo[op[t]].tip - Uo[o].tip]_vars

\* The comment at line 307: verify_factory records FactoryVerified (and the
\* paymaster and sender checks their marks) for the later simulation.  A
\* run that reaches admission must still find in sanity_check_results every
\* mark it recorded.  validate_user_operation resets the results of its hash
\* at line 299, so a second validation of the same operation started in the
\* meantime breaks this.
MarksKept ==
  \A t \in Tasks : pc[t] = "admit" => marks[t] \subseteq results[op[t]]

\* verify_sender never indexes an empty vector at line 274.
NoIndexPanic == "index" \notin panics

\* verify_sender's U256 differences at lines 275 and 282 never underflow.
NoUnderflowPanic == "underflow" \notin panics
=============================================================================
