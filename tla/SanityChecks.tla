---------------------------- MODULE SanityChecks ----------------------------
(***************************************************************************)
(* Two sanity checks of the crates/uopool validation pipeline, run by      *)
(* concurrent tasks against one shared mempool: CallGas                    *)
(* (validate/sanity/call_gas.rs) and Entities (validate/sanity/entities.rs, *)
(* rules SREP-020/030).  The order of the checks is spec 4.3 Phase A:      *)
(* call gas (4) before entities (5); a validated operation is then added   *)
(* to the mempool after the simulation phases (spec 4.3, "Admission"),     *)
(* replacing the operation of the same sender and nonce (E5), and the      *)
(* bundler removes operations it has bundled.                              *)
(*                                                                         *)
(* CallGas awaits simulate_handle_op and then get_block(Latest): a new     *)
(* block, with another base fee, can come in between.  The simulation      *)
(* charges the operation at the base fee of the block it ran on; the floor *)
(* is computed with the base fee of the block read afterwards.             *)
(* Entities has no .await: its reads of the reputation and of the mempool  *)
(* counts happen in one step.                                              *)
(***************************************************************************)
EXTENDS UserOperation

CONSTANTS
  Tasks,              \* the concurrent validations
  CallGasLimit,       \* CallGasLimit[h]: call_gas_limit of operation h
  GasUsed,            \* gas used before execution that a simulation can report
  BaseFees,           \* base fees a block can have
  ExecutionGas,       \* gas the call itself can use in a simulation
  CALL_STIPEND,
  THROTTLED_ENTITY_MEMPOOL_COUNT,
  Banned, Throttled,  \* addresses whose reputation status is BANNED / THROTTLED
  SimulationMayFail   \* whether simulate_handle_op may return an error

ASSUME SanityChecksAssumption ==
  /\ Tasks # {}
  /\ IsFiniteSet(Hashes) /\ Hashes # {}
  /\ CallGasLimit \in [Hashes -> Nat]
  /\ GasUsed \subseteq Nat \ {0} /\ GasUsed # {}
  /\ ExecutionGas \subseteq Nat /\ ExecutionGas # {}
  /\ BaseFees \subseteq Nat /\ BaseFees # {}
  /\ CALL_STIPEND \in Nat /\ THROTTLED_ENTITY_MEMPOOL_COUNT \in Nat
  /\ Banned \subseteq Addrs /\ Throttled \subseteq Addrs
  /\ Banned \cap Throttled = {}
  /\ SimulationMayFail \in BOOLEAN

VARIABLES
  pool,     \* hashes of the operations in the mempool
  baseFee,  \* base_fee_per_gas of the latest block
  pc,       \* pc[t]: "idle", "simulate", "block", "entities" or "admit"
  op,       \* op[t]: the hash task t validates
  exec      \* exec[t]: paid and pre_op_gas of task t's simulation

vars == <<pool, baseFee, pc, op, exec>>

ExecResults == [paid : Nat, preOpGas : Nat]

TypeOK ==
  /\ pool \subseteq Hashes
  /\ baseFee \in BaseFees
  /\ pc \in [Tasks -> {"idle", "simulate", "block", "entities", "admit"}]
  /\ op \in [Tasks -> Hashes]
  /\ exec \in [Tasks -> ExecResults]

Init ==
  /\ pool = {}
  /\ baseFee \in BaseFees
  /\ pc = [t \in Tasks |-> "idle"]
  /\ op = [t \in Tasks |-> CHOOSE h \in Hashes : TRUE]   \* read only after Start
  /\ exec = [t \in Tasks |-> [paid |-> 0, preOpGas |-> 0]]

Goto(t, l) == pc' = [pc EXCEPT ![t] = l]

\* max_fee_per_gas.min(max_priority_fee_per_gas + base_fee_per_gas)
EffectiveGasPrice(h, base) == IF Uo[h].maxFee < Uo[h].tip + base
                                THEN Uo[h].maxFee ELSE Uo[h].tip + base

\* calculate_call_gas_limit (spec 4.3 rule 4): (paid - pre_op_gas * price)
\* / price + CALL_STIPEND, in U256, whose subtraction panics on underflow
\* and whose division panics on a zero price.
CallGasPanics(e, price) == price = 0 \/ e.paid < e.preOpGas * price
RequiredCallGas(e, price) ==
  (e.paid - e.preOpGas * price) \div price + CALL_STIPEND

\* get_number_by_sender(addr) + get_number_by_entity(addr)
MempoolCount(a) == Cardinality(SentBy(a, pool)) + Cardinality(NamingEntity(a, pool))

\* Fault variant of check_throttled: > for >=.
ThrottledLateBy1(a) ==
  \/ a \in Banned
  \/ a \in Throttled /\ MempoolCount(a) > THROTTLED_ENTITY_MEMPOOL_COUNT

\* check_banned and check_throttled of entity a.
Rejected(a) ==
  \/ a \in Banned
  \/ a \in Throttled /\ MempoolCount(a) >= THROTTLED_ENTITY_MEMPOOL_COUNT

\* The operations among hs with the sender and nonce of h.
SameSlot(h, hs) ==
  {o \in hs : Sender(o) = Sender(h) /\ Uo[o].nonce = Uo[h].nonce}

\* The operations among hs that name a as sender, factory or paymaster.
Naming(a, hs) == SentBy(a, hs) \cup NamingEntity(a, hs)

(***************************************************************************)
(* Actions.                                                                *)
(***************************************************************************)

\* A validation of h starts; CallGas awaits simulate_handle_op.
Start(t, h) ==
  /\ pc[t] = "idle"
  /\ op' = [op EXCEPT ![t] = h]
  /\ Goto(t, "simulate")
  /\ UNCHANGED <<pool, baseFee, exec>>

\* simulate_handle_op replies: the operation used pre_op_gas g before its
\* call and x in it, and paid for both at the gas price of the current
\* block.  CallGas then awaits get_block(Latest).
Simulate(t) ==
  /\ pc[t] = "simulate"
  /\ \E g \in GasUsed, x \in ExecutionGas :
        exec' = [exec EXCEPT ![t] =
                   [paid |-> (g + x) * EffectiveGasPrice(op[t], baseFee),
                    preOpGas |-> g]]
  /\ Goto(t, "block")
  /\ UNCHANGED <<pool, baseFee, op>>

\* simulate_handle_op or get_block returns an error, no block or no base
\* fee: the check returns an error.
ProviderError(t) ==
  /\ SimulationMayFail
  /\ pc[t] \in {"simulate", "block"}
  /\ Goto(t, "idle")
  /\ UNCHANGED <<pool, baseFee, op, exec>>

\* get_block(Latest) replies with the current base fee: the floor is
\* computed with it and compared with call_gas_limit (call_gas.rs:57-77).
\* A panic in the floor ends the task like an error does.
Block(t) ==
  LET price == EffectiveGasPrice(op[t], baseFee) IN
  /\ pc[t] = "block"
  /\ Goto(t, CASE CallGasPanics(exec[t], price)                       -> "idle"
              [] CallGasLimit[op[t]] >= RequiredCallGas(exec[t], price) -> "entities"
              [] OTHER                                                   -> "idle")
  /\ UNCHANGED <<pool, baseFee, op, exec>>

\* Entities::check_user_operation: for the sender, then the factory and the
\* paymaster when present, the reputation status is read and checked.
Entities(t) ==
  LET h == op[t] IN
  /\ pc[t] = "entities"
  /\ Goto(t, IF \E a \in {Sender(h)} \cup OptionalEntities(h) : Rejected(a)
               THEN "idle" ELSE "admit")
  /\ UNCHANGED <<pool, baseFee, op, exec>>

\* Spec 4.3 and E5: the validated operation is added to the mempool,
\* replacing the operation of the same sender and nonce.
Admit(t) ==
  LET h == op[t] IN
  /\ pc[t] = "admit"
  /\ pool' = (pool \ SameSlot(h, pool)) \cup {h}
  /\ Goto(t, "idle")
  /\ UNCHANGED <<baseFee, op, exec>>

\* Spec 4.4: the bundler removes an operation it has bundled.
Bundle(h) ==
  /\ h \in pool
  /\ pool' = pool \ {h}
  /\ UNCHANGED <<baseFee, pc, op, exec>>

\* A new block with another base fee.
NewBlock ==
  /\ \E b \in BaseFees \ {baseFee} : baseFee' = b
  /\ UNCHANGED <<pool, pc, op, exec>>

Next ==
  \/ \E t \in Tasks :
       \/ \E h \in Hashes : Start(t, h)
       \/ Simulate(t) \/ ProviderError(t) \/ Block(t) \/ Entities(t) \/ Admit(t)
  \/ \E h \in Hashes : Bundle(h)
  \/ NewBlock

Spec == Init /\ [][Next]_vars

(***************************************************************************)
(* Properties.                                                             *)
(***************************************************************************)

\* SREP-030 (entities.rs:57): a THROTTLED entity is named by at most
\* THROTTLED_ENTITY_MEMPOOL_COUNT operations of the mempool.
ThrottledWithinLimit ==
  \A a \in Throttled : Cardinality(Naming(a, pool)) <= THROTTLED_ENTITY_MEMPOOL_COUNT

=============================================================================
