# Formal models of the Silius UoPool

This directory holds TLA+ models of the UoPool subsystem of Silius, an
ERC-4337 bundler. The UoPool is the alternative mempool of user operations:
it validates operations, stores them, and keeps entity reputations. For each
part there are TLC runs on small instances and TLAPS proofs that hold for
every value of the constants. Each model is translated from the Rust sources
under `src/`. A definition marked `spec_modelled` in `PROJECT.json` stands for
code that is not part of those sources, and is written from `spec.md`.

## 1. Inventory

### Components and their state

| Component | Source | State | Operations that change state |
|---|---|---|---|
| In-memory mempool | `crates/uopool/src/memory/mempool.rs` | `user_operations` (hash → UO), `user_operations_by_sender` (address → set of hashes), `user_operations_by_entity` (address → set of hashes), `code_hashes_by_user_operation` (hash → Vec of CodeHash) | `add`, `remove`, `remove_by_entity`, `set_code_hashes`, `clear` |
| Database mempool (MDBX) | `crates/uopool/src/database/mempool.rs` | tables `UserOperations` (unique), and the DUPSORT tables `UserOperationsBySender`, `UserOperationsByEntity`, `CodeHashes` | the same five methods. Each runs as one transaction, except `remove_by_entity`: it reads in one transaction, then runs one `remove` transaction per hash |
| Reputation table | `crates/uopool/src/database/reputation.rs` | table `EntitiesReputation`: address → (uo_seen, uo_included), both u64 | `set_entry`, `update` (the hourly 23/24 decay), `clear` |
| Reputation wrapper | not in `src/` (spec 4.2) | whitelist and blacklist, plus the three constants | `get_status`, `increment_seen`, `increment_included`, `update_handle_ops_reverted` |
| Entity sanity check | `crates/uopool/src/validate/sanity/entities.rs` | none; it reads reputation and mempool counts | SREP-020 (a banned entity is refused) and SREP-030 (a throttled entity is limited) |
| Call-gas sanity check | `crates/uopool/src/validate/sanity/call_gas.rs` | none; it reads `simulate_handle_op` and the latest block | the call-gas floor |
| Sanity-check service | `src/uopool/services/sanity_check.rs` | `sanity_check_results` (hash → set of verified marks), plus the mempool and reputation maps behind RwLocks | `validate_user_operation`: sender-or-init-code, verify_factory, verification_gas, verify_paymaster, call_gas_limit, max_fee_per_gas, verify_sender |
| Example, RPC binary, crate roots, constants | `examples/`, `bin/`, `lib.rs`, `consts.rs` | none | none (I/O and wiring) |

### How the parts interact

`UoPool.add` is not in `src/`. It runs the sanity checks, the simulation
checks and then the admission step: `mempool.add` followed by
`reputation.increment_seen` for each entity (spec 4.3). The checks run as
async tasks on a shared executor. The mempool and reputation stores are
shared behind reader-writer locks. Every provider call (`get_code`,
`get_deposit_info`, `simulate_handle_op`, `get_block`, `estimate_gas`) is a
suspension point, and no lock is held across it. Between two suspension
points, other tasks can add and remove operations and tick the reputation.
The bundler drains the pool through `get_sorted` and `remove`. A timer
calls the reputation `update` once per "reputation hour".

### What is hard

- **Interleavings across awaits.** `verify_sender` reads the sender's count
  under the pool lock, awaits `get_deposit_info`, and then indexes
  `get_all_by_sender(..)[0]`. The entity check reads the pool's counts long
  before admission.
- **Backend equivalence.** The two backends are meant to have the same
  contract (spec 4.1, 8.7). Their storage shapes differ: a Vec in a HashMap
  in one, DUPSORT rows in the other.
- **Multi-transaction calls.** `remove_by_entity` on MDBX can fail after
  some of its transactions have committed.
- **Numeric edges.** u64 counters are multiplied by 23 in the decay tick.
  U256 fee differences are subtracted before they are compared.
- **Liveness.** Bans must wear off: the tick has to keep shrinking the
  counters.

### What makes each part correct

- Both mempool backends keep their indices consistent with the primary map
  (spec 8.2).
- Both backends implement one Mempool contract (spec 4.1, 8.7).
- The reputation tick decays every counter to (old·23)/24 and deletes the
  rows where both counters are zero (spec 8.5).
- A ban of an address that is not blacklisted ends once that address stops
  being seen.
- Validation admits an unstaked sender's second operation only as a
  replacement (spec 4.3.6). It never panics. A throttled entity stays
  within `THROTTLED_ENTITY_MEMPOOL_COUNT`.

The hazards in `PROJECT.json` list, at the line where each one bites, what
a test would hardly reach.

## 2. Modules

| Module | Models |
|---|---|
| `UserOperation` | The data shared by the stores. Hashes are model values and `Uo[h]` is the operation stored under a hash. Since the hash is content-addressed, a map keyed by hash is kept as the set of its keys. `Sender`, `OptionalEntities` (get_entities), `SentBy`, `NamingEntity`. |
| `Mempool` | The abstract contract of a mempool store: `pool` (a set of hashes) and `codes` (hash → set of code hashes, or NONE when there is none). It has one action per trait method. This is the specification both backends are meant to implement. |
| `MemoryMempool` | The in-memory backend. Its four variables are the four HashMaps, plus `result`, the outcome of the last call. There is one action per method. `RemoveAll` is the effect of a series of `remove` calls that all find their operation. An index is a total function to sets, because a key whose set became empty is deleted by the code and no reader can tell that apart from an empty set. `Abstract` is the refinement mapping onto `Mempool`. |
| `DatabaseMempool` | The MDBX backend. The DUPSORT tables are sets of (key, value) pairs, so putting a duplicate pair adds nothing. Each committed transaction is one step. With `TxMayFail`, a transaction of `remove_by_entity`'s loop may fail, leaving the removes before it committed. |
| `Reputation` | The reputation table and its decay. The counters range up to `U64_MAX` (u64::MAX in the code, 1023 in the runs). `update` is the cursor walk of `DatabaseTable::update`: the product `x * 23` wraps modulo `U64_MAX + 1` in a release build. With `OverflowChecks` it panics instead, which aborts the transaction and ends the ticking task. `TickAll` is the whole walk. With `CursorFaults`, `TickCut` is a walk whose `cursor.next()` fails at some row: `while let Ok(Some(..))` ends the loop as if at the table's end, and the rows walked so far (those with a lower `Rank`, the key order) are committed decayed while the rest keep their values. `Status` and the increments are written from spec 4.2. |
| `Validation` | `validate_user_operation` of `sanity_check.rs`, run by the tasks in `Tasks`. `pc[t]` is the `.await` task `t` is suspended in. Each action is one provider reply and the synchronous code after it, up to the next `.await`. `results` is `sanity_check_results`, `pool` the mempool (as a set of hashes). The admission (`Admit`) and the bundler (`Bundle`) are the other writers of the pool, from spec 4.3/4.4. `marks` and `panics` are history variables for the properties. |
| `SanityChecks` | The `CallGas` and `Entities` checks of `crates/uopool/src/validate/sanity`, run by concurrent tasks, with the same admission and bundler, and `NewBlock` changing the base fee between `CallGas`'s two awaits. |
| `SortOrderProofs` | The TLAPS lemma that every finite set of operations has an arrangement in the order of spec 8.3, which both backends' `SortLaw` proofs use (section 5). |
| `MemoryMempoolProofs` | The TLAPS proofs of the in-memory backend (section 5). |
| `DatabaseMempoolProofs` | The TLAPS proofs of the MDBX backend (section 5). |
| `ReputationProofs` | The TLAPS proofs of the reputation table (section 5). |
| `ValidationProofs` | The TLAPS proofs of `Validation` (section 5). |
| `SanityChecksProofs` | The TLAPS proofs of `SanityChecks` (section 5). |
| `MC*` | The instances TLC checks. |

The correspondence to the code:

- Each trait method that mutates state is one action. It runs under the
  pool's write lock (`&mut self`), so it is atomic.
- The `NotFound` early return of `remove` is a disjunct of its own that
  leaves the stores unchanged.
- `remove_by_entity`'s `?` early return is not modelled as a branch. It
  fires only when the entity index names a hash that is not stored, and
  `IndexConsistency`, which is proved, rules that out.
- `get_sorted` is the set of results sort_by can return. The map's
  iteration order (memory) and the key order of the table (MDBX) say
  nothing of tips or nonces, so the input may be any arrangement of the
  pool, and a stable sort of it is any arrangement in which no operation
  compares `Greater` than one after it. `SortCompare` is the closure given
  to `sort_by`, with `Cmp` for `Ord::cmp`.
- `get_all_by_sender` is the set of the sender index's hashes that have an
  operation (the `filter_map`). It is a Vec without repeats in the code.
- Vectors of code hashes are kept as sets. No property depends on their
  order or on duplicates.
- In `Validation` and `SanityChecks`, a step ends at every `.await`. The
  mempool is read under its lock at `sanity_check.rs:237-241` and
  `273-287`, and each read is inside one step. `Entities` has no `.await`,
  so it is one step.
- Provider replies (`get_code`, `get_deposit_info`, `estimate_gas`,
  `get_gas_price`, `simulate_handle_op`, `get_block`) are chosen with `\E`
  from small sets. With `ProviderMayFail` / `SimulationMayFail`, a reply
  may be an error, which the `map_err` at each `.await` turns into the
  run's error.
- Chain state and reputation (`Deployed`, `Staked`, `Banned`, `Throttled`,
  `Deposit`) are constant sets in these modules. `verify_stake` and
  `get_status` are not under `src/`, and the decay of reputations is
  modelled in `Reputation`.
- A panic ends the task that hit it. The tokio runtime catches it, and the
  server goes on with its other tasks. `panics` records which kinds
  happened.
- `[0]` of `get_all_by_sender` is any operation of the sender: the
  in-memory index is a HashSet, and the DUPSORT table is ordered by hash
  bytes, which model values do not have.
- Spec 4.3 puts the simulation phases between the sanity checks and the
  admission. They only add suspension points, so the window between the
  check and the admission that the model keeps is the smallest one the
  code has.

## 3. Runs

| Run | Config | Checks | Shows |
|---|---|---|---|
| memory_mempool | `MCMemoryMempool.cfg` | `SortLaw`, `SenderCountMatchesList`, `IndexConsistency`, `AbstractSpec` | The in-memory indices never hold a missing or dangling entry. Every call is a step of the Mempool contract: in particular, `remove_by_entity` walks the entity index and removes exactly the pooled operations that name the entity. `get_sorted` returns, and whatever order it gets the operations in, hands them out by the law of spec 8.3. The count `verify_sender` tests and the list it indexes agree. |
| db_mempool | `MCDatabaseMempool.cfg` | `TypeOK`, `SortLaw`, `SenderCountMatchesList`, `IndexConsistency` | The MDBX index tables stay consistent, including when a transaction in `remove_by_entity`'s loop fails. `get_sorted` and the sender count and listing behave as in memory. |
| db_mempool_clear | `MCDatabaseMempoolClear.cfg` | `AbstractSpec` (expected violation) | add, then set_code_hashes, then clear. Afterwards the pool is empty, but `CodeHashes` still holds the row. |
| db_mempool_empty_code_hashes | `MCDatabaseMempoolEmptyList.cfg` | `AbstractSpec` (expected violation) | `set_code_hashes(h, [])` leaves no row, so `has_code_hashes` is false, while the in-memory backend answers true. |
| reputation_decay_liveness | `MCReputation.cfg` | `BanIsTemporary` | In a release build, a banned address that is not blacklisted becomes OK again, even after counters have wrapped and when cursor errors cut ticks short (`CursorFaults = TRUE`, keys ordered r1 before r2). |
| reputation_decay_overflow | `MCReputationDecay.cfg` | `TickDecaysAsSpecified` (expected violation) | An admin entry with uo_seen = `U64_MAX` wraps on the next tick: it decays to 41 where (1023·23)/24 = 980. |
| validation_sequential | `MCValidation.cfg` | `UnstakedSenderSingleOp`, `ReplacementMonotonic` | One validation at a time, against the bundler. An unstaked sender never has two pooled operations. Each admitted replacement has a strictly higher tip and an equal uplift over the operation it evicts. |
| validation_index_panic | `MCValidationIndex.cfg` | `NoIndexPanic` (expected violation) | For example, h1 is admitted, and then submitted again. At line 238 the count is 1. The bundler removes h1 during `get_deposit_info`, then `[0]` indexes an empty Vec. |
| validation_underflow_panic | `MCValidationUnderflow.cfg` | `NoUnderflowPanic` (expected violation) | For example, h3 (tip 2) is pooled, and h1 (tip 1) of the same sender is submitted. `1 - 2` underflows in U256 at line 275. |
| validation_marks_race | `MCValidationMarksRace.cfg` | `MarksKept` (expected violation) | Two tasks. t1 validates h5, whose factory a2 is staked, and records FactoryVerified. t2 then starts validating the same h5, and its insert at line 299 empties the results of h5. t1 reaches admission without its mark. |
| sanity_throttle_sequential | `MCSanityChecks.cfg` | `ThrottledWithinLimit` | One validation at a time. A throttled entity ends up named by at most `THROTTLED_ENTITY_MEMPOOL_COUNT` pooled operations. The check counts sender and entity roles separately, and it overcounts an operation that names the entity twice, which is safe. |

The traces quoted for the panic runs are the ones a single TLC worker
prints. With more workers, TLC may print another trace of the same length
that pools another operation of a1 (h3 or h4).

**Bounds.**

- The mempool instances use four operations over two addresses. Between
  them they cover every shape `get_entities` can return: a factory only, a
  paymaster only, one address as both factory and paymaster, no optional
  entity, and an address that is the sender of one operation and an entity
  of another.
- There are two code-hash values. `set_code_hashes` is called with lists of
  zero, one and two entries.
- All subsets of the pool are reachable (7,936 states in memory, 3,645 in
  the database), so every interleaving of calls up to that size is covered.
- The reputation instance uses 10-bit counters. A counter at the maximum
  (1023) overflows ×23 as u64::MAX does. Small counters (≤ 44) do not,
  which is also true of real counters in practice.
- The slacks are scaled down (denominator 2, throttling slack 0, ban slack
  1) so that BANNED is reached with a few writes. `MaxCalls = 3` bounds the
  writes.
- The validation instance has seven operations. Four belong to one
  unstaked sender: a base operation, a valid replacement, one with another
  nonce and the base's uplift, and one whose max-fee difference is below
  the replacement's. Together they reach every outcome of `verify_sender`:
  count 0, staked, Ok replacement, rejection, and both panics. There is
  also a deployment through a staked factory, an operation by the staked
  sender, and one that underpays pre-verification gas. `estimate_gas` and
  `get_gas_price` each have one reply that fails the check. Every action
  fires (18,752 states with one task).
- Passing runs use one task. This isolates what the pipeline guarantees
  sequentially. `validation_marks_race` uses two tasks, which is what the
  race needs: two validations of one operation in flight. No run pits two
  tasks against the pool counts. What follows such a race depends on the
  admission, which is not in `src/`. Spec 5 says the admission re-checks
  the state atomically, and the spec-modelled `Admit` has no re-check. A
  two-task run would show the model's admission, not the code (hazards
  at `sanity_check.rs:237` and `entities.rs:75` in `PROJECT.json`).
- `SanityChecks` uses a throttling limit of 2, not 4, and three
  operations name the throttled entity. With two base fees, the effective
  price changes between the simulation and `get_block`.

**Fairness.** The reputation `Spec` has `WF_vars(TickAll)`. The pool
builder registers a timer that calls the tick every reputation interval for
as long as its task runs (spec 4.2, 4.5), so a tick cannot stay enabled
forever without happening. That the tick is a whole walk infinitely often
is an assumption on the store: a cursor read of MDBX that fails at every
tick would keep the rows after it from ever decaying, and the code neither
retries nor reports it (the hazard at `reputation.rs:53`). No other action is assumed fair: clients, admins and
the bundler may stop at any time. `Validation` and `SanityChecks` have no
fairness, because their properties are all safety properties.

**Deadlock.** Deadlock checking is on in every run. An idle task can
always start a new validation, and the reputation model can always tick
or clear.

## 4. Findings

1. **`DatabaseMempool::clear` does not clear `CodeHashes`**
   (`database/mempool.rs:363`). The in-memory `clear` empties all four
   maps, and the spec requires all four to stay consistent across `clear`.
   After a database clear, `has_code_hashes`/`get_code_hashes` still answer
   for a hash that is no longer pooled. Because hashes are
   content-addressed, re-adding the same operation makes the stale code
   hashes look like its own.
2. **Empty code-hash list.** On the database backend, `set_code_hashes(h, [])`
   writes no row, so `has_code_hashes(h)` is false. The in-memory backend
   stores `[]` and answers true.
3. **u64 overflow in the reputation tick** (`database/reputation.rs:55`).
   `ent.uo_seen * 23 / 24` overflows above u64::MAX/23.
   `set_reputation` can put such a value, and so can the saturating
   increments the spec requires. A release build wraps the product, so the
   counter collapses to a small value. In a build with overflow checks
   the product panics instead. `Reputation` models that panic, and
   `TickDecaysWithOverflowChecks` relies on it, but no run checks a build
   with overflow checks.
4. **Index panic in `verify_sender`** (`sanity_check.rs:274`). The count
   is read at line 238, and the lock is released before the
   `get_deposit_info` await. If the sender's operations are bundled or
   removed meanwhile, `get_all_by_sender(..)[0]` panics. Spec 6 says that
   admission-path failures never abort.
5. **U256 underflow in `verify_sender`** (`sanity_check.rs:275`, `282`).
   `fee_per_gas_diff` is subtracted before the comparison. A resubmission
   with a lower tip panics instead of failing with `SenderVerification`.
   So does one with a higher tip and a lower max fee (line 282, reached
   through `&&`).
6. **A second validation of the same operation wipes the first one's
   marks** (`sanity_check.rs:299`). `validate_user_operation` starts by
   inserting an empty result set for the hash. A validation of the same
   operation started while another awaits a provider call discards the
   FactoryVerified (or PaymasterVerified, SenderVerified) the other
   recorded. The other then reaches admission without the record that the
   comment at line 307 keeps for the later simulation.

## 5. Proofs

`MemoryMempoolProofs` proves the following for every set of hashes,
addresses, operations and code hashes. The only assumptions are
`UoAssumption` (each hash maps to a well-formed operation record),
`CodeHashInputsAssumption`, and, for `SortLawHolds`, `HashesAssumption`
(the set of hashes is finite).

- `TypeCorrect`: `Spec => []TypeOK`.
- `IndicesConsistent`: `Spec => []IndexConsistency`. The inductive
  invariant is `TypeOK /\ IndexConsistency`: the type invariant is needed
  to know that the indices are functions on `Addrs` and that the entities
  of a stored hash are addresses. The lemma `RemoveAllConsistent` carries
  the step shared by `remove` and `remove_by_entity`.
- `ImplementsMempool`: `Spec => AbstractSpec`. The initial state maps to
  the abstract initial state. Each `add`, `set_code_hashes` and `clear` maps
  to its abstract action. `remove` maps to `Remove`, or to a stutter on
  NotFound. `remove_by_entity(e)` maps to `RemoveByEntity(e)`, because by
  `IndexConsistency` the entity index of `e` is exactly the set of pooled
  operations naming `e`. That is why the refinement needs the invariant.

`ValidationProofs` proves the following for every set of tasks, hashes,
addresses, gas values and prices allowed by `ValidationAssumption`:

- `TypeCorrect`: `Spec => []TypeOK`, for any number of tasks.
- `SequentialSingleOp`: `SingleTask => (Spec => []UnstakedSenderSingleOp)`.
- `SequentialReplacementMonotonic`:
  `SingleTask => (Spec => ReplacementMonotonic)`, the action property.

`SingleTask` says that all tasks are equal, so at most one validation is
in flight. That is the configuration of the `validation_sequential` run.
With two tasks, both need an admission that re-checks the pool (spec 5),
and the modelled `Admit` does not re-check. Both theorems rest on the
inductive invariant
`IInv == TypeOK /\ SingleOp /\ AdmitSafe /\ AdmitReplaces`.
Its parts besides the type are:

- `SingleOp` is the cardinality-free form of `UnstakedSenderSingleOp`:
  two pooled operations of an unstaked sender are equal. The lemma
  `AtMostOne` turns it into the cardinality bound.
- `AdmitSafe` is the strengthening the property needs. A task at
  `"admit"` for an unstaked sender only meets pooled operations of that
  sender with its own nonce. So the admission, which evicts the same
  slot, leaves one. `AdmitSafe` holds at `"admit"` because `MaxFee`
  admits only when the sender had no operation, and `SenderPrev` only
  when its replacement rule holds. `Replaces` demands an equal nonce.
  With one task, nothing changes the pool between those steps and the
  admission except the bundler, and the bundler only removes.
- `AdmitReplaces` says that a task at `"admit"` for an unstaked sender
  `Replaces` every pooled operation of that sender. `SenderPrev` checks
  `Replaces` against the one operation it read, which `SingleOp` makes
  the only one. `MaxFee` admits only into an empty slot. Between the
  check and the admission, only the bundler can change the pool, and it
  only removes. So each step that evicts an operation at `Admit` meets
  the higher tip and the equal uplift that `ReplacementMonotonic`
  demands. The step from the invariant to the action property needs no
  fact about `Next`.

`SanityChecksProofs` proves, under `SanityChecksAssumption` (which
includes that `Hashes` is finite, so the counts are cardinalities of
finite sets):

- `TypeCorrect`: `Spec => []TypeOK`, for any number of tasks.
- `SequentialThrottledWithinLimit`:
  `SingleTask => (Spec => []ThrottledWithinLimit)`.

The inductive invariant is `TypeOK /\ ThrottledWithinLimit /\ AdmitRoom`.
`AdmitRoom` says that a task at `"admit"` saw each of its throttled
entities named by fewer than the limit. The lemma `EntitiesRoom` derives
this from `check_throttled`'s `>=` test, through `NamingBelowCount`. That
lemma says the operations naming an address are at most the sum of the
sender and entity counts the code compares. `AdmitWithin` shows that the
admission adds at most the admitted operation to each entity's count.
The bundler's removal only shrinks the counts (`ShrinkStep`). The
invariant needs one task. With two tasks, both can pass the check before
either is admitted. Whether both are then admitted depends on the
admission's re-check, which is not in `src/`.

`DatabaseMempoolProofs` proves, under `UoAssumption` and
`CodeHashInputsAssumption`:

- `TypeCorrect`: `Spec => []TypeOK`.
- `IndicesConsistent`: `Spec => []IndexConsistency`, with `TxMayFail`
  either way. The inductive invariant is again `TypeOK /\
  IndexConsistency`. The lemmas `SenderRowsMinus`, `EntityRowsMinus` and
  `EntityRowsPlus` say how the row sets of the index tables change when
  operations are deleted or added; `SenderRowsMinus` needs that distinct
  hashes give distinct (sender, hash) rows. `RemoveAllConsistent` covers
  every set of removed hashes, so it covers the committed prefix of a
  `remove_by_entity` whose later transaction failed.

Both mempool proof modules also prove `SenderCountsAgree`:
`Spec => []SenderCountMatchesList`, from `IndexConsistency`, since every
hash of a consistent sender index has its operation.

Both also prove `SortLawHolds`: `Spec => []SortLaw`. The lemma
`SortLawOfPool` shows that `TypeOK` implies `SortLaw`, so no further
invariant is needed. It has two halves:

- Every result is in order. `CompareInOrder` shows that
  `SortCompare(a, b) # "Greater"` is exactly the order of spec 8.3.
- A result exists. This is `SortedArrangementExists` of
  `SortOrderProofs`, for every finite set of operations. It uses no
  induction. It numbers the set by a bijection from
  `1..Cardinality(P)`, which `FS_CardinalityType` provides. Ties in tip
  and nonce are broken by that number, giving a strict total order
  `Before`. Each operation is ranked by the number of operations before
  it, plus one. The ranks are injective, so `FS_Injection` makes them a
  bijection onto `1..Cardinality(P)`. Putting the operation of rank `i`
  at position `i` gives the sorted arrangement.

The pool is finite by `HashesAssumption` in `UserOperation`.

`ReputationProofs` proves, under `ReputationAssumption`, for every
`U64_MAX`, set of addresses and slack:

- `TypeCorrect`: `Spec => []TypeOK`. `TickType` shows that a tick over
  any walked subset of the rows keeps the types, which covers both the
  whole walk and a walk cut short by a cursor error.
- `TickDecaysWithOverflowChecks`:
  `OverflowChecks /\ ~CursorFaults => (Spec => TickDecaysAsSpecified)`.
  Without overflow the u64 product is the product (`NoOverflowDecay`), and
  with overflow checks an overflow panics before the commit, so a tick
  that changes the table is exactly spec 8.5's decay. The width is the
  constant `U64_MAX` rather than `2^64 - 1` so that the provers need no
  induction over exponents. The release-build wrap
  (`reputation_decay_overflow`) and a cut walk are the two ways the code
  departs from the law, and the theorem's hypotheses exclude exactly
  those.

Left to TLC: the liveness property `BanIsTemporary` (TLAPS does not reason
about fairness or ENABLED), the refinement of the MDBX
backend (which does not hold: findings 1 and 2), and `MarksKept`, which
fails with two tasks (finding 6). With one task it holds by the shape of
`Start` and `Mark`, so it is not stated as a theorem.

## 6. Plan

1. *(done)* Mempool contract, both backends, and their refinement or
   divergence. Reputation table and decay.
2. *(done)* `Validation` (the sanity-check service) and `SanityChecks`
   (the entity and call-gas checks), as concurrent tasks.
3. *(done)* Proofs: `Validation`'s `UnstakedSenderSingleOp` and
   `ReplacementMonotonic` for one task; `SanityChecks`' `ThrottledWithinLimit` for
   one task; `DatabaseMempool`'s `IndexConsistency`; the sender count and
   listing of both backends; the reputation type invariant and
   `TickDecaysAsSpecified` under overflow checks.
4. *(done)* `get_sorted` of both backends against the sort law (spec 8.3).
5. Read failures of the MDBX getters (`unwrap_or(0)`, `unwrap_or_else(vec![])`)
   as a fault of `Validation` and `SanityChecks`: a count read as 0 lets an
   unstaked sender's second operation and a throttled entity's extra one
   through (hazards in `PROJECT.json`).
6. Reputation as a variable of `SanityChecks`, so that a ban or throttle
   can arrive between the check and the admission.

## 7. Not modelled

- The RPC binary, the storage example and the crate roots: I/O, start-up
  and re-exports, with no state of their own.
- The simulation and trace checks (spec Phase B/C) and the UoPool facade:
  they are not in `src/`. The admission and the bundler's removals are
  modelled from the spec, as the writers that the validation races with.
- `calculate_call_gas_limit` is not in `src/`. `SanityChecks` computes the
  floor from spec 4.3 rule 4, but no property states whether it can
  underflow, because its arithmetic cannot be checked against code. The
  hazard is listed in `PROJECT.json`.
- The getters that only read one map and that no check relies on (`get`,
  `get_all`, `get_code_hashes`, the reputation table's `get_entry` and
  `get_all`): they return what the state holds, and no property tells
  them apart from the state itself.
- A failed read transaction of the MDBX getters: a property about it needs
  the validation models to read through a backend, and a run of its own.
- Hash computation: a hash is a model value, and content addressing is
  captured by `Uo` being a function of it.
