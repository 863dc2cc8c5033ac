----------------------------- MODULE Reputation -----------------------------
(***************************************************************************)
(* The reputation engine over its database table                          *)
(* (crates/uopool/src/database/reputation.rs, and spec 4.2 for the         *)
(* Reputation wrapper that is not part of the sources).                    *)
(*                                                                         *)
(* EntitiesReputation maps an address to (uo_seen, uo_included), two u64   *)
(* counters, kept here up to U64_MAX.  The table is written by set_entry  *)
(* (admin set_reputation, and the wrapper's increments), decayed by update *)
(* (the hourly reputation tick) and emptied by clear.  The status of an    *)
(* address is derived from its entry.  update runs as a task of its own;   *)
(* in a build with overflow checks an overflowing multiplication panics    *)
(* that task, which then never ticks again.                                *)
(***************************************************************************)
EXTENDS Naturals

CONSTANTS
  Addrs,                          \* addresses with a reputation
  NONE,                           \* no entry in the table
  U64_MAX,                        \* largest counter value (2^64 - 1 in the code)
  MIN_INCLUSION_RATE_DENOMINATOR,
  THROTTLING_SLACK,
  BAN_SLACK,
  Whitelist,                      \* always OK
  Blacklist,                      \* always BANNED
  AdminEntries,                   \* (seen, included) pairs set_reputation is called with
  OverflowChecks,                 \* whether the build panics on integer overflow
  CursorFaults,                   \* whether a cursor read of the table may fail
  Rank,                           \* Rank[a]: the position of a's key in the table
  MaxCalls                        \* bound on the calls that write the table

MaxCounter == U64_MAX
Counter == 0..MaxCounter
Entry == [uo_seen : Counter, uo_included : Counter]

ASSUME ReputationAssumption ==
  /\ NONE \notin Entry
  /\ U64_MAX \in Nat \ {0}
  /\ MIN_INCLUSION_RATE_DENOMINATOR \in Nat \ {0}
  /\ THROTTLING_SLACK \in Nat /\ BAN_SLACK \in Nat
  /\ Whitelist \subseteq Addrs /\ Blacklist \subseteq Addrs
  /\ AdminEntries \subseteq Entry
  /\ OverflowChecks \in BOOLEAN
  /\ CursorFaults \in BOOLEAN
  /\ Rank \in [Addrs -> Nat]
  /\ MaxCalls \in Nat

VARIABLES
  entries,   \* entries[a]: the row of EntitiesReputation for a, or NONE
  ticker,    \* the reputation-update task: "running" or "panicked"
  calls      \* writes made so far (bounded by MaxCalls)

vars == <<entries, ticker, calls>>

TypeOK ==
  /\ entries \in [Addrs -> Entry \cup {NONE}]
  /\ ticker \in {"running", "panicked"}
  /\ calls \in 0..MaxCalls

Init ==
  /\ entries = [a \in Addrs |-> NONE]
  /\ ticker = "running"
  /\ calls = 0

\* get_status: whitelist, then blacklist, then the counters; no entry is OK.
Status(a) ==
  LET e == entries[a]
      min_expected_included == e.uo_seen \div MIN_INCLUSION_RATE_DENOMINATOR
  IN  CASE a \in Whitelist -> "OK"
        [] a \in Blacklist -> "BANNED"
        [] e = NONE -> "OK"
        [] e.uo_included + THROTTLING_SLACK >= min_expected_included -> "OK"
        [] e.uo_included + BAN_SLACK < min_expected_included -> "BANNED"
        [] OTHER -> "THROTTLED"

-----------------------------------------------------------------------------
\* The entry of a, a fresh (0, 0) one when there is none.
EntryOf(a) == IF entries[a] = NONE THEN [uo_seen |-> 0, uo_included |-> 0] ELSE entries[a]

SaturatingInc(x) == IF x = MaxCounter THEN x ELSE x + 1

Write(a, e) ==
  /\ calls < MaxCalls
  /\ entries' = [entries EXCEPT ![a] = e]
  /\ calls' = calls + 1
  /\ UNCHANGED ticker

\* increment_seen / increment_included: upsert, saturating at the maximum.
increment_seen(a) ==
  Write(a, [EntryOf(a) EXCEPT !.uo_seen = SaturatingInc(@)])
increment_included(a) ==
  Write(a, [EntryOf(a) EXCEPT !.uo_included = SaturatingInc(@)])

\* update_handle_ops_reverted: one less included, floored at zero.
update_handle_ops_reverted(a) ==
  /\ entries[a] # NONE
  /\ Write(a, [entries[a] EXCEPT !.uo_included = IF @ = 0 THEN 0 ELSE @ - 1])

\* set_entry: put the entry under the address and commit.
set_entry(a, e) == Write(a, e)

\* The u64 product x * 23: it wraps in a release build.
Times23(x) == (x * 23) % (U64_MAX + 1)
Overflows(x) == x * 23 > MaxCounter

\* Fault variant of the decay: * 24 / 24 in place of * 23 / 24.
DecayTypo(x) == (x * 24) \div 24

\* One counter decayed: ent.uo_seen * 23 / 24.
Decay(x) == Times23(x) \div 24

\* One row after the decay: ent.uo_seen * 23 / 24 and ent.uo_included * 23
\* / 24; upserted while a counter is positive, deleted otherwise.
DecayRow(e) ==
  LET d == [uo_seen |-> Decay(e.uo_seen), uo_included |-> Decay(e.uo_included)]
  IN  IF d.uo_seen > 0 \/ d.uo_included > 0 THEN d ELSE NONE

\* The transaction of update once the cursor has walked the rows in walked
\* (and no others): with overflow checks an overflowing product in one of
\* them panics the task before the commit, nothing is written and ticking
\* stops; otherwise the walked rows are decayed and committed.
Tick(walked) ==
  LET overflow == \E a \in walked : Overflows(entries[a].uo_seen)
                                    \/ Overflows(entries[a].uo_included)
  IN  \/ /\ OverflowChecks /\ overflow
         /\ ticker' = "panicked"
         /\ UNCHANGED entries
      \/ /\ ~(OverflowChecks /\ overflow)
         /\ entries' = [a \in Addrs |->
                          IF a \in walked THEN DecayRow(entries[a]) ELSE entries[a]]
         /\ UNCHANGED ticker

Live == {a \in Addrs : entries[a] # NONE}

\* update, the whole walk: cursor.next() returns every row, in key order,
\* then None.
TickAll ==
  /\ ticker = "running"
  /\ Tick(Live)
  /\ UNCHANGED calls

\* update when cursor.next() returns an error in place of the row stop:
\* `while let Ok(Some(..))` ends the loop as at the end of the table and
\* the transaction commits the rows walked before stop.
TickCut ==
  /\ ticker = "running"
  /\ CursorFaults
  /\ \E stop \in Live : Tick({a \in Live : Rank[a] < Rank[stop]})
  /\ UNCHANGED calls

update == TickAll \/ TickCut

\* clear: clear the table and commit.
clear ==
  /\ calls < MaxCalls
  /\ entries' = [a \in Addrs |-> NONE]
  /\ calls' = calls + 1
  /\ UNCHANGED ticker

Next ==
  \/ \E a \in Addrs :
       \/ increment_seen(a) \/ increment_included(a) \/ update_handle_ops_reverted(a)
       \/ \E e \in AdminEntries : set_entry(a, e)
  \/ update
  \/ clear

\* The reputation tick fires once per interval for as long as its task runs;
\* a failing cursor read is a fault of the store that does not recur at
\* every tick, so a whole walk keeps happening.
Spec == Init /\ [][Next]_vars /\ WF_vars(TickAll)

-----------------------------------------------------------------------------
(***************************************************************************)
(* BanIsTemporary: an address that is not blacklisted and is BANNED is OK  *)
(* again later.  Once the writes stop, the hourly update must bring every  *)
(* row down to zero and delete it; it fails if a tick does not decay a     *)
(* counter or if the ticking task dies.                                    *)
(***************************************************************************)
BanIsTemporary ==
  \A a \in Addrs \ Blacklist : Status(a) = "BANNED" ~> Status(a) = "OK"

(***************************************************************************)
(* TickDecaysAsSpecified (spec 8.5): a committed tick sets each counter to *)
(* (old * 23) / 24 and deletes the rows where both become zero.            *)
(***************************************************************************)
SpecDecay(x) == (x * 23) \div 24
TickDecaysAsSpecified ==
  [][ update /\ entries' # entries =>
        \A a \in Addrs :
          entries[a] # NONE =>
            LET s == SpecDecay(entries[a].uo_seen)
                i == SpecDecay(entries[a].uo_included)
            IN  IF s = 0 /\ i = 0 THEN entries'[a] = NONE
                ELSE entries'[a] = [uo_seen |-> s, uo_included |-> i] ]_vars
=============================================================================
