-------------------------- MODULE ReputationProofs --------------------------
(***************************************************************************)
(* Proofs about the reputation table, for every set of addresses, every   *)
(* counter width and every slack: the type invariant, and that in a build  *)
(* with overflow checks every tick that commits a whole walk decays the   *)
(* table exactly as spec 8.5 says.                                         *)
(***************************************************************************)
EXTENDS Reputation, TLAPS

LEMMA InitTypeOK == Init => TypeOK
BY ReputationAssumption DEF Init, TypeOK

\* A decayed counter is a counter.
LEMMA DecayType ==
  ASSUME NEW x \in Counter
  PROVE  Decay(x) \in Counter
BY ReputationAssumption DEF Decay, Times23, Counter, MaxCounter

\* A decayed row is a row or no row.
LEMMA DecayRowType ==
  ASSUME NEW e \in Entry
  PROVE  DecayRow(e) \in Entry \cup {NONE}
BY DecayType DEF DecayRow, Entry

\* The tick transaction over walked rows of the table keeps the types.
LEMMA TickType ==
  ASSUME TypeOK, NEW walked \in SUBSET Live, Tick(walked)
  PROVE  /\ entries' \in [Addrs -> Entry \cup {NONE}]
         /\ ticker' \in {"running", "panicked"}
<1>1. CASE entries' = entries /\ ticker' = "panicked"
  BY <1>1 DEF TypeOK
<1>2. CASE entries' = [a \in Addrs |->
                        IF a \in walked THEN DecayRow(entries[a]) ELSE entries[a]]
           /\ ticker' = ticker
  <2>1. \A a \in walked : DecayRow(entries[a]) \in Entry \cup {NONE}
    BY DecayRowType DEF TypeOK, Live
  <2> QED
    BY <1>2, <2>1 DEF TypeOK, Live
<1> QED
  BY <1>1, <1>2 DEF Tick

LEMMA NextTypeOK == TypeOK /\ [Next]_vars => TypeOK'
<1> SUFFICES ASSUME TypeOK, [Next]_vars PROVE TypeOK'
  OBVIOUS
<1>1. ASSUME NEW a \in Addrs, NEW e \in Entry, Write(a, e) PROVE TypeOK'
  BY <1>1, ReputationAssumption DEF Write, TypeOK
<1>2. ASSUME NEW a \in Addrs PROVE EntryOf(a) \in Entry
  BY ReputationAssumption DEF EntryOf, TypeOK, Entry, Counter, MaxCounter
<1>3. ASSUME NEW x \in Counter PROVE SaturatingInc(x) \in Counter
  BY ReputationAssumption DEF SaturatingInc, Counter, MaxCounter
<1>4. ASSUME NEW a \in Addrs, increment_seen(a) PROVE TypeOK'
  BY <1>1, <1>2, <1>3, <1>4 DEF increment_seen, Entry
<1>5. ASSUME NEW a \in Addrs, increment_included(a) PROVE TypeOK'
  BY <1>1, <1>2, <1>3, <1>4, <1>5 DEF increment_included, Entry
<1>6. ASSUME NEW a \in Addrs, update_handle_ops_reverted(a) PROVE TypeOK'
  <2>1. entries[a] \in Entry
    BY <1>6 DEF update_handle_ops_reverted, TypeOK
  <2>2. [entries[a] EXCEPT !.uo_included = IF @ = 0 THEN 0 ELSE @ - 1] \in Entry
    BY <2>1, ReputationAssumption DEF Entry, Counter, MaxCounter
  <2> QED
    BY <1>1, <1>6, <2>2 DEF update_handle_ops_reverted
<1>7. ASSUME NEW a \in Addrs, NEW e \in AdminEntries, set_entry(a, e) PROVE TypeOK'
  BY <1>1, <1>7, ReputationAssumption DEF set_entry
<1>8. ASSUME update PROVE TypeOK'
  <2>1. CASE TickAll
    <3>1. Live \in SUBSET Live
      OBVIOUS
    <3> QED
      BY <2>1, <3>1, TickType DEF TickAll, TypeOK
  <2>2. CASE TickCut
    <3>1. PICK stop \in Live : Tick({a \in Live : Rank[a] < Rank[stop]})
      BY <2>2 DEF TickCut
    <3>2. {a \in Live : Rank[a] < Rank[stop]} \in SUBSET Live
      OBVIOUS
    <3> QED
      BY <2>2, <3>1, <3>2, TickType DEF TickCut, TypeOK
  <2> QED
    BY <1>8, <2>1, <2>2 DEF update
<1>9. ASSUME clear PROVE TypeOK'
  BY <1>9, ReputationAssumption DEF clear, TypeOK
<1>10. ASSUME UNCHANGED vars PROVE TypeOK'
  BY <1>10 DEF vars, TypeOK
<1> QED
  BY <1>4, <1>5, <1>6, <1>7, <1>8, <1>9, <1>10 DEF Next

\* The table only holds entries of two counters within u64: the saturating
\* increments, the floored decrement and the decay keep every counter in
\* range, and the writes stay within their bound.
THEOREM TypeCorrect == Spec => []TypeOK
BY InitTypeOK, NextTypeOK, PTL DEF Spec

-----------------------------------------------------------------------------
(* The decay under overflow checks. *)

\* Without overflow the u64 product is the product, so the code's decay is
\* the spec's.
LEMMA NoOverflowDecay ==
  ASSUME NEW x \in Counter, ~Overflows(x)
  PROVE  Decay(x) = SpecDecay(x)
<1>1. x * 23 \in 0..U64_MAX
  BY ReputationAssumption DEF Overflows, Counter, MaxCounter
<1>2. Times23(x) = x * 23
  BY <1>1, ReputationAssumption DEF Times23
<1> QED
  BY <1>2 DEF Decay, SpecDecay

\* A tick that changes the table, in a build with overflow checks and on a
\* store whose cursor reads do not fail.
LEMMA CommittedTick ==
  ASSUME TypeOK, OverflowChecks, ~CursorFaults, update, entries' # entries,
         NEW a \in Addrs, entries[a] # NONE
  PROVE  LET s == SpecDecay(entries[a].uo_seen)
             i == SpecDecay(entries[a].uo_included)
         IN  IF s = 0 /\ i = 0 THEN entries'[a] = NONE
             ELSE entries'[a] = [uo_seen |-> s, uo_included |-> i]
<1>1. Tick(Live)
  BY DEF update, TickAll, TickCut
<1>2. a \in Live
  BY DEF Live
<1>3. /\ entries' = [b \in Addrs |-> IF b \in Live THEN DecayRow(entries[b]) ELSE entries[b]]
      /\ ~Overflows(entries[a].uo_seen) /\ ~Overflows(entries[a].uo_included)
  BY <1>1, <1>2 DEF Tick
<1>4. entries[a] \in Entry
  BY DEF TypeOK
<1>5. /\ Decay(entries[a].uo_seen) = SpecDecay(entries[a].uo_seen)
      /\ Decay(entries[a].uo_included) = SpecDecay(entries[a].uo_included)
  BY <1>3, <1>4, NoOverflowDecay DEF Entry
<1>6. /\ Decay(entries[a].uo_seen) \in Nat
      /\ Decay(entries[a].uo_included) \in Nat
  BY <1>4, DecayType DEF Entry, Counter
<1> QED
  BY <1>2, <1>3, <1>5, <1>6 DEF DecayRow

\* In a build with overflow checks (the debug profile) and on a store whose
\* cursor reads do not fail, a reputation tick either panics before its
\* commit, leaving the table as it was, or commits every row decayed to
\* (old * 23) / 24 and deletes the rows at zero: the wrap of a release
\* build and a cursor error cutting the walk short are the only ways update
\* departs from spec 8.5.
THEOREM TickDecaysWithOverflowChecks ==
  OverflowChecks /\ ~CursorFaults => (Spec => TickDecaysAsSpecified)
<1> SUFFICES ASSUME OverflowChecks, ~CursorFaults PROVE Spec => TickDecaysAsSpecified
  OBVIOUS
<1>1. TypeOK => [ update /\ entries' # entries =>
        \A a \in Addrs :
          entries[a] # NONE =>
            LET s == SpecDecay(entries[a].uo_seen)
                i == SpecDecay(entries[a].uo_included)
            IN  IF s = 0 /\ i = 0 THEN entries'[a] = NONE
                ELSE entries'[a] = [uo_seen |-> s, uo_included |-> i] ]_vars
  BY CommittedTick
<1> QED
  BY <1>1, TypeCorrect, PTL DEF TickDecaysAsSpecified

=============================================================================
