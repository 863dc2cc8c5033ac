-------------------------- MODULE ValidationProofs --------------------------
(***************************************************************************)
(* Proofs about the sanity-check service, for every instance: the type     *)
(* invariant for any number of tasks, and, when validations run one at a   *)
(* time, the one-operation rule for unstaked senders and the monotonicity *)
(* of replacements.                                                        *)
(***************************************************************************)
EXTENDS Validation, FiniteSetTheorems, TLAPS

\* The record fields the pipeline reads, for every hash.
LEMMA UoFields ==
  ASSUME NEW h \in Hashes
  PROVE  /\ Sender(h) \in Addrs
         /\ Uo[h].nonce \in Nat /\ Uo[h].tip \in Nat /\ Uo[h].maxFee \in Nat
BY UoAssumption DEF Sender, UoRecords

-----------------------------------------------------------------------------
(* Type correctness. *)

Labels == {"idle", "admit"} \cup Awaits

LEMMA InitTypeOK == Init => TypeOK
BY ValidationAssumption DEF Init, TypeOK

\* Every label a step moves a task to is a label.
LEMMA AfterFactoryLabel ==
  ASSUME NEW h \in Hashes PROVE AfterFactory(h) \in Labels
BY DEF AfterFactory, Labels, Awaits

LEMMA NextTypeOK == TypeOK /\ [Next]_vars => TypeOK'
<1> SUFFICES ASSUME TypeOK, [Next]_vars PROVE TypeOK'
  OBVIOUS
<1>1. ASSUME NEW t \in Tasks, NEW h \in Hashes, Start(t, h) PROVE TypeOK'
  BY <1>1 DEF Start, Goto, TypeOK, Awaits
<1>2. ASSUME NEW t \in Tasks, SenderCode(t) PROVE TypeOK'
  BY <1>2, AfterFactoryLabel DEF SenderCode, Goto, TypeOK, Labels, Awaits
<1>3. ASSUME NEW t \in Tasks, FactoryDeposit(t) PROVE TypeOK'
  BY <1>3, AfterFactoryLabel DEF FactoryDeposit, MarkIf, Mark, Goto, TypeOK, Labels, Marks
<1>4. ASSUME NEW t \in Tasks, PaymasterCode(t) PROVE TypeOK'
  BY <1>4 DEF PaymasterCode, Goto, TypeOK, Awaits
<1>5. ASSUME NEW t \in Tasks, PaymasterDeposit(t) PROVE TypeOK'
  BY <1>5 DEF PaymasterDeposit, MarkIf, Mark, Goto, TypeOK, Awaits, Marks
<1>6. ASSUME NEW t \in Tasks, CallGas(t) PROVE TypeOK'
  BY <1>6 DEF CallGas, Goto, TypeOK, Awaits
<1>7. ASSUME NEW t \in Tasks, MaxFee(t) PROVE TypeOK'
  BY <1>7 DEF MaxFee, Goto, TypeOK, Awaits
<1>8. ASSUME NEW t \in Tasks, SenderStaked(t) PROVE TypeOK'
  BY <1>8 DEF SenderStaked, Mark, Goto, TypeOK, Marks
<1>9. ASSUME NEW t \in Tasks, SenderGone(t) PROVE TypeOK'
  BY <1>9 DEF SenderGone, Panic, Fail, Goto, TypeOK, PanicKinds
<1>10. ASSUME NEW t \in Tasks, SenderPrev(t) PROVE TypeOK'
  BY <1>10 DEF SenderPrev, Panic, Fail, Goto, TypeOK, PanicKinds
<1>11. ASSUME NEW t \in Tasks, ProviderError(t) PROVE TypeOK'
  BY <1>11 DEF ProviderError, Fail, Goto, TypeOK
<1>12. ASSUME NEW t \in Tasks, Admit(t) PROVE TypeOK'
  BY <1>12 DEF Admit, SameSlot, Fail, Goto, TypeOK
<1>13. ASSUME NEW h \in Hashes, Bundle(h) PROVE TypeOK'
  BY <1>13 DEF Bundle, TypeOK
<1>14. ASSUME UNCHANGED vars PROVE TypeOK'
  BY <1>14 DEF vars, TypeOK
<1>. QED
  BY <1>1, <1>2, <1>3, <1>4, <1>5, <1>6, <1>7, <1>8, <1>9, <1>10, <1>11,
     <1>12, <1>13, <1>14 DEF Next

\* The type invariant of the pipeline, for any number of tasks.
THEOREM TypeCorrect == Spec => []TypeOK
BY InitTypeOK, NextTypeOK, PTL DEF Spec

-----------------------------------------------------------------------------
(* One validation at a time.  The run validation_sequential has a single *)
(* task; so do these theorems.  The invariant needs, besides the type,   *)
(* facts about the task while it is at "admit" for an unstaked sender:  *)
(* every pooled operation of the sender has its nonce (so the admission  *)
(* evicts them all), and the task's operation replaces each of them.     *)

SingleTask == \A t, u \in Tasks : t = u

SingleOp ==
  \A a \in Addrs \ Staked : \A o1, o2 \in SentBy(a, pool) : o1 = o2
AdmitSafe ==
  \A t \in Tasks :
     (pc[t] = "admit" /\ Sender(op[t]) \notin Staked) =>
        \A o \in SentBy(Sender(op[t]), pool) : Uo[o].nonce = Uo[op[t]].nonce
AdmitReplaces ==
  \A t \in Tasks :
     (pc[t] = "admit" /\ Sender(op[t]) \notin Staked) =>
        \A o \in SentBy(Sender(op[t]), pool) : Replaces(op[t], o)

IInv == TypeOK /\ SingleOp /\ AdmitSafe /\ AdmitReplaces

LEMMA AfterFactoryNotAdmit ==
  ASSUME NEW h \in Hashes PROVE AfterFactory(h) # "admit"
BY DEF AfterFactory

LEMMA InitIInv == Init => IInv
BY InitTypeOK DEF Init, IInv, SingleOp, AdmitSafe, AdmitReplaces, SentBy

\* A step that leaves pool, op, results and marks alone and moves no task to
\* "admit" keeps the invariant.
LEMMA QuietStep ==
  ASSUME IInv, TypeOK', NEW t \in Tasks, SingleTask,
         UNCHANGED <<pool, op, results, marks>>, pc'[t] # "admit"
  PROVE  IInv'
BY DEF IInv, SingleOp, AdmitSafe, AdmitReplaces, SingleTask, SentBy

\* A step that records m for task t, leaving pool and op alone and moving
\* no task to "admit", keeps the invariant.
LEMMA MarkStep ==
  ASSUME IInv, TypeOK', NEW t \in Tasks, SingleTask, NEW m,
         UNCHANGED <<pool, op>>, pc'[t] # "admit", Mark(t, m)
  PROVE  IInv'
BY DEF IInv, SingleOp, AdmitSafe, AdmitReplaces, SingleTask, SentBy,
   Mark, TypeOK

LEMMA NextIInv == SingleTask /\ IInv /\ [Next]_vars => IInv'
<1> SUFFICES ASSUME SingleTask, IInv, [Next]_vars PROVE IInv'
  OBVIOUS
<1>0. TypeOK'
  BY NextTypeOK DEF IInv
<1>1. ASSUME NEW t \in Tasks, NEW h \in Hashes, Start(t, h) PROVE IInv'
  BY <1>0, <1>1 DEF Start, Goto, IInv, SingleOp, AdmitSafe, AdmitReplaces, SingleTask, SentBy, TypeOK
<1>2. ASSUME NEW t \in Tasks, SenderCode(t) PROVE IInv'
  <2>1. pc'[t] # "admit"
    BY <1>2, AfterFactoryNotAdmit DEF SenderCode, Goto, IInv, TypeOK
  <2> QED
    BY <1>0, <1>2, <2>1, QuietStep DEF SenderCode
<1>3. ASSUME NEW t \in Tasks, FactoryDeposit(t) PROVE IInv'
  <2>1. pc'[t] # "admit"
    BY <1>3, AfterFactoryNotAdmit DEF FactoryDeposit, Goto, IInv, TypeOK
  <2>2. CASE Uo[op[t]].factory \in Staked
    BY <1>0, <1>3, <2>1, <2>2, MarkStep DEF FactoryDeposit, MarkIf
  <2>3. CASE Uo[op[t]].factory \notin Staked
    BY <1>0, <1>3, <2>1, <2>3, QuietStep DEF FactoryDeposit, MarkIf
  <2> QED
    BY <2>2, <2>3
<1>4. ASSUME NEW t \in Tasks, PaymasterCode(t) PROVE IInv'
  <2>1. pc'[t] # "admit"
    BY <1>4 DEF PaymasterCode, Goto, IInv, TypeOK
  <2> QED
    BY <1>0, <1>4, <2>1, QuietStep DEF PaymasterCode
<1>5. ASSUME NEW t \in Tasks, PaymasterDeposit(t) PROVE IInv'
  <2>1. pc'[t] # "admit"
    BY <1>5 DEF PaymasterDeposit, Goto, IInv, TypeOK
  <2> DEFINE pm == Uo[op[t]].paymaster
  <2>2. CASE Deposit[pm] > Uo[op[t]].maxFee /\ pm \notin Banned
    BY <1>0, <1>5, <2>1, <2>2, MarkStep DEF PaymasterDeposit, MarkIf
  <2>3. CASE ~(Deposit[pm] > Uo[op[t]].maxFee /\ pm \notin Banned)
    BY <1>0, <1>5, <2>1, <2>3, QuietStep DEF PaymasterDeposit, MarkIf
  <2> QED
    BY <2>2, <2>3
<1>6. ASSUME NEW t \in Tasks, CallGas(t) PROVE IInv'
  <2>1. pc'[t] # "admit"
    BY <1>6 DEF CallGas, Goto, IInv, TypeOK
  <2> QED
    BY <1>0, <1>6, <2>1, QuietStep DEF CallGas
<1>7. ASSUME NEW t \in Tasks, ProviderError(t) PROVE IInv'
  <2>1. pc'[t] # "admit"
    BY <1>7 DEF ProviderError, Fail, Goto, IInv, TypeOK
  <2> QED
    BY <1>0, <1>7, <2>1, QuietStep DEF ProviderError
<1>8. ASSUME NEW t \in Tasks, MaxFee(t) PROVE IInv'
  <2>1. pc'[t] = "admit" => SentBy(Sender(op[t]), pool) = {}
    BY <1>8 DEF MaxFee, Goto, IInv, TypeOK
  <2> QED
    BY <1>0, <1>8, <2>1 DEF MaxFee, IInv, SingleOp, AdmitSafe, AdmitReplaces, SingleTask
<1>9. ASSUME NEW t \in Tasks, SenderStaked(t) PROVE IInv'
  BY <1>0, <1>9 DEF SenderStaked, Mark, Goto, IInv, SingleOp, AdmitSafe,
     AdmitReplaces, SingleTask, TypeOK
<1>10. ASSUME NEW t \in Tasks, SenderGone(t) PROVE IInv'
  <2>1. pc'[t] # "admit" /\ UNCHANGED <<pool, op, results, marks>>
    BY <1>10 DEF SenderGone, Panic, Fail, Goto, IInv, TypeOK
  <2> QED
    BY <1>0, <2>1, QuietStep
<1>11. ASSUME NEW t \in Tasks, SenderPrev(t) PROVE IInv'
  <2> DEFINE h == op[t]
  <2>1. PICK prev \in SentBy(Sender(h), pool) :
          IF TipUnderflow(h, prev) \/ FeeUnderflow(h, prev)
            THEN Panic(t, "underflow")
            ELSE /\ Goto(t, IF Replaces(h, prev) THEN "admit" ELSE "idle")
                 /\ UNCHANGED <<pool, results, op, marks, panics>>
    BY <1>11 DEF SenderPrev
  <2>2. UNCHANGED <<pool, op, results, marks>>
    BY <2>1 DEF Panic
  <2>3. pc'[t] = "admit" => Replaces(h, prev)
    BY <2>1 DEF Panic, Fail, Goto, IInv, TypeOK
  <2>4. Sender(h) \notin Staked
    BY <1>11 DEF SenderPrev
  <2>5. \A o \in SentBy(Sender(h), pool) : o = prev
    BY <2>1, <2>4, UoFields DEF IInv, SingleOp, TypeOK
  <2>6. pc'[t] = "admit" => \A o \in SentBy(Sender(h), pool) : Uo[o].nonce = Uo[h].nonce
    BY <2>3, <2>5 DEF Replaces
  <2>7. pc'[t] = "admit" => \A o \in SentBy(Sender(h), pool) : Replaces(h, o)
    BY <2>3, <2>5
  <2> QED
    BY <1>0, <2>2, <2>6, <2>7 DEF IInv, SingleOp, AdmitSafe, AdmitReplaces, SingleTask
<1>12. ASSUME NEW t \in Tasks, Admit(t) PROVE IInv'
  <2> DEFINE h == op[t]
  <2>1. SingleOp'
    <3> SUFFICES ASSUME NEW a \in Addrs \ Staked, NEW o1 \in SentBy(a, pool'),
                        NEW o2 \in SentBy(a, pool')
                 PROVE  o1 = o2
      BY DEF SingleOp
    <3>1. CASE a = Sender(h)
      <4>1. \A o \in SentBy(a, pool) : o \in SameSlot(h, pool)
        BY <1>12, <3>1 DEF Admit, IInv, AdmitSafe, SameSlot, SentBy
      <4>2. SentBy(a, pool') = {h}
        BY <1>12, <3>1, <4>1 DEF Admit, SentBy, SameSlot
      <4> QED
        BY <4>2
    <3>2. CASE a # Sender(h)
      <4>1. SentBy(a, pool') \subseteq SentBy(a, pool)
        BY <1>12, <3>2 DEF Admit, SentBy
      <4> QED
        BY <4>1 DEF IInv, SingleOp
    <3> QED
      BY <3>1, <3>2
  <2>2. AdmitSafe'
    BY <1>12 DEF Admit, Fail, Goto, AdmitSafe, SingleTask, IInv, TypeOK
  <2>4. AdmitReplaces'
    BY <1>12 DEF Admit, Fail, Goto, AdmitReplaces, SingleTask, IInv, TypeOK
  <2> QED
    BY <1>0, <2>1, <2>2, <2>4 DEF IInv
<1>13. ASSUME NEW h \in Hashes, Bundle(h) PROVE IInv'
  BY <1>0, <1>13 DEF Bundle, IInv, SingleOp, AdmitSafe, AdmitReplaces, SentBy
<1>14. ASSUME UNCHANGED vars PROVE IInv'
  BY <1>14 DEF vars, IInv, TypeOK, SingleOp, AdmitSafe, AdmitReplaces, SentBy
<1>. QED
  BY <1>1, <1>2, <1>3, <1>4, <1>5, <1>6, <1>7, <1>8, <1>9, <1>10, <1>11,
     <1>12, <1>13, <1>14 DEF Next

\* A set of pooled operations any two of which are equal has at most one.
LEMMA AtMostOne ==
  ASSUME NEW S, \A x, y \in S : x = y
  PROVE  Cardinality(S) <= 1
<1>1. CASE S = {}
  BY <1>1, FS_EmptySet
<1>2. CASE S # {}
  <2>1. PICK x \in S : TRUE
    BY <1>2
  <2>2. S = {x}
    BY <2>1
  <2> QED
    BY <2>2, FS_Singleton
<1> QED
  BY <1>1, <1>2

LEMMA SequentialIInv == SingleTask => (Spec => []IInv)
<1> SUFFICES ASSUME SingleTask PROVE Spec => []IInv
  OBVIOUS
<1>1. IInv /\ [Next]_vars => IInv'
  BY NextIInv
<1> QED
  BY <1>1, InitIInv, PTL DEF Spec

\* When one validation runs at a time, an unstaked sender never has two
\* operations in the mempool: verify_sender's count read and its
\* replacement rule, with the admission evicting the replaced operation,
\* keep the pool at one operation per unstaked sender.
THEOREM SequentialSingleOp == SingleTask => (Spec => []UnstakedSenderSingleOp)
<1>1. IInv => UnstakedSenderSingleOp
  <2> SUFFICES ASSUME IInv, NEW a \in Addrs \ Staked
               PROVE  Cardinality(SentBy(a, pool)) <= 1
    BY DEF UnstakedSenderSingleOp
  <2> QED
    BY AtMostOne DEF IInv, SingleOp
<1> QED
  BY <1>1, SequentialIInv, PTL

\* When one validation runs at a time, every admission of an unstaked
\* sender's operation that evicts another has a strictly higher tip and the
\* same uplift of max_fee_per_gas as the evicted one: verify_sender's
\* replacement test, made against the operation read from the pool, still
\* holds of every operation of the sender in the pool when the admission
\* runs.
THEOREM SequentialReplacementMonotonic ==
  SingleTask => (Spec => ReplacementMonotonic)
<1> SUFFICES ASSUME SingleTask PROVE Spec => ReplacementMonotonic
  OBVIOUS
<1>1. ASSUME IInv, NEW t \in Tasks, Admit(t), Sender(op[t]) \notin Staked,
             NEW o \in SameSlot(op[t], pool) \ {op[t]}
      PROVE  /\ Uo[op[t]].tip > Uo[o].tip
             /\ Uo[op[t]].maxFee - Uo[o].maxFee = Uo[op[t]].tip - Uo[o].tip
  <2>1. o \in SentBy(Sender(op[t]), pool)
    BY <1>1 DEF SameSlot, SentBy
  <2> QED
    BY <1>1, <2>1 DEF Admit, IInv, AdmitReplaces, Replaces
<1> DEFINE Monotonic ==
      \A t \in Tasks :
         (Admit(t) /\ Sender(op[t]) \notin Staked) =>
            \A o \in SameSlot(op[t], pool) \ {op[t]} :
               /\ Uo[op[t]].tip > Uo[o].tip
               /\ Uo[op[t]].maxFee - Uo[o].maxFee = Uo[op[t]].tip - Uo[o].tip
<1>2. IInv => Monotonic
  <2> SUFFICES ASSUME IInv, NEW t \in Tasks, Admit(t), Sender(op[t]) \notin Staked,
                      NEW o \in SameSlot(op[t], pool) \ {op[t]}
               PROVE  /\ Uo[op[t]].tip > Uo[o].tip
                      /\ Uo[op[t]].maxFee - Uo[o].maxFee = Uo[op[t]].tip - Uo[o].tip
    BY DEF Monotonic
  <2> QED
    BY <1>1
<1>3. ReplacementMonotonic <=> [][Monotonic]_vars
  BY DEF ReplacementMonotonic, Monotonic
<1> QED
  BY <1>2, <1>3, SequentialIInv, PTL
=============================================================================
