------------------------- MODULE SwapOutcomesProofs -------------------------
(***************************************************************************)
(* What SwapOutcomes means for operator and chain, for any trades and      *)
(* rules.  Whatever implements it inherits these facts.                    *)
(***************************************************************************)
EXTENDS SwapOutcomes, TLAPS

\* One trade at a time is on its way to the chain.
OnePending == \A s, t \in Swaps : ledger[s] = "pending" /\ ledger[t] = "pending" => s = t

\* No rule trades again before its last trade is settled.
OneUnsettledPerRule ==
    \A s, t \in Swaps : Unsettled(s) /\ Unsettled(t) /\ owner[s] = owner[t] => s = t

\* What the operator is told as settled is what happened.
LedgerTrue ==
    \A s \in Swaps :
        /\ ledger[s] = "none" => fate[s] = "absent"
        /\ ledger[s] = "submitted" => fate[s] = "success"
        /\ ledger[s] = "failed" => fate[s] # "success"

\* A settled trade stays as it is, on the chain too, and none happens twice.
Final ==
    \A s \in Swaps :
        /\ ledger[s] \in {"submitted", "failed"} =>
             ledger'[s] = ledger[s] /\ fate'[s] = fate[s] /\ owner'[s] = owner[s]
        /\ fate[s] # "absent" => fate'[s] = fate[s]

IInv == TypeOK /\ OnePending /\ OneUnsettledPerRule /\ LedgerTrue

LEMMA InitInv == Init => IInv
  BY DEF Init, IInv, TypeOK, OnePending, OneUnsettledPerRule, LedgerTrue, Unsettled

\* Only a rule without an unsettled trade opens one, and only while none is pending.
LEMMA BeginInv == ASSUME IInv, NEW s \in Swaps, NEW u \in Rules, Begin(s, u) PROVE IInv'
  <1>1. /\ ledger' = [ledger EXCEPT ![s] = "pending"] /\ owner' = [owner EXCEPT ![s] = u]
        /\ fate' = fate /\ ledger[s] = "none"
        /\ \A t \in Swaps : ledger[t] # "pending"
        /\ \A t \in Swaps : Unsettled(t) => owner[t] # u
    BY DEF Begin
  <1>2. TypeOK /\ TypeOK'
    BY <1>1 DEF IInv, TypeOK
  <1>3. /\ ledger'[s] = "pending" /\ owner'[s] = u
        /\ \A t \in Swaps : t # s => ledger'[t] = ledger[t] /\ owner'[t] = owner[t]
    BY <1>1, <1>2 DEF TypeOK
  <1>4. OnePending'
    BY <1>1, <1>3 DEF OnePending
  <1>5. OneUnsettledPerRule'
    BY <1>1, <1>3 DEF IInv, OneUnsettledPerRule, Unsettled
  <1>6. LedgerTrue'
    BY <1>1, <1>3 DEF IInv, LedgerTrue
  <1> QED
    BY <1>2, <1>4, <1>5, <1>6 DEF IInv

\* The other steps only bring trades nearer to their end.
LEMMA OutcomeInv ==
    ASSUME IInv, NEW s \in Swaps,
           \/ \E outcome \in {"success", "failure"} : Execute(s, outcome)
           \/ Settle(s) \/ Refuse(s) \/ Park(s)
    PROVE  IInv'
  <1>1. TypeOK /\ TypeOK' /\ owner' = owner
    BY DEF IInv, TypeOK, Execute, Settle, Refuse, Park
  <1>2. /\ \A t \in Swaps : t # s => ledger'[t] = ledger[t] /\ fate'[t] = fate[t]
        /\ ledger'[s] = "pending" => ledger[s] = "pending"
        /\ Unsettled(s)' => Unsettled(s)
        /\ ledger'[s] # "none" /\ ledger[s] # "none"
        /\ ledger'[s] = "submitted" => fate'[s] = "success"
        /\ ledger'[s] = "failed" => fate'[s] # "success"
    BY <1>1 DEF TypeOK, Execute, Settle, Refuse, Park, Unsettled
  <1>3. OnePending'
    BY <1>2 DEF IInv, OnePending
  <1>4. OneUnsettledPerRule'
    BY <1>1, <1>2 DEF IInv, OneUnsettledPerRule, Unsettled
  <1>5. LedgerTrue'
    BY <1>2 DEF IInv, LedgerTrue
  <1> QED
    BY <1>1, <1>3, <1>4, <1>5 DEF IInv

LEMMA StepInv == IInv /\ [Next]_vars => IInv'
  <1> SUFFICES ASSUME IInv, [Next]_vars PROVE IInv'
    OBVIOUS
  <1>1. CASE UNCHANGED vars
    BY <1>1 DEF vars, IInv, TypeOK, OnePending, OneUnsettledPerRule, LedgerTrue, Unsettled
  <1> QED
    BY <1>1, BeginInv, OutcomeInv DEF Next

\* At most one trade is pending, at most one per rule is unsettled, and a settled trade
\* is what the chain did with it.
THEOREM PromiseMeans == Spec => [](OnePending /\ OneUnsettledPerRule /\ LedgerTrue)
  <1>1. IInv => OnePending /\ OneUnsettledPerRule /\ LedgerTrue
    BY DEF IInv
  <1> QED
    BY <1>1, InitInv, StepInv, PTL DEF Spec

\* What is settled is never touched again, and what the chain did is not undone.
THEOREM PromiseIsFinal == Spec => [][Final]_vars
  <1>1. ASSUME TypeOK, LedgerTrue, [Next]_vars PROVE [Final]_vars
    <2>1. CASE UNCHANGED vars
      BY <2>1
    <2>2. ASSUME NEW s \in Swaps, NEW u \in Rules, Begin(s, u) PROVE Final
      BY <1>1, <2>2 DEF TypeOK, LedgerTrue, Begin, Final
    <2>3. ASSUME NEW s \in Swaps, Settle(s) \/ Refuse(s) \/ Park(s) PROVE Final
      BY <1>1, <2>3 DEF TypeOK, Settle, Refuse, Park, Unsettled, Final
    <2>4. ASSUME NEW s \in Swaps, NEW outcome \in {"success", "failure"}, Execute(s, outcome)
          PROVE  Final
      BY <1>1, <2>4 DEF TypeOK, Execute, Final
    <2> QED
      BY <1>1, <2>1, <2>2, <2>3, <2>4 DEF Next
  <1>2. IInv => TypeOK /\ LedgerTrue
    BY DEF IInv
  <1> QED
    BY <1>1, <1>2, InitInv, StepInv, PTL DEF Spec
=============================================================================
