------------------------- MODULE KeeperTradesProofs -------------------------
(* Proofs about PriceRule and KeeperTrades. *)
EXTENDS KeeperTrades, TLAPS

\* A fall never reaches a threshold of the whole price or more: a rule "down" with
\* threshold_bps of 10000 or above, which config.py admits, never fires.
THEOREM FullFallNeverFires ==
    ASSUME NEW base \in Fractions, NEW price \in Fractions,
           NEW threshold \in Nat, threshold >= BPS
    PROVE  ~Reached("down", threshold, base, price)
  <1> DEFINE new == price.num * base.den
             old == base.num * price.den
  <1>1. new \in Nat \ {0} /\ old \in Nat \ {0}
    BY DEF Fractions
  <1>2. BPS * (new - old) = BPS * new - BPS * old /\ BPS * new > 0
    BY <1>1, PriceAssumption
  <1>3. threshold * old >= BPS * old
    BY <1>1, PriceAssumption
  <1>4. threshold * old \in Int /\ BPS * new \in Int /\ BPS * old \in Int
    BY <1>1, PriceAssumption
  <1> HIDE DEF new, old
  <1>5. ~(BPS * (new - old) <= -(threshold * old))
    BY <1>2, <1>3, <1>4
  <1> QED
    BY <1>5 DEF Reached, new, old

\* The deadline lies after the time it is counted from, also for one second, and
\* not more than the configured seconds after it.
LEMMA DeadlineAhead ==
    ASSUME NEW seconds \in Nat \ {0}, NEW base \in Int
    PROVE  base < Deadline(seconds, base) /\ Deadline(seconds, base) <= base + seconds
  BY PriceAssumption DEF Deadline, Margin

\* The vault never calls a deadline too long: neither one counted from a block time
\* that has passed, nor one counted from a clock that is ahead by no more than the
\* margin (xian_deadline, execute_swap).
THEOREM DeadlineInHorizon ==
    ASSUME NEW r \in RuleType, NEW l \in Vault!Limits, Fits(r, l),
           NEW base \in Int, NEW t \in Int,
           base <= t + Margin(r.seconds)
    PROVE  Deadline(r.seconds, base) <= t + l.horizon
  <1>1. l.horizon \in Nat
    BY TradesAssumption DEF Vault!Limits
  <1> QED
    BY <1>1, PriceAssumption DEF Deadline, Margin, Fits, RuleType

\* The minimum a fitting rule demands satisfies the vault's slippage assertion
\* on an unmoved pair (_evaluate_rule, execute_swap).
THEOREM MinimumAllowed ==
    ASSUME NEW r \in RuleType, NEW l \in Vault!Limits, Fits(r, l), NEW units \in Nat
    PROVE  MinimumOut(BPS * units, r.slippage) * BPS
             >= (BPS * units) * (BPS - l.slippage)
  <1>1. (BPS * units) \div BPS = units
    BY PriceAssumption
  <1>2. r.slippage \in Int /\ l.slippage \in Int /\ r.slippage <= l.slippage
    BY DEF Fits, RuleType, Vault!Limits
  <1> DEFINE more == l.slippage - r.slippage
  <1>3. more \in Nat /\ BPS - r.slippage = (BPS - l.slippage) + more
    BY <1>2, PriceAssumption
  <1> HIDE DEF more
  <1>4. MinimumOut(BPS * units, r.slippage) = units * (BPS - r.slippage)
    BY <1>1 DEF MinimumOut
  <1>5. (units * (BPS - r.slippage)) * BPS = (BPS * units) * (BPS - r.slippage)
    BY <1>2, PriceAssumption
  <1>6. (BPS * units) * (BPS - r.slippage)
          = (BPS * units) * (BPS - l.slippage) + (BPS * units) * more
    BY <1>2, <1>3, PriceAssumption
  <1>7. (BPS * units) * more \in Nat
    BY <1>3, PriceAssumption
  <1>8. (BPS * units) * (BPS - l.slippage) \in Int
    BY <1>2, PriceAssumption
  <1> QED
    BY <1>4, <1>5, <1>6, <1>7, <1>8

-----------------------------------------------------------------------------
(* The inductive invariant *)

Typed ==
    /\ now \in Nat /\ clock \in Nat /\ at \in Nat
    /\ last \in Nat \cup {Never} /\ lastAction \in Nat \cup {None}
    /\ rule \in RuleType /\ limits \in Vault!Limits
    /\ pair \in Reserves /\ snapshot \in Reserves
    /\ call \in Calls \cup {None}

Synchronised == now <= clock + Skew /\ clock <= now + Skew

\* rule_state is not older than what happened on the chain, but for a success
\* that is not settled yet.
Recorded ==
    /\ lastAction # None => lastAction <= clock
    /\ last # Never => last <= now
    /\ last # Never /\ (call = None \/ call.fate # "executed")
         => lastAction # None /\ last <= lastAction + Skew

\* The decision that is being prepared, and the call that is under way, still
\* follow from rule_state.
Decided ==
    /\ pc # "idle" => call = None
    /\ pc = "prepare" =>
         /\ Price(snapshot) # None /\ baseline # None
         /\ Reached(rule.direction, rule.threshold, baseline, Price(snapshot))
         /\ at <= clock
         /\ lastAction # None => lastAction + rule.cooldown <= at
    /\ call # None =>
         Reached(rule.direction, rule.threshold, baseline, call.price)
    /\ call # None /\ lastAction # None => lastAction + rule.cooldown <= clock

IInv == Typed /\ Synchronised /\ Recorded /\ Decided

\* A bound moves with the time it is counted from.
LEMMA LaterStill ==
    ASSUME NEW a \in Nat, NEW b \in Nat, NEW c \in Nat, NEW d \in Nat, a < b, c <= a + d
    PROVE  c <= b + d
  OBVIOUS

\* A snapshot has a price that is a fraction, or none.
LEMMA PriceType ==
    ASSUME NEW p \in Reserves
    PROVE  Price(p) \in Fractions \cup {None}
  BY DEF Price, Reserves, Fractions

\* Deadlines are whole seconds.
LEMMA DeadlineType ==
    ASSUME NEW seconds \in Nat, NEW base \in Int
    PROVE  Deadline(seconds, base) \in Int
  BY PriceAssumption DEF Deadline, Margin

\* The minimum of a quote is a whole number.
LEMMA MinimumOutType ==
    ASSUME NEW p \in Reserves, NEW r \in RuleType
    PROVE  MinimumOut(Quote(p, r.amount, Fee), r.slippage) \in Int
  <1>a. r.amount \in Nat \ {0}
    BY TradesAssumption DEF RuleType
  <1>b. r.slippage \in Int
    BY DEF RuleType
  <1>c. Fee \in 0..BPS-1
    BY TradesAssumption
  <1>1. r.amount \in Nat \ {0} /\ r.slippage \in Int /\ BPS - Fee \in Nat \ {0}
    BY <1>a, <1>b, <1>c, PriceAssumption
  <1> DEFINE paid == r.amount * (BPS - Fee)
  <1>2. paid \in Nat \ {0}
    BY <1>1
  <1>3. p.reserve0 * BPS \in Nat /\ paid * p.reserve1 \in Nat
    BY <1>2, PriceAssumption DEF Reserves
  <1> HIDE DEF paid
  <1>4. p.reserve0 * BPS + paid \in Nat \ {0}
    BY <1>2, <1>3
  <1>5. (paid * p.reserve1) \div (p.reserve0 * BPS + paid) \in Int
    BY <1>3, <1>4
  <1>6. Quote(p, r.amount, Fee) \in Int
    BY <1>5, PriceAssumption DEF Quote, paid
  <1>7. Quote(p, r.amount, Fee) \div BPS \in Int
    BY <1>6, PriceAssumption
  <1> QED
    BY <1>7, <1>1, PriceAssumption DEF MinimumOut

\* Init establishes the invariant.
LEMMA InitInv == Init => IInv
  <1> SUFFICES ASSUME Init PROVE IInv
    OBVIOUS
  <1>1. Typed
    BY TradesAssumption DEF Init, Typed, Reserves
  <1>2. Synchronised /\ Recorded
    BY TradesAssumption DEF Init, Synchronised, Recorded
  <1>3. Decided
    BY DEF Init, Decided
  <1> QED
    BY <1>1, <1>2, <1>3 DEF IInv

\* Steps of the world leave the worker's part alone.
LEMMA WorldInv ==
    ASSUME IInv, BlockTime \/ WallTime \/ PairMoves \/ OwnerActs
    PROVE  IInv'
  <1> USE TradesAssumption DEF IInv
  <1>1. CASE BlockTime
    <2>1. now' \in Nat /\ now < now' /\ now' <= clock + Skew
      BY <1>1 DEF BlockTime, Vault!Tick, Typed
    <2>2. UNCHANGED <<limits, last, pair, clock, rule, baseline, lastAction, pc, snapshot,
                      at, call>>
      BY <1>1 DEF BlockTime, Vault!Tick, Vault!contract, memory
    <2>3. Typed'
      BY <2>1, <2>2 DEF Typed
    <2>4. Synchronised'
      <3>1. clock' = clock /\ Skew \in Nat /\ now \in Nat /\ clock \in Nat
        BY <2>2 DEF Typed
      <3>2. clock <= now + Skew
        BY DEF Synchronised
      <3>3. now' <= clock' + Skew
        BY <2>1, <3>1
      <3>4. clock <= now' + Skew
        BY <2>1, <3>1, <3>2, LaterStill
      <3>5. clock' <= now' + Skew
        BY <3>1, <3>4
      <3> QED
        BY <3>3, <3>5 DEF Synchronised
    <2>5. last # Never => last <= now'
      BY <2>1 DEF Recorded, Typed
    <2>6. Recorded'
      BY <2>2, <2>5 DEF Recorded
    <2>7. Decided'
      BY <2>2 DEF Decided
    <2> QED
      BY <2>3, <2>4, <2>6, <2>7
  <1>2. CASE WallTime
    <2>1. clock' = clock + 1 /\ clock' <= now + Skew
      BY <1>2 DEF WallTime
    <2>2. UNCHANGED <<limits, last, now, pair, rule, baseline, lastAction, pc, snapshot,
                      at, call>>
      BY <1>2 DEF WallTime, vault, memory
    <2>3. Typed'
      BY <2>1, <2>2 DEF Typed
    <2>4. Synchronised' /\ Recorded'
      BY <2>1, <2>2 DEF Synchronised, Recorded, Typed
    <2>5. rule.cooldown \in Nat
      BY DEF Typed, RuleType
    <2>6. Decided'
      BY <2>1, <2>2, <2>5 DEF Decided, Typed
    <2> QED
      BY <2>3, <2>4, <2>6
  <1>3. CASE PairMoves
    <2>1. UNCHANGED <<limits, last, now, clock, rule, baseline, lastAction, pc, snapshot,
                      at, call>> /\ pair' \in Reserves
      BY <1>3 DEF PairMoves, vault, memory
    <2> QED
      BY <2>1 DEF Typed, Synchronised, Recorded, Decided
  <1>4. CASE OwnerActs
    <2>1. UNCHANGED <<last, now, pair, clock, rule, baseline, lastAction, pc, snapshot,
                      at, call>>
      BY <1>4 DEF OwnerActs, Vault!TightenLimits, Vault!SetPaused, memory
    <2>2. limits' \in Vault!Limits
      BY <1>4 DEF OwnerActs, Vault!TightenLimits, Vault!SetPaused, Typed
    <2> QED
      BY <2>1, <2>2 DEF Typed, Synchronised, Recorded, Decided
  <1> QED
    BY <1>1, <1>2, <1>3, <1>4

\* Evaluation up to the decision, and a dry run.
LEMMA EvaluationInv ==
    ASSUME IInv, ReadReserve0 \/ ReadReserve1 \/ Skip \/ Trigger \/ DryRun \/ Abandon
    PROVE  IInv'
  <1> USE TradesAssumption DEF IInv
  <1>1. CASE ReadReserve0 \/ ReadReserve1
    <2>1. UNCHANGED <<limits, last, now, pair, clock, rule, baseline, lastAction, at, call>>
      BY <1>1 DEF ReadReserve0, ReadReserve1, vault
    <2>2. snapshot' \in Reserves
      BY <1>1 DEF ReadReserve0, ReadReserve1, Typed, Reserves
    <2>3. call = None /\ pc' # "prepare"
      BY <1>1 DEF ReadReserve0, ReadReserve1, Decided
    <2>4. Typed' /\ Synchronised' /\ Recorded'
      BY <2>1, <2>2 DEF Typed, Synchronised, Recorded
    <2>5. Decided'
      BY <2>1, <2>3 DEF Decided
    <2> QED
      BY <2>4, <2>5
  <1>2. CASE Skip \/ Abandon
    <2>1. UNCHANGED <<limits, last, now, pair, clock, rule, lastAction, call>> /\ call = None
      BY <1>2 DEF Skip, Abandon, vault, Decided
    <2>2. pc' = "idle" /\ snapshot' \in Reserves /\ at' \in Nat
      BY <1>2 DEF Skip, Abandon, Finished, Reserves
    <2> QED
      BY <2>1, <2>2 DEF Typed, Synchronised, Recorded, Decided
  <1>3. CASE Trigger
    <2>1. UNCHANGED <<limits, last, now, pair, clock, rule, baseline, lastAction, snapshot,
                      call>>
      BY <1>3 DEF Trigger, vault
    <2>2. pc' = "prepare" /\ at' = clock /\ ShouldExecute /\ call = None
      BY <1>3 DEF Trigger, Decided
    <2>3. rule.cooldown \in Nat
      BY DEF Typed, RuleType
    <2>4. lastAction # None => lastAction + rule.cooldown <= clock
      BY <2>2, <2>3 DEF ShouldExecute, CooldownOver, Recorded, Typed
    <2>5. Typed' /\ Synchronised' /\ Recorded'
      BY <2>1, <2>2 DEF Typed, Synchronised, Recorded
    <2>6. Price(snapshot') = Price(snapshot)
      BY <2>1
    <2>7. at' <= clock'
      BY <2>1, <2>2 DEF Typed
    <2>8. Decided'
      BY <2>1, <2>2, <2>4, <2>6, <2>7 DEF Decided, ShouldExecute
    <2> QED
      BY <2>5, <2>8
  <1>4. CASE DryRun
    <2>1. UNCHANGED <<limits, last, now, pair, clock, rule, call>> /\ call = None
      BY <1>4 DEF DryRun, vault, Decided
    <2>2. pc' = "idle" /\ snapshot' \in Reserves /\ at' \in Nat /\ lastAction' = at
      BY <1>4 DEF DryRun, Finished, Reserves
    <2>3. rule.cooldown \in Nat
      BY DEF Typed, RuleType
    <2>4. at <= clock /\ (lastAction # None => lastAction <= at)
      BY <1>4, <2>3 DEF DryRun, Decided, Typed
    <2>5. Typed' /\ Synchronised'
      BY <2>1, <2>2 DEF Typed, Synchronised
    <2>6. Recorded'
      BY <2>1, <2>2, <2>4 DEF Recorded, Typed
    <2>7. Decided'
      BY <2>1, <2>2 DEF Decided
    <2> QED
      BY <2>5, <2>6, <2>7
  <1> QED
    BY <1>1, <1>2, <1>3, <1>4

\* The call is journaled.
LEMMA PrepareInv ==
    ASSUME IInv, Prepare
    PROVE  IInv'
  <1> USE TradesAssumption DEF IInv
  <1>1. UNCHANGED <<limits, last, now, pair, clock, rule, baseline, lastAction>>
        /\ pc = "prepare" /\ call = None
    BY DEF Prepare, vault, Decided
  <1>2. pc' = "idle" /\ snapshot' \in Reserves /\ at' \in Nat
    BY DEF Prepare, Finished, Reserves
  <1>3. PICK base \in DeadlineBases :
          call' = [price |-> Price(snapshot), pair |-> snapshot,
                   minOut |-> MinimumOut(Quote(snapshot, rule.amount, Fee), rule.slippage),
                   deadline |-> Deadline(rule.seconds, base), fate |-> "open"]
    BY DEF Prepare
  <1>4. base \in Int
    BY DEF DeadlineBases, Typed
  <1>5. Price(snapshot) \in Fractions
    BY <1>1, PriceType DEF Typed, Decided
  <1>6. Deadline(rule.seconds, base) \in Int
    BY <1>4, DeadlineType DEF Typed, RuleType
  <1>7. MinimumOut(Quote(snapshot, rule.amount, Fee), rule.slippage) \in Int
    BY MinimumOutType DEF Typed
  <1>8. call' \in Calls
    BY <1>3, <1>5, <1>6, <1>7 DEF Calls, Typed
  <1>9. call'.price = Price(snapshot) /\ call'.fate = "open"
    BY <1>3
  <1>10. Typed' /\ Synchronised'
    BY <1>1, <1>2, <1>8 DEF Typed, Synchronised
  <1>11. Recorded'
    BY <1>1, <1>9 DEF Recorded
  <1>12. rule.cooldown \in Nat
    BY DEF Typed, RuleType
  <1>13. lastAction # None => lastAction + rule.cooldown <= clock
    BY <1>1, <1>12 DEF Decided, Typed
  <1>14. Decided'
    BY <1>1, <1>2, <1>9, <1>13 DEF Decided
  <1> QED
    BY <1>10, <1>11, <1>14

\* What becomes of the call.
LEMMA OutcomeInv ==
    ASSUME IInv, Execute \/ Fail \/ Settle \/ SettleLate
    PROVE  IInv'
  <1> USE TradesAssumption DEF IInv
  <1>1. CASE Execute
    <2>1. UNCHANGED <<limits, now, clock, rule, baseline, lastAction, pc, snapshot, at>>
      BY <1>1
      DEF Execute, Offer, Vault!ExecuteSwap, Vault!Accepts, Vault!Exchange, Vault!contract, memory
    <2>2. last' = now /\ pair' \in Reserves /\ call # None /\ call \in Calls
          /\ call' = [call EXCEPT !.fate = "executed"]
      BY <1>1 DEF Execute, Offer, Vault!ExecuteSwap, Vault!Accepts, Typed
    <2>3. call' \in Calls /\ call'.fate = "executed" /\ call'.price = call.price
      BY <2>2 DEF Calls
    <2>4. call' # None
      BY <2>3
    <2>5. Typed' /\ Synchronised'
      BY <2>1, <2>2, <2>3 DEF Typed, Synchronised
    <2>6. Recorded'
      BY <2>1, <2>2, <2>3, <2>4 DEF Recorded, Typed
    <2>7. Decided'
      BY <2>1, <2>2, <2>3 DEF Decided
    <2> QED
      BY <2>5, <2>6, <2>7
  <1>2. CASE Fail
    <2>1. UNCHANGED <<limits, last, now, pair, clock, rule, baseline, lastAction, pc,
                      snapshot, at>>
      BY <1>2 DEF Fail, vault, memory
    <2>2. call # None /\ call \in Calls /\ call.fate = "open"
          /\ call' = [call EXCEPT !.fate = "failed"]
      BY <1>2 DEF Fail, Typed
    <2>3. call' \in Calls /\ call'.fate = "failed" /\ call'.price = call.price
      BY <2>2 DEF Calls
    <2>4. Typed' /\ Synchronised'
      BY <2>1, <2>3 DEF Typed, Synchronised
    <2>5. Recorded'
      BY <2>1, <2>2, <2>3 DEF Recorded
    <2>6. Decided'
      BY <2>1, <2>2, <2>3 DEF Decided
    <2> QED
      BY <2>4, <2>5, <2>6
  <1>3. CASE Settle \/ SettleLate
    <2>1. UNCHANGED <<limits, last, now, pair, clock, rule, pc, snapshot, at>>
          /\ call # None /\ call' = None
      BY <1>3 DEF Settle, SettleLate, vault, memory
    <2>2. lastAction' = clock \/ (lastAction' = lastAction /\ call.fate # "executed")
      BY <1>3 DEF Settle, SettleLate
    <2>3. Typed' /\ Synchronised'
      BY <2>1, <2>2 DEF Typed, Synchronised
    <2>4. last # Never => last <= clock + Skew
      BY DEF Recorded, Synchronised, Typed
    <2>5. Recorded'
      BY <2>1, <2>2, <2>4 DEF Recorded, Typed
    <2>6. Decided'
      BY <2>1 DEF Decided
    <2> QED
      BY <2>3, <2>5, <2>6
  <1> QED
    BY <1>1, <1>2, <1>3

\* Every step preserves the invariant.
LEMMA StepInv == IInv /\ [Next]_vars => IInv'
  <1> SUFFICES ASSUME IInv, [Next]_vars PROVE IInv'
    OBVIOUS
  <1>1. CASE BlockTime \/ WallTime \/ PairMoves \/ OwnerActs
    BY <1>1, WorldInv
  <1>2. CASE ReadReserve0 \/ ReadReserve1 \/ Skip \/ Trigger \/ DryRun \/ Abandon
    BY <1>2, EvaluationInv
  <1>3. CASE Prepare
    BY <1>3, PrepareInv
  <1>4. CASE Execute \/ Fail \/ Settle \/ SettleLate
    BY <1>4, OutcomeInv
  <1>5. CASE UNCHANGED vars
    BY <1>5 DEF vars, vault, memory, IInv, Typed, Synchronised, Recorded, Decided
  <1> QED
    BY <1>1, <1>2, <1>3, <1>4, <1>5 DEF Next

\* The inductive invariant holds in every reachable state.
THEOREM KeeperInvariance == Spec => []IInv
  BY InitInv, StepInv, PTL DEF Spec

-----------------------------------------------------------------------------

\* The vault never refuses a call for its cooldown when the rule's is longer by
\* twice the skew, for all clocks, limits and rules.
THEOREM NotTooSoonHolds == Spec => []NotTooSoon
  <1>1. IInv => NotTooSoon
    <2> SUFFICES ASSUME IInv, call # None, call.fate = "open", last # Never,
                        rule.cooldown >= limits.cooldown + 2 * Skew
                 PROVE  last + limits.cooldown <= now
      BY DEF NotTooSoon
    <2>1. rule.cooldown \in Nat /\ limits.cooldown \in Nat
      BY TradesAssumption DEF IInv, Typed, RuleType, Vault!Limits
    <2>2. last <= lastAction + Skew /\ lastAction # None
      BY DEF IInv, Recorded
    <2>3. lastAction + rule.cooldown <= clock /\ clock <= now + Skew
      BY <2>2 DEF IInv, Decided, Synchronised
    <2> QED
      BY <2>1, <2>2, <2>3, TradesAssumption DEF IInv, Typed
  <1> QED
    BY <1>1, KeeperInvariance, PTL

\* Whatever replaces a baseline is the threshold away from it.
THEOREM BaselineHeldHolds == Spec => BaselineHeld
  <1>1. IInv /\ [Next]_vars
          => [baseline' \notin {baseline, None} /\ baseline # None
                => Reached(rule.direction, rule.threshold, baseline, baseline')]_vars
    <2> SUFFICES ASSUME IInv, Next, baseline' \notin {baseline, None}, baseline # None
                 PROVE  Reached(rule.direction, rule.threshold, baseline, baseline')
      BY DEF vars
    <2>1. DryRun \/ Settle
      BY DEF Next, BlockTime, WallTime, PairMoves, OwnerActs, ReadReserve0, ReadReserve1,
             Skip, Trigger, Abandon, Prepare, Execute, Fail, SettleLate
    <2>2. CASE DryRun
      BY <2>2 DEF DryRun, IInv, Decided
    <2>3. CASE Settle
      BY <2>3 DEF Settle, IInv, Decided
    <2> QED
      BY <2>1, <2>2, <2>3
  <1> QED
    BY <1>1, KeeperInvariance, PTL DEF Spec, BaselineHeld

-----------------------------------------------------------------------------
(* Types *)

\* A quote is a number of units that may be zero.
LEMMA QuoteType ==
    ASSUME NEW p \in Reserves, NEW r \in RuleType
    PROVE  Quote(p, r.amount, Fee) \in Nat
  <1>a. r.amount \in Nat \ {0} /\ Fee \in 0..BPS-1
    BY TradesAssumption DEF RuleType
  <1>1. r.amount \in Nat \ {0} /\ BPS - Fee \in Nat \ {0}
    BY <1>a, PriceAssumption
  <1> DEFINE paid == r.amount * (BPS - Fee)
  <1>2. paid \in Nat \ {0}
    BY <1>1
  <1>3. p.reserve0 * BPS \in Nat /\ paid * p.reserve1 \in Nat
    BY <1>2, PriceAssumption DEF Reserves
  <1> HIDE DEF paid
  <1>4. p.reserve0 * BPS + paid \in Nat \ {0}
    BY <1>2, <1>3
  <1> DEFINE all == paid * p.reserve1
             pool == p.reserve0 * BPS + paid
  <1>5. all \in Nat /\ pool \in Nat \ {0}
    BY <1>3, <1>4
  <1> HIDE DEF all, pool
  <1>6. all \div pool \in Nat
    BY <1>5
  <1>7. BPS * (all \div pool) \in Nat
    BY <1>6, PriceAssumption
  <1> QED
    BY <1>7 DEF Quote, paid, all, pool

\* Accepted calls leave the vault's variables with their types.
LEMMA SwapTypes ==
    ASSUME Vault!TypeOK, NEW a \in Amounts, NEW minOut, NEW deadline, NEW quote \in Nat,
           Vault!ExecuteSwap(Keeper, a, minOut, deadline, quote, quote)
    PROVE  Vault!TypeOK'
  <1> USE TradesAssumption
  <1> DEFINE new == [at |-> now, amount |-> a, quote |-> quote, out |-> quote]
  <1>1. /\ new \in Vault!Trade /\ trades \in Seq(Vault!Trade)
        /\ trades' = Append(trades, new)
    BY DEF Vault!ExecuteSwap, Vault!Accepts, Vault!Exchange, Vault!TypeOK, Vault!Trade
  <1>2. trades' \in Seq(Vault!Trade)
    BY <1>1
  <1>3. a \in Nat /\ spent' = spent + a /\ spent' \in Nat /\ last' \in Nat \cup {Never}
    BY DEF Vault!ExecuteSwap, Vault!Accepts, Vault!Exchange, Vault!TypeOK
  <1>4. /\ balance["src"] \in Nat /\ balance["out"] \in Nat /\ a <= balance["src"]
        /\ balance' = [balance EXCEPT !["src"] = @ - a, !["out"] = @ + quote]
        /\ balance \in [Vault!Tokens -> Nat]
    BY DEF Vault!ExecuteSwap, Vault!Accepts, Vault!Exchange, Vault!TypeOK, Vault!Tokens
  <1>5. balance["src"] - a \in Nat /\ balance["out"] + quote \in Nat
    BY <1>3, <1>4
  <1>6. balance' \in [Vault!Tokens -> Nat]
    BY <1>4, <1>5 DEF Vault!Tokens
  <1> QED
    BY <1>2, <1>3, <1>6
    DEF Vault!ExecuteSwap, Vault!Accepts, Vault!Exchange, Vault!TypeOK, Vault!contract

\* Init has the types.
LEMMA TypeInit == Init => TypeOK
  <1> SUFFICES ASSUME Init PROVE TypeOK
    OBVIOUS
  <1> USE TradesAssumption
  <1>1. balance \in [Vault!Tokens -> Nat] /\ net \in [Vault!Tokens -> Int]
    BY DEF Init
  <1>2. Vault!TypeOK
    <2>1. /\ keeper \in {Keeper} /\ limits \in Vault!Limits /\ seed \in Vault!Limits
          /\ reviewed \in [keeper : {Keeper}, limits : Vault!Limits]
      BY DEF Init
    <2>2. trades \in Seq(Vault!Trade) /\ spent \in Nat /\ now \in Nat
      BY DEF Init
    <2> QED
      BY <1>1, <2>1, <2>2 DEF Init, Vault!TypeOK
  <1> QED
    BY <1>2 DEF Init, TypeOK, Reserves

\* Every step keeps them.
LEMMA TypeStep == TypeOK /\ IInv /\ [Next]_vars => TypeOK'
  <1> SUFFICES ASSUME TypeOK, IInv, [Next]_vars PROVE TypeOK'
    OBVIOUS
  <1> USE TradesAssumption
  <1>1. pair \in Reserves /\ rule \in RuleType /\ rule.amount \in Amounts
    BY DEF TypeOK, RuleType
  <1>2. Typed'
    BY StepInv DEF IInv
  <1>3. UNCHANGED vault => Vault!TypeOK'
    BY DEF TypeOK, Vault!TypeOK, vault
  <1>4. CASE BlockTime
    <2>1. Vault!TypeOK'
      BY <1>2, <1>4 DEF BlockTime, Vault!Tick, TypeOK, Vault!TypeOK, Vault!contract, Typed
    <2> QED
      BY <1>4, <2>1 DEF BlockTime, TypeOK, memory
  <1>5. CASE WallTime \/ PairMoves
    BY <1>3, <1>5 DEF WallTime, PairMoves, TypeOK, memory
  <1>6. CASE OwnerActs
    <2>1. Vault!TypeOK'
      <3>1. CASE \E new \in Envelopes : Vault!TightenLimits(Owner, new)
        BY <3>1 DEF TypeOK, Vault!TypeOK, Vault!TightenLimits
      <3>2. CASE Vault!SetPaused(Owner, FALSE)
        <4>1. reviewed' \in [keeper : {Keeper}, limits : Vault!Limits]
          BY <3>2 DEF TypeOK, Vault!TypeOK, Vault!SetPaused
        <4> QED
          BY <3>2, <4>1 DEF TypeOK, Vault!TypeOK, Vault!SetPaused
      <3> QED
        BY <1>6, <3>1, <3>2 DEF OwnerActs
    <2> QED
      BY <1>6, <2>1 DEF OwnerActs, TypeOK, memory
  <1>7. CASE ReadReserve0 \/ ReadReserve1 \/ Trigger
    BY <1>2, <1>3, <1>7 DEF ReadReserve0, ReadReserve1, Trigger, TypeOK, Typed
  <1>8. CASE Skip \/ DryRun \/ Abandon
    <2>1. Price(snapshot) \in Fractions \cup {None}
      BY PriceType DEF TypeOK
    <2>2. UNCHANGED <<vault, pair, clock, rule, call>> /\ pc' = "idle"
          /\ baseline' \in Fractions \cup {None}
      BY <1>8, <2>1 DEF Skip, DryRun, Abandon, Finished, TypeOK
    <2> QED
      BY <1>2, <1>3, <2>2 DEF TypeOK, Typed
  <1>9. CASE Prepare
    BY <1>2, <1>3, <1>9 DEF Prepare, Finished, TypeOK, Typed
  <1>10. CASE Execute
    <2>1. Vault!TypeOK'
      BY <1>1, <1>10, QuoteType, SwapTypes DEF Execute, Offer, TypeOK
    <2> QED
      BY <1>2, <1>10, <2>1 DEF Execute, TypeOK, Typed, memory
  <1>11. CASE Fail \/ Settle \/ SettleLate
    <2>1. call \in Calls => call.price \in Fractions
      BY DEF Calls
    <2>2. UNCHANGED <<vault, pair, clock, rule, memory>>
          /\ baseline' \in Fractions \cup {None}
      BY <1>11, <2>1 DEF Fail, Settle, SettleLate, TypeOK
    <2> QED
      BY <1>2, <1>3, <2>2 DEF TypeOK, Typed, memory
  <1>12. CASE UNCHANGED vars
    BY <1>3, <1>12 DEF vars, TypeOK, memory
  <1> QED
    BY <1>4, <1>5, <1>6, <1>7, <1>8, <1>9, <1>10, <1>11, <1>12 DEF Next

\* Worker, rule state and vault keep their types together: every quote, minimum,
\* deadline and balance is a number of the kind the code takes it for.
THEOREM KeeperTypes == Spec => []TypeOK
  BY InitInv, StepInv, TypeInit, TypeStep, PTL DEF Spec

-----------------------------------------------------------------------------
(* Calls the vault accepts *)

\* The rule still fits the limits it was checked against, and an open call carries
\* the minimum of its own snapshot and a deadline counted from a time that is not
\* ahead of block time by more than the clock may be.
Called ==
    /\ Fits(rule, seed)
    /\ call # None /\ call.fate = "open" =>
         /\ call.minOut = MinimumOut(Quote(call.pair, rule.amount, Fee), rule.slippage)
         /\ \E base \in Nat :
              base <= now + Skew /\ call.deadline = Deadline(rule.seconds, base)

\* The rule was checked when the vault was created; there is no call yet.
LEMMA InitCalled == Init => Called
  BY DEF Init, Called

\* Preparing a call makes these facts true; afterwards only block time moves, and
\* it only adds to the bound of the deadline.
LEMMA StepCalled == TypeOK /\ IInv /\ Called /\ [Next]_vars => Called'
  <1> SUFFICES ASSUME TypeOK, IInv, Called, [Next]_vars PROVE Called'
    OBVIOUS
  <1> USE TradesAssumption
  <1>1. now \in Nat /\ clock \in Nat /\ clock <= now + Skew /\ Skew \in Nat
    BY DEF IInv, Typed, Synchronised
  <1>2. CASE BlockTime
    <2>1. UNCHANGED <<seed, rule, call>> /\ now' \in Nat /\ now < now'
      BY <1>1, <1>2 DEF BlockTime, Vault!Tick
    <2>2. ASSUME call # None, call.fate = "open"
          PROVE  \E base \in Nat :
                   base <= now' + Skew /\ call.deadline = Deadline(rule.seconds, base)
      <3>1. PICK base \in Nat : base <= now + Skew /\ call.deadline = Deadline(rule.seconds, base)
        BY <2>2 DEF Called
      <3>2. base <= now' + Skew
        BY <1>1, <2>1, <3>1, LaterStill
      <3> QED
        BY <3>1, <3>2
    <2> QED
      BY <2>1, <2>2 DEF Called
  <1>3. CASE Prepare
    <2>1. PICK base \in DeadlineBases :
            call' = [price |-> Price(snapshot), pair |-> snapshot,
                     minOut |-> MinimumOut(Quote(snapshot, rule.amount, Fee), rule.slippage),
                     deadline |-> Deadline(rule.seconds, base), fate |-> "open"]
      BY <1>3 DEF Prepare
    <2>2. base \in Nat /\ base <= now + Skew
      BY <1>1 DEF DeadlineBases
    <2>3. UNCHANGED <<seed, rule, now>>
      BY <1>3 DEF Prepare, vault
    <2>4. /\ call'.minOut = MinimumOut(Quote(call'.pair, rule.amount, Fee), rule.slippage)
          /\ call'.deadline = Deadline(rule.seconds, base)
      BY <2>1
    <2> QED
      BY <2>2, <2>3, <2>4 DEF Called
  <1>4. CASE WallTime \/ PairMoves \/ ReadReserve0 \/ ReadReserve1 \/ Skip \/ Trigger \/ DryRun
             \/ Abandon
    <2>1. UNCHANGED <<seed, rule, now, call>>
      BY <1>4 DEF WallTime, PairMoves, ReadReserve0, ReadReserve1, Skip, Trigger, DryRun, Abandon,
                  vault
    <2> QED
      BY <2>1 DEF Called
  <1>5. CASE OwnerActs
    <2>1. UNCHANGED <<seed, rule, now, call>>
      BY <1>5 DEF OwnerActs, Vault!TightenLimits, Vault!SetPaused
    <2> QED
      BY <2>1 DEF Called
  <1>6. CASE Execute \/ Fail \/ Settle \/ SettleLate
    <2>1. UNCHANGED <<seed, rule>>
      BY <1>6 DEF Execute, Fail, Settle, SettleLate, vault, Vault!ExecuteSwap, Vault!Exchange
    <2>2. call' = None \/ call'.fate # "open"
      <3>1. ASSUME NEW fate, call \in Calls, call' = [call EXCEPT !.fate = fate]
            PROVE  call'.fate = fate
        BY <3>1 DEF Calls
      <3>2. call \in Calls \cup {None}
        BY DEF TypeOK
      <3> QED
        BY <1>6, <3>1, <3>2 DEF Execute, Fail, Settle, SettleLate
    <2> QED
      BY <2>1, <2>2 DEF Called
  <1>7. CASE UNCHANGED vars
    BY <1>7 DEF vars, vault, Called
  <1> QED
    BY <1>2, <1>3, <1>4, <1>5, <1>6, <1>7 DEF Next

\* A quote is a whole number of units.
LEMMA QuoteUnits ==
    ASSUME NEW p \in Reserves, NEW a \in Nat \ {0}, Quote(p, a, Fee) > 0
    PROVE  \E units \in Nat \ {0} : Quote(p, a, Fee) = BPS * units
  <1> USE TradesAssumption, PriceAssumption
  <1> DEFINE paid == a * (BPS - Fee)
             units == (paid * p.reserve1) \div (p.reserve0 * BPS + paid)
  <1>1. BPS - Fee \in Nat \ {0} /\ BPS \in Nat \ {0}
    OBVIOUS
  <1>2. p.reserve0 * BPS \in Nat /\ p.reserve1 \in Nat
    BY DEF Reserves
  <1>3. paid \in Nat \ {0}
    BY <1>1
  <1> HIDE DEF paid
  <1>4. p.reserve0 * BPS + paid \in Nat \ {0} /\ paid * p.reserve1 \in Nat
    BY <1>2, <1>3
  <1>5. units \in Nat
    <2> DEFINE all == paid * p.reserve1
               pool == p.reserve0 * BPS + paid
    <2>1. all \in Nat /\ pool \in Nat \ {0}
      BY <1>4
    <2> HIDE DEF all, pool
    <2>2. all \div pool \in Nat
      BY <2>1
    <2> QED
      BY <2>2 DEF all, pool
  <1>6. Quote(p, a, Fee) = BPS * units
    BY DEF Quote, paid
  <1> HIDE DEF units
  <1>7. units # 0
    BY <1>1, <1>6
  <1> QED
    BY <1>5, <1>6, <1>7

\* Conversely, what the exchange pays is never less than the minimum of its quote,
\* and the minimum is positive.
LEMMA MinimumPaid ==
    ASSUME NEW r \in RuleType, NEW units \in Nat \ {0}
    PROVE  /\ 0 < MinimumOut(BPS * units, r.slippage)
           /\ MinimumOut(BPS * units, r.slippage) <= BPS * units
  <1>1. (BPS * units) \div BPS = units
    BY PriceAssumption
  <1>2. r.slippage \in 0..BPS-1
    BY DEF RuleType
  <1> DEFINE rest == BPS - r.slippage
  <1>3. rest \in Nat \ {0} /\ BPS = rest + r.slippage /\ r.slippage \in Nat
    BY <1>2, PriceAssumption
  <1>4. MinimumOut(BPS * units, r.slippage) = units * rest
    BY <1>1 DEF MinimumOut
  <1> HIDE DEF rest
  <1>5. units * rest > 0 /\ units * rest \in Nat
    BY <1>3
  <1>6. BPS * units = units * rest + units * r.slippage /\ units * r.slippage \in Nat
    BY <1>3
  <1> QED
    BY <1>4, <1>5, <1>6

\* What configuration check, quote, minimum and deadline promise together is what the
\* vault asserts: an undisturbed call in time is not refused.
THEOREM UndisturbedCallsAccepted == Spec => []AcceptedUnlessDisturbed
  <1>1. TypeOK /\ IInv /\ Called => AcceptedUnlessDisturbed
    <2> SUFFICES ASSUME TypeOK, IInv, Called,
                        call # None, call.fate = "open", Skew <= Margin(rule.seconds),
                        limits = seed, ~paused, pair = call.pair, now < call.deadline,
                        spent + rule.amount <= limits.cap, rule.amount <= balance["src"],
                        last # Never => last + limits.cooldown <= now,
                        Offer > 0
                 PROVE  Vault!Accepts(Keeper, rule.amount, call.minOut, call.deadline, Offer, Offer)
      BY DEF AcceptedUnlessDisturbed
    <2> USE TradesAssumption
    <2>1. /\ keeper = Keeper /\ limits \in Vault!Limits /\ rule \in RuleType /\ now \in Nat
          /\ pair \in Reserves
      BY DEF TypeOK, Vault!TypeOK
    <2>2. rule.amount \in Nat \ {0} /\ rule.amount <= limits.trade /\ Fits(rule, limits)
      BY <2>1 DEF Called, RuleType, Fits
    <2>3. PICK units \in Nat \ {0} : Offer = BPS * units
      BY <2>1, <2>2, QuoteUnits DEF Offer
    <2>4. call.minOut = MinimumOut(BPS * units, rule.slippage)
      BY <2>3 DEF Called, Offer
    <2>5. 0 < call.minOut /\ call.minOut <= Offer
      BY <2>1, <2>3, <2>4, MinimumPaid
    <2>6. call.minOut * BPS >= Offer * (BPS - limits.slippage)
      BY <2>1, <2>2, <2>3, <2>4, MinimumAllowed
    <2>7. call.deadline <= now + limits.horizon
      <3>1. PICK base \in Nat : base <= now + Skew /\ call.deadline = Deadline(rule.seconds, base)
        BY DEF Called
      <3>2. base <= now + Margin(rule.seconds)
        <4>1. Margin(rule.seconds) \in Int
          BY <2>1, PriceAssumption DEF Margin, RuleType
        <4> QED
          BY <2>1, <3>1, <4>1
      <3> QED
        BY <2>1, <2>2, <3>1, <3>2, DeadlineInHorizon
    <2> QED
      BY <2>1, <2>2, <2>5, <2>6, <2>7 DEF Vault!Accepts
  <1>2. Spec => [](TypeOK /\ IInv /\ Called)
    BY InitInv, StepInv, TypeInit, TypeStep, InitCalled, StepCalled, PTL DEF Spec
  <1> QED
    BY <1>1, <1>2, PTL

-----------------------------------------------------------------------------
(* The contract's guarantees *)

Contract == INSTANCE StrategyVaultProofs WITH Keepers <- {Keeper}

\* The constants of the contract are what it expects.
LEMMA ContractAssumption == Contract!VaultAssumption
  <1>1. Amounts \subseteq Nat
    BY TradesAssumption
  <1> QED
    BY <1>1, TradesAssumption, PriceAssumption DEF Contract!VaultAssumption

\* The worker is one of the contract's users, with whatever it has computed as the
\* arguments: what it and the owner do is a transaction, or nothing, to the contract.
LEMMA WorkerIsUser ==
    TypeOK /\ [Next]_vars => Contract!Transaction \/ UNCHANGED Contract!vars
  <1> SUFFICES ASSUME TypeOK, [Next]_vars PROVE Contract!Transaction \/ UNCHANGED Contract!vars
    OBVIOUS
  <1>1. CASE UNCHANGED vault
    BY <1>1 DEF vault, Contract!vars, Contract!contract
  <1>2. CASE BlockTime
    <2>1. Contract!Tick
      BY <1>2 DEF BlockTime, Vault!Tick, Contract!Tick, Vault!contract, Contract!contract
    <2> QED
      BY <2>1 DEF Contract!Transaction
  <1>3. ASSUME NEW new \in Envelopes, Vault!TightenLimits(Owner, new)
        PROVE  Contract!Transaction
    <2>1. new \in Contract!Limits
      BY TradesAssumption DEF Vault!Limits, Contract!Limits
    <2>2. Contract!TightenLimits(Owner, new)
      BY <1>3 DEF Vault!TightenLimits, Contract!TightenLimits
    <2> QED
      BY <2>1, <2>2 DEF Contract!Transaction, Contract!Users
  <1>4. CASE Vault!SetPaused(Owner, FALSE)
    <2>1. Contract!SetPaused(Owner, FALSE)
      BY <1>4 DEF Vault!SetPaused, Contract!SetPaused
    <2> QED
      BY <2>1 DEF Contract!Transaction, Contract!Users
  <1>5. CASE Execute
    <2>1. rule.amount \in Amounts /\ Offer \in Nat
      <3>1. rule \in RuleType /\ pair \in Reserves
        BY TradesAssumption DEF TypeOK
      <3> QED
        BY <3>1, QuoteType DEF RuleType, Offer
    <2>2. call.minOut \in Nat /\ call.deadline \in Nat
      <3>1. call.minOut \in Int /\ call.deadline \in Int /\ now \in Nat
        BY <1>5 DEF Execute, TypeOK, Calls, Vault!TypeOK
      <3>2. 0 < call.minOut /\ now < call.deadline
        BY <1>5 DEF Execute, Vault!ExecuteSwap, Vault!Accepts
      <3> QED
        BY <3>1, <3>2
    <2>3. Contract!ExecuteSwap(Keeper, rule.amount, call.minOut, call.deadline, Offer, Offer)
      BY <1>5 DEF Execute, Vault!ExecuteSwap, Vault!Accepts, Vault!Exchange, Vault!contract,
                  Contract!ExecuteSwap, Contract!Accepts, Contract!Exchange, Contract!contract
    <2> QED
      BY <2>1, <2>2, <2>3 DEF Contract!Transaction, Contract!Users
  <1>6. CASE \/ WallTime \/ PairMoves \/ ReadReserve0 \/ ReadReserve1 \/ Skip \/ Trigger
             \/ DryRun \/ Abandon \/ Prepare \/ Fail \/ Settle \/ SettleLate
    BY <1>1, <1>6 DEF WallTime, PairMoves, ReadReserve0, ReadReserve1, Skip, Trigger, DryRun,
                      Abandon, Prepare, Fail, Settle, SettleLate
  <1> QED
    BY <1>1, <1>2, <1>3, <1>4, <1>5, <1>6 DEF Next, OwnerActs, vars

\* A funded and active contract that has not traded.
LEMMA StartsSafe == Init => Contract!Safe
  <1> SUFFICES ASSUME Init PROVE Contract!Safe
    OBVIOUS
  <1>1. Contract!TypeOK
    BY TypeInit DEF TypeOK, Vault!TypeOK, Vault!Tokens, Vault!Limits, Vault!Trade,
                    Contract!TypeOK, Contract!Tokens, Contract!Limits, Contract!Trade
  <1>2. Contract!Fresh
    BY DEF Init, Contract!Fresh
  <1> QED
    BY <1>1, <1>2, ContractAssumption, Contract!FreshIsSafe

\* What the contract promises holds with this keeper: whatever the worker computed from
\* torn snapshots, stale quotes and clocks that disagree, and whenever its calls arrive.
THEOREM ContractKeepsPromises ==
    Spec => []/\ Vault!WithinBudget /\ Vault!ReviewedWhenActive /\ Vault!SwapsSpaced
              /\ Vault!TradesWithinSeed /\ Vault!FundsAccounted
  <1>1. TypeOK /\ Contract!Safe /\ [Next]_vars => Contract!Safe'
    BY WorkerIsUser, ContractAssumption, Contract!TransactionSafe
  <1>2. Contract!Safe => /\ Vault!WithinBudget /\ Vault!ReviewedWhenActive /\ Vault!SwapsSpaced
                         /\ Vault!TradesWithinSeed /\ Vault!FundsAccounted
    BY DEF Contract!Safe, Contract!IInv, Contract!WithinBudget, Contract!ReviewedWhenActive,
           Contract!SwapsSpaced, Contract!TradesWithinSeed, Contract!FundsAccounted,
           Contract!Sum, Contract!Totals, Vault!WithinBudget, Vault!ReviewedWhenActive,
           Vault!SwapsSpaced, Vault!TradesWithinSeed, Vault!FundsAccounted, Vault!Sum,
           Vault!Totals
  <1> QED
    BY <1>1, <1>2, StartsSafe, KeeperTypes, PTL DEF Spec
=============================================================================
