------------------------------ MODULE PriceRule ------------------------------
(***************************************************************************)
(* The arithmetic of a rule: rules.py, the quote and the deadline of       *)
(* dex.py, the vault envelope of config.py.  Decimals are fractions, so    *)
(* comparisons are exact; times are in seconds.                            *)
(***************************************************************************)
EXTENDS Integers

CONSTANTS
    BPS,            \* basis points in a whole (10000)
    SafetyMargin,   \* DEADLINE_SAFETY_MARGIN_SECONDS (5)
    None            \* no price: an empty pair, a rule without baseline

ASSUME PriceAssumption ==
    /\ BPS \in Nat \ {0} /\ SafetyMargin \in Nat
    /\ None \notin [num : Int, den : Int]

Fractions == [num : Nat \ {0}, den : Nat \ {0}]

\* Mutant: only one reserve is looked at.
PriceUnguarded(pair) ==
    IF pair.reserve0 > 0 THEN [num |-> pair.reserve1, den |-> pair.reserve0] ELSE None

\* price_token1_per_token0.
Price(pair) ==
    IF pair.reserve0 > 0 /\ pair.reserve1 > 0
    THEN [num |-> pair.reserve1, den |-> pair.reserve0]
    ELSE None

\* _threshold_reached: (price - base) / base against threshold / BPS, both
\* multiplied with the denominators.
Reached(direction, threshold, base, price) ==
    LET move  == BPS * (price.num * base.den - base.num * price.den)
        bound == threshold * (base.num * price.den)
    IN \/ direction # "down" /\ move >= bound
       \/ direction # "up"   /\ move <= -bound

\* quote_exact_in for token0: constant product after the fee.  Outputs are whole
\* units, counted in basis points of a unit so that a minimum is exact.
Quote(pair, amount, fee) ==
    LET paid == amount * (BPS - fee)
    IN BPS * ((paid * pair.reserve1) \div (pair.reserve0 * BPS + paid))

\* amount_out_min of _evaluate_rule.
MinimumOut(quote, slippage) == (quote \div BPS) * (BPS - slippage)

\* Mutant: no safety margin.
DeadlineExact(seconds, base) == base + seconds

Margin(seconds) == IF seconds - 1 < SafetyMargin THEN seconds - 1 ELSE SafetyMargin

\* xian_deadline.  config.py admits only positive seconds.
Deadline(seconds, base) == base + seconds - Margin(seconds)

\* Mutant: the rule's slippage is not compared.
FitsLoosely(rule, limits) ==
    /\ rule.amount <= limits.trade
    /\ rule.seconds <= limits.horizon
    /\ rule.cooldown >= limits.cooldown

\* validate_strategy_rules: the rule stays inside the vault's limits.
Fits(rule, limits) ==
    /\ rule.amount <= limits.trade
    /\ rule.slippage <= limits.slippage
    /\ rule.seconds <= limits.horizon
    /\ rule.cooldown >= limits.cooldown
=============================================================================
