---------------------------- MODULE KeeperTrades ----------------------------
(***************************************************************************)
(* One rule trading for a strategy vault: worker.py evaluates it on the    *)
(* reserves it reads, dex.py prepares the call, the vault accepts it or    *)
(* reverts, the outcome is written to rule_state.  The worker's clock and  *)
(* block time are apart by at most Skew.  The journal that carries the     *)
(* call from begin to outcome is ExecutionJournal; here it is one record.  *)
(***************************************************************************)
EXTENDS PriceRule, Sequences

CONSTANTS
    Owner, Keeper, Never, Amounts, Times, MaxTime, MaxNet,  \* of StrategyVault
    Pairs,          \* reserves the pair may have
    Rules,          \* rules an operator may configure
    Envelopes,      \* limits the vault may have
    Fee,            \* trade fee of the exchange in basis points
    Skew,           \* how far the clock and block time are apart
    Lag             \* how far a node's status is behind the chain

VARIABLES
    keeper, limits, spent, last, paused, balance, now, seed, reviewed, net, trades,
    pair,           \* the pair's reserves on the chain
    clock,          \* the worker's wall clock
    rule,           \* the configured rule
    baseline, lastAction,   \* rule_state
    pc,             \* the await the evaluation is suspended at
    snapshot, at,   \* its locals: reserves as they were read, time of the decision
    call            \* the journaled swap and its fate

Vault == INSTANCE StrategyVault WITH Keepers <- {Keeper}

vault  == <<keeper, limits, spent, last, paused, balance, now, seed, reviewed, net, trades>>
memory == <<pc, snapshot, at>>
vars   == <<vault, pair, clock, rule, baseline, lastAction, memory, call>>

Reserves == [reserve0 : Nat, reserve1 : Nat]
RuleType == [direction : {"up", "down", "either"}, threshold : Nat \ {0}, cooldown : Nat,
             amount : Amounts, slippage : 0..BPS-1, seconds : Nat \ {0}]
Calls == [price : Fractions, pair : Reserves, minOut : Int, deadline : Int,
          fate : {"open", "executed", "failed"}]

ASSUME TradesAssumption ==
    /\ Pairs \subseteq Reserves /\ Rules \subseteq RuleType
    /\ Envelopes \subseteq Vault!Limits
    /\ Amounts \subseteq Nat \ {0} /\ Times \subseteq Nat
    /\ Fee \in 0..BPS-1 /\ Skew \in Nat /\ Lag \in Nat
    /\ MaxTime \in Nat /\ MaxNet \in Nat /\ Never \notin Nat
    /\ None \notin Nat /\ None \notin Calls

TypeOK ==
    /\ Vault!TypeOK
    /\ pair \in Pairs /\ clock \in Nat /\ rule \in Rules
    /\ baseline \in Fractions \cup {None} /\ lastAction \in Nat \cup {None}
    /\ pc \in {"idle", "reserve1", "decide", "prepare"}
    /\ snapshot \in Reserves /\ at \in Nat
    /\ call \in Calls \cup {None}

\* The owner has funded the vault and unpaused it; config.py has accepted the rule.
Init ==
    /\ keeper = Keeper /\ limits \in Envelopes /\ Vault!ValidSeed(limits)
    /\ spent = 0 /\ last = Never /\ paused = FALSE /\ now = 0 /\ trades = <<>>
    /\ balance = [t \in Vault!Tokens |-> IF t = "src" THEN MaxNet ELSE 0] /\ net = balance
    /\ seed = limits /\ reviewed = [keeper |-> keeper, limits |-> limits]
    /\ pair \in Pairs /\ clock = 0
    /\ rule \in Rules /\ Fits(rule, limits)
    /\ baseline = None /\ lastAction = None
    /\ pc = "idle" /\ snapshot = [reserve0 |-> 0, reserve1 |-> 0] /\ at = 0
    /\ call = None

-----------------------------------------------------------------------------
(* The world: time, other traders, the vault's owner *)

BlockTime ==
    /\ Vault!Tick
    /\ now' <= clock + Skew
    /\ UNCHANGED <<pair, clock, rule, baseline, lastAction, memory, call>>

WallTime ==
    /\ clock < MaxTime /\ clock + 1 <= now + Skew
    /\ clock' = clock + 1
    /\ UNCHANGED <<vault, pair, rule, baseline, lastAction, memory, call>>

PairMoves ==
    /\ pair' \in Pairs \ {pair}
    /\ UNCHANGED <<vault, clock, rule, baseline, lastAction, memory, call>>

OwnerActs ==
    /\ \/ \E new \in Envelopes : new # limits /\ Vault!TightenLimits(Owner, new)
       \/ paused /\ Vault!SetPaused(Owner, FALSE)
    /\ UNCHANGED <<pair, clock, rule, baseline, lastAction, memory, call>>

-----------------------------------------------------------------------------
(* The worker *)

\* get_pair_snapshot: the reserves are two queries.
ReadReserve0 ==
    /\ pc = "idle" /\ call = None
    /\ pc' = "reserve1"
    /\ snapshot' = [snapshot EXCEPT !.reserve0 = pair.reserve0]
    /\ UNCHANGED <<vault, pair, clock, rule, baseline, lastAction, at, call>>

ReadReserve1 ==
    /\ pc = "reserve1"
    /\ pc' = "decide"
    /\ snapshot' = [snapshot EXCEPT !.reserve1 = pair.reserve1]
    /\ UNCHANGED <<vault, pair, clock, rule, baseline, lastAction, at, call>>

\* Back to waiting, locals forgotten.
Finished ==
    /\ pc' = "idle"
    /\ snapshot' = [reserve0 |-> 0, reserve1 |-> 0] /\ at' = 0

CooldownOver ==
    (lastAction # None /\ rule.cooldown > 0) => lastAction + rule.cooldown <= clock

ShouldExecute ==
    /\ Price(snapshot) # None /\ baseline # None
    /\ Reached(rule.direction, rule.threshold, baseline, Price(snapshot))
    /\ CooldownOver

\* Mutant: the baseline follows every observation.
SkipFollowing ==
    /\ pc = "decide" /\ ~ShouldExecute
    /\ baseline' = Price(snapshot)
    /\ Finished
    /\ UNCHANGED <<vault, pair, clock, rule, lastAction, call>>

\* evaluate_price_move does not execute; only a rule without baseline stores
\* one.  A stored baseline is a price and so positive.
Skip ==
    /\ pc = "decide" /\ ~ShouldExecute
    /\ baseline' = IF baseline = None THEN Price(snapshot) ELSE baseline
    /\ Finished
    /\ UNCHANGED <<vault, pair, clock, rule, lastAction, call>>

\* evaluate_price_move executes; quote and preparation follow over the network.
Trigger ==
    /\ pc = "decide" /\ ShouldExecute
    /\ pc' = "prepare" /\ at' = clock
    /\ UNCHANGED <<vault, pair, clock, rule, baseline, lastAction, snapshot, call>>

\* wallet.execute is false: the state moves on as if the swap had succeeded, with
\* the time of the decision.
DryRun ==
    /\ pc = "prepare"
    /\ baseline' = Price(snapshot) /\ lastAction' = at
    /\ Finished
    /\ UNCHANGED <<vault, pair, clock, rule, call>>

\* The quote or the preparation fails, or the process ends.
Abandon ==
    /\ pc # "idle"
    /\ Finished
    /\ UNCHANGED <<vault, pair, clock, rule, baseline, lastAction, call>>

\* transaction_deadline: the node's latest block time, or the clock when the
\* status cannot be read.
DeadlineBases == {t \in now-Lag..now : t >= 0} \cup {clock}

\* build_swap_exact_in_call and begin_execution.
Prepare ==
    /\ pc = "prepare"
    /\ \E base \in DeadlineBases :
         call' = [price |-> Price(snapshot), pair |-> snapshot,
                  minOut |-> MinimumOut(Quote(snapshot, rule.amount, Fee), rule.slippage),
                  deadline |-> Deadline(rule.seconds, base), fate |-> "open"]
    /\ Finished
    /\ UNCHANGED <<vault, pair, clock, rule, baseline, lastAction>>

\* What the exchange quotes, and pays, for the amount of the rule.
Offer == Quote(pair, rule.amount, Fee)

\* A block includes the call and the vault accepts it; the reserves move.
Execute ==
    /\ call # None /\ call.fate = "open"
    /\ Vault!ExecuteSwap(Keeper, rule.amount, call.minOut, call.deadline, Offer, Offer)
    /\ call' = [call EXCEPT !.fate = "executed"]
    /\ pair' \in Pairs
    /\ UNCHANGED <<clock, rule, baseline, lastAction, memory>>

\* It is refused or reverts, for any reason.
Fail ==
    /\ call # None /\ call.fate = "open"
    /\ call' = [call EXCEPT !.fate = "failed"]
    /\ UNCHANGED <<vault, pair, clock, rule, baseline, lastAction, memory>>

\* Mutant: a success does not start the cooldown.
SettleHot ==
    /\ call # None /\ call.fate # "open"
    /\ IF call.fate = "executed"
       THEN baseline' = call.price /\ UNCHANGED lastAction
       ELSE UNCHANGED <<baseline, lastAction>>
    /\ call' = None
    /\ UNCHANGED <<vault, pair, clock, rule, memory>>

\* finish_execution: the cooldown starts at reconciliation.
Settle ==
    /\ call # None /\ call.fate # "open"
    /\ IF call.fate = "executed"
       THEN baseline' = call.price /\ lastAction' = clock
       ELSE UNCHANGED <<baseline, lastAction>>
    /\ call' = None
    /\ UNCHANGED <<vault, pair, clock, rule, memory>>

\* The receipt was missing when the nonce was found used: the rule was held and
\* resolve_uncertain_execution starts it afresh, success or not.
SettleLate ==
    /\ call # None /\ call.fate # "open"
    /\ baseline' = None /\ lastAction' = clock
    /\ call' = None
    /\ UNCHANGED <<vault, pair, clock, rule, memory>>

Next ==
    \/ BlockTime \/ WallTime \/ PairMoves \/ OwnerActs
    \/ ReadReserve0 \/ ReadReserve1 \/ Skip \/ Trigger
    \/ DryRun \/ Abandon \/ Prepare
    \/ Execute \/ Fail \/ Settle \/ SettleLate

Spec == Init /\ [][Next]_vars

-----------------------------------------------------------------------------
(* Properties *)

\* The baseline does not follow the price in small steps: whatever replaces a
\* baseline is a threshold away from it, also when swap, outcome and other moves
\* lie in between (_evaluate_rule, finish_execution).
BaselineHeld ==
    [][baseline' \notin {baseline, None} /\ baseline # None
         => Reached(rule.direction, rule.threshold, baseline, baseline')]_vars

\* The vault never refuses a call for its cooldown if the rule's is longer by
\* twice the skew of the clocks: the worker counts from the reconciliation, the
\* vault from the block (_evaluate_rule, finish_execution, execute_swap).
NotTooSoon ==
    /\ call # None /\ call.fate = "open" /\ last # Never
    /\ rule.cooldown >= limits.cooldown + 2 * Skew
    => last + limits.cooldown <= now

\* A call that is in time is accepted when nothing has changed since it was
\* prepared: the checks of config.py, the quote, the minimum and the deadline of
\* dex.py add up to the assertions of the vault, provided the clock is not ahead of
\* block time by more than the safety margin.  The quote is at least one unit.
AcceptedUnlessDisturbed ==
    /\ call # None /\ call.fate = "open" /\ Skew <= Margin(rule.seconds)
    /\ limits = seed /\ ~paused /\ pair = call.pair /\ now < call.deadline
    /\ spent + rule.amount <= limits.cap /\ rule.amount <= balance["src"]
    /\ last # Never => last + limits.cooldown <= now
    /\ Offer > 0
    => Vault!Accepts(Keeper, rule.amount, call.minOut, call.deadline, Offer, Offer)

\* A rule trades only if the pair's price moves: of the states the pair is ever in,
\* two have prices the threshold apart (README.md, "fires when the pair price moves
\* by the configured basis points from that baseline").
FiresOnMove ==
    call # None =>
      \E p, q \in Pairs :
        /\ Price(p) # None /\ Price(q) # None
        /\ Reached(rule.direction, rule.threshold, Price(p), Price(q))
=============================================================================
