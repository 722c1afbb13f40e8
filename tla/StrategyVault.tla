---------------------------- MODULE StrategyVault ----------------------------
(***************************************************************************)
(* contracts/con_dex_strategy_vault.py: the on-chain custody of one        *)
(* strategy.  The owner funds it and sets its limits, a keeper swaps       *)
(* within them.  A transaction is one action, since a failed assertion     *)
(* reverts all of it.  The keeper is not trusted: its calls carry any      *)
(* arguments.  Tokens are the plain ones docs/WALLET_MODEL.md requires.    *)
(***************************************************************************)
EXTENDS Integers, Sequences

CONSTANTS
    Owner, Keepers, \* the deployer, and accounts that may become keeper
    Amounts,        \* token amounts of calls and quotes
    Times,          \* durations: cooldowns and deadline horizons
    BPS,            \* basis points in a whole (10000 in the contract)
    MaxTime,        \* bound: block time
    MaxNet,         \* bound: what the owner ever puts in, less what it took out
    Never           \* last_execution before the first swap

Users  == Keepers \cup {Owner}
Tokens == {"src", "out"}
Limits == [trade : Amounts, cap : Amounts, slippage : 0..BPS-1, cooldown : Times,
           horizon : Times]

ASSUME VaultAssumption ==
    /\ Keepers # {}
    /\ Amounts \subseteq Nat /\ Times \subseteq Nat
    /\ BPS \in Nat \ {0} /\ MaxTime \in Nat /\ MaxNet \in Nat
    /\ Never \notin Nat

VARIABLES
    keeper, limits, spent, last, paused,    \* the contract's state
    balance,    \* the vault's balances of its two tokens
    now,        \* block time
    seed,       \* history: the limits of the constructor
    reviewed,   \* history: keeper and limits at the owner's last unpause
    net,        \* history: owner's deposits less its withdrawals, per token
    trades      \* history: the swaps executed

contract == <<keeper, limits, paused>>
vars == <<contract, spent, last, balance, now, seed, reviewed, net, trades>>

Trade == [at : Nat, amount : Amounts, quote : Nat, out : Nat]

TypeOK ==
    /\ keeper \in Keepers /\ limits \in Limits /\ seed \in Limits
    /\ spent \in Nat /\ last \in Nat \cup {Never} /\ paused \in BOOLEAN
    /\ balance \in [Tokens -> Nat] /\ net \in [Tokens -> Int]
    /\ now \in Nat
    /\ reviewed \in [keeper : Keepers, limits : Limits]
    /\ trades \in Seq(Trade)

\* The constructor's assertions.
ValidSeed(l) ==
    /\ l.trade > 0 /\ l.cap >= l.trade
    /\ l.horizon > 0

Init ==
    /\ keeper \in Keepers
    /\ limits \in {l \in Limits : ValidSeed(l)}
    /\ spent = 0 /\ last = Never /\ paused = TRUE
    /\ balance = [t \in Tokens |-> 0] /\ net = [t \in Tokens |-> 0]
    /\ now = 0
    /\ seed = limits /\ reviewed = [keeper |-> keeper, limits |-> limits]
    /\ trades = <<>>

Tick ==
    /\ now < MaxTime
    /\ now' \in (now+1)..MaxTime
    /\ UNCHANGED <<contract, spent, last, balance, seed, reviewed, net, trades>>

-----------------------------------------------------------------------------

Deposit(caller, token, amount) ==
    /\ caller = Owner /\ amount > 0
    /\ net[token] + amount <= MaxNet
    /\ balance' = [balance EXCEPT ![token] = @ + amount]
    /\ net' = [net EXCEPT ![token] = @ + amount]
    /\ UNCHANGED <<contract, spent, last, now, seed, reviewed, trades>>

\* Mutant: the balance is not compared with the amount.
WithdrawAnything(caller, token, amount) ==
    /\ caller = Owner /\ amount > 0
    /\ balance' = [balance EXCEPT ![token] = @ - amount]
    /\ net' = [net EXCEPT ![token] = @ - amount]
    /\ UNCHANGED <<contract, spent, last, now, seed, reviewed, trades>>

Withdraw(caller, token, amount) ==
    /\ caller = Owner /\ amount > 0
    /\ amount <= balance[token]
    /\ balance' = [balance EXCEPT ![token] = @ - amount]
    /\ net' = [net EXCEPT ![token] = @ - amount]
    /\ UNCHANGED <<contract, spent, last, now, seed, reviewed, trades>>

\* Mutant: a new keeper starts unpaused.
SetKeeperActive(caller, k) ==
    /\ caller = Owner
    /\ keeper' = k
    /\ UNCHANGED <<limits, paused, spent, last, balance, now, seed, reviewed, net, trades>>

SetKeeper(caller, k) ==
    /\ caller = Owner
    /\ keeper' = k /\ paused' = TRUE
    /\ UNCHANGED <<limits, spent, last, balance, now, seed, reviewed, net, trades>>

\* Either may pause; only the owner may unpause.
SetPaused(caller, value) ==
    /\ caller = Owner \/ (value /\ caller = keeper)
    /\ paused' = value
    /\ reviewed' = IF value THEN reviewed ELSE [keeper |-> keeper, limits |-> limits]
    /\ UNCHANGED <<keeper, limits, spent, last, balance, now, seed, net, trades>>

\* Mutant: a cap below what is spent already is accepted.
TightenBelowSpent(caller, new) ==
    /\ caller = Owner
    /\ 0 < new.trade /\ new.trade <= limits.trade /\ new.trade <= new.cap
    /\ new.cap <= limits.cap
    /\ new.slippage <= limits.slippage
    /\ limits.cooldown <= new.cooldown
    /\ 0 < new.horizon /\ new.horizon <= limits.horizon
    /\ limits' = new /\ paused' = TRUE
    /\ UNCHANGED <<keeper, spent, last, balance, now, seed, reviewed, net, trades>>

\* Mutant: the slippage bound may grow.
TightenLoosely(caller, new) ==
    /\ caller = Owner
    /\ 0 < new.trade /\ new.trade <= limits.trade /\ new.trade <= new.cap
    /\ spent <= new.cap /\ new.cap <= limits.cap
    /\ limits.cooldown <= new.cooldown
    /\ 0 < new.horizon /\ new.horizon <= limits.horizon
    /\ limits' = new /\ paused' = TRUE
    /\ UNCHANGED <<keeper, spent, last, balance, now, seed, reviewed, net, trades>>

TightenLimits(caller, new) ==
    /\ caller = Owner
    /\ 0 < new.trade /\ new.trade <= limits.trade /\ new.trade <= new.cap
    /\ spent <= new.cap /\ new.cap <= limits.cap
    /\ new.slippage <= limits.slippage
    /\ limits.cooldown <= new.cooldown
    /\ 0 < new.horizon /\ new.horizon <= limits.horizon
    /\ limits' = new /\ paused' = TRUE
    /\ UNCHANGED <<keeper, spent, last, balance, now, seed, reviewed, net, trades>>

\* The assertions of execute_swap.
Accepts(caller, amount, minOut, deadline, quote, out) ==
    /\ caller = keeper /\ ~paused
    /\ 0 < amount /\ amount <= limits.trade /\ spent + amount <= limits.cap
    /\ 0 < minOut /\ now < deadline /\ deadline <= now + limits.horizon
    /\ last # Never => last + limits.cooldown <= now
    /\ minOut * BPS >= quote * (BPS - limits.slippage)
    /\ amount <= balance["src"] /\ out >= minOut

\* Mutant: the budget is not charged.
ExchangeUncounted(amount, quote, out) ==
    /\ balance' = [balance EXCEPT !["src"] = @ - amount, !["out"] = @ + out]
    /\ trades' = Append(trades, [at |-> now, amount |-> amount, quote |-> quote,
                                 out |-> out])
    /\ UNCHANGED <<contract, spent, now, seed, reviewed, net>>

\* con_dex quotes the trade and pays out; nothing bounds either but the vault.
Exchange(amount, quote, out) ==
    /\ balance' = [balance EXCEPT !["src"] = @ - amount, !["out"] = @ + out]
    /\ spent' = spent + amount
    /\ trades' = Append(trades, [at |-> now, amount |-> amount, quote |-> quote,
                                 out |-> out])
    /\ UNCHANGED <<contract, now, seed, reviewed, net>>

\* Mutant: the time of the swap is not recorded.
ExecuteUnstamped(caller, amount, minOut, deadline, quote, out) ==
    /\ Accepts(caller, amount, minOut, deadline, quote, out)
    /\ UNCHANGED last
    /\ Exchange(amount, quote, out)

ExecuteSwap(caller, amount, minOut, deadline, quote, out) ==
    /\ Accepts(caller, amount, minOut, deadline, quote, out)
    /\ last' = now
    /\ Exchange(amount, quote, out)

Next ==
    \/ Tick
    \/ \E u \in Users, t \in Tokens, a \in Amounts : Deposit(u, t, a) \/ Withdraw(u, t, a)
    \/ \E u \in Users, k \in Keepers : SetKeeper(u, k)
    \/ \E u \in Users, value \in BOOLEAN : SetPaused(u, value)
    \/ \E u \in Users, new \in Limits : TightenLimits(u, new)
    \/ \E u \in Users, a, minOut, quote, out \in Amounts, wait \in Times :
         ExecuteSwap(u, a, minOut, now + wait, quote, out)

Spec == Init /\ [][Next]_vars

-----------------------------------------------------------------------------
(* Properties *)

\* What the swaps in s add up to, after each of them.
Totals(s, field) ==
    LET total[i \in 0..Len(s)] == IF i = 0 THEN 0 ELSE total[i-1] + s[i][field]
    IN total

Sum(field) == Totals(trades, field)[Len(trades)]

\* The swaps of all keepers together stay within the cap in force, whatever the
\* owner tightened between them: execute_swap, tighten_limits.
WithinBudget == spent <= limits.cap /\ limits.cap <= seed.cap

\* A keeper change or new limits take effect only after the owner's next unpause:
\* while the vault is active it runs with what the owner last looked at.
ReviewedWhenActive == ~paused => reviewed = [keeper |-> keeper, limits |-> limits]

\* Any two swaps are apart by at least the cooldown of the constructor, across
\* changes of keeper, pauses and limits.
SwapsSpaced ==
    \A i, j \in DOMAIN trades :
        i < j => trades[i].at + seed.cooldown <= trades[j].at

\* No limit of the constructor is ever exceeded by a swap.
TradesWithinSeed ==
    \A i \in DOMAIN trades :
        /\ trades[i].amount <= seed.trade
        /\ trades[i].out * BPS >= trades[i].quote * (BPS - seed.slippage)

\* What the owner put in is in the vault or was swapped; what the swaps brought
\* is in the vault or went to the owner.
FundsAccounted ==
    /\ spent = Sum("amount")
    /\ balance["src"] + spent = net["src"]
    /\ balance["out"] = net["out"] + Sum("out")
=============================================================================
