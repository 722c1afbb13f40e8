------------------------- MODULE StrategyVaultProofs -------------------------
(***************************************************************************)
(* Proofs about StrategyVault, for any amounts, limits and keepers.        *)
(***************************************************************************)
EXTENDS StrategyVault, SequenceTheorems, WellFoundedInduction, TLAPS

USE VaultAssumption

\* The limits in force are no looser than the constructor's.
LimitsTightened ==
    /\ limits.trade <= seed.trade /\ limits.cap <= seed.cap
    /\ limits.slippage <= seed.slippage /\ seed.cooldown <= limits.cooldown

\* last is the time of the latest swap.
LastIsLatest ==
    /\ last # Never => last <= now
    /\ \A i \in DOMAIN trades : last # Never /\ trades[i].at <= last

IInv ==
    /\ TypeOK /\ LimitsTightened /\ LastIsLatest
    /\ WithinBudget /\ ReviewedWhenActive /\ SwapsSpaced /\ TradesWithinSeed

\* Limits are numbers, whatever amounts and times are allowed.
LEMMA LimitsAreNumbers ==
    \A l \in Limits :
        /\ l.trade \in Nat /\ l.cap \in Nat /\ l.cooldown \in Nat /\ l.horizon \in Nat
        /\ l.slippage \in 0..BPS-1 /\ l.slippage \in Nat
  <1> SUFFICES ASSUME NEW l \in Limits
               PROVE  /\ l.trade \in Nat /\ l.cap \in Nat /\ l.cooldown \in Nat
                      /\ l.horizon \in Nat /\ l.slippage \in 0..BPS-1 /\ l.slippage \in Nat
    OBVIOUS
  <1>1. /\ l.trade \in Amounts /\ l.cap \in Amounts /\ l.cooldown \in Times
        /\ l.horizon \in Times /\ l.slippage \in 0..BPS-1
    BY DEF Limits
  <1>2. l.slippage \in Nat
    BY <1>1
  <1> QED
    BY <1>1, <1>2

\* Products keep the order of their factors.
LEMMA TimesMonotone ==
    ASSUME NEW a \in Nat, NEW b \in Nat, NEW c \in Nat, a <= b
    PROVE  a * c <= b * c
  <1>1. PICK d \in Nat : b = a + d
    <2>1. b - a \in Nat /\ b = a + (b - a)
      OBVIOUS
    <2> QED
      BY <2>1
  <1>2. b * c = a * c + d * c
    BY <1>1
  <1>3. d * c >= 0 /\ a * c \in Int /\ d * c \in Int
    OBVIOUS
  <1> QED
    BY <1>2, <1>3

\* A swap that meets the slippage bound in force meets every looser one.
LEMMA SlippageMonotone ==
    ASSUME NEW minOut \in Nat, NEW out \in Nat, NEW quote \in Nat,
           NEW now1 \in 0..BPS-1, NEW then \in 0..BPS-1,
           now1 <= then, minOut <= out, minOut * BPS >= quote * (BPS - now1)
    PROVE  out * BPS >= quote * (BPS - then)
  <1>1. minOut * BPS <= out * BPS
    BY TimesMonotone
  <1>2. BPS - then \in Nat /\ BPS - now1 \in Nat /\ BPS - then <= BPS - now1
    OBVIOUS
  <1>3. (BPS - then) * quote <= (BPS - now1) * quote
    BY <1>2, TimesMonotone
  <1>4. (BPS - then) * quote = quote * (BPS - then) /\ (BPS - now1) * quote = quote * (BPS - now1)
    BY <1>2
  <1>5. /\ minOut * BPS \in Int /\ out * BPS \in Int
        /\ quote * (BPS - then) \in Int /\ quote * (BPS - now1) \in Int
    BY <1>2
  <1> QED
    BY <1>1, <1>3, <1>4, <1>5

-----------------------------------------------------------------------------
(* The sums over the swaps, by the least length at which they could go wrong *)

\* A set of naturals has a least member.
LEMMA LeastNatural ==
    ASSUME NEW T, T \subseteq Nat, T # {}
    PROVE  \E m \in T : \A n \in T : m <= n
  <1> DEFINE R == {ss \in Nat \X Nat : ss[1] < ss[2]}
  <1>1. IsWellFoundedOn(R, Nat)
    BY NatLessThanWellFounded DEF OpToRel
  <1> HIDE DEF R
  <1>2. PICK m \in T : \A n \in T : ~ (<<n, m>> \in R)
    BY <1>1, WFMin
  <1>3. ASSUME NEW n \in T, n < m PROVE <<n, m>> \in R
    BY <1>3 DEF R
  <1>4. ASSUME NEW n \in T PROVE m <= n
    <2>1. n \in Nat /\ m \in Nat
      OBVIOUS
    <2>2. ~ (n < m)
      BY <1>2, <1>3
    <2>3. QED
      BY <2>1, <2>2
  <1>5. QED
    BY <1>4

\* The fields of a swap that are added up are numbers.
LEMMA SwapsAreNumbers ==
    ASSUME NEW s \in Seq(Trade), NEW field \in {"amount", "out"}
    PROVE  Len(s) \in Nat /\ \A i \in 1..Len(s) : s[i][field] \in Nat
  <1>1. \A i \in 1..Len(s) : s[i] \in Trade
    BY ElementOfSeq
  <1>2. \A i \in 1..Len(s) : s[i].amount \in Nat /\ s[i].out \in Nat
    BY <1>1 DEF Trade
  <1> QED
    BY <1>2

\* f adds up the first n entries of s.
SumsUp(f, s, field, n) ==
    /\ DOMAIN f = 0..n /\ f[0] = 0
    /\ \A i \in 1..n : f[i] = f[i-1] + s[i][field]

\* The entries can be added up, to any length.
LEMMA SumExists ==
    ASSUME NEW s \in Seq(Trade), NEW field \in {"amount", "out"}
    PROVE  \A n \in 0..Len(s) : \E f \in [0..n -> Nat] : SumsUp(f, s, field, n)
  <1> DEFINE Bad == {n \in 0..Len(s) : ~ \E f \in [0..n -> Nat] : SumsUp(f, s, field, n)}
  <1>0. Len(s) \in Nat /\ \A i \in 1..Len(s) : s[i][field] \in Nat
    BY SwapsAreNumbers
  <1>1. SUFFICES ASSUME Bad # {} PROVE FALSE
    OBVIOUS
  <1>2. PICK m \in Bad : \A n \in Bad : m <= n
    <2>1. Bad \subseteq Nat
      BY <1>0
    <2> HIDE DEF Bad
    <2> QED
      BY <1>1, <2>1, LeastNatural
  <1>3. m \in 0..Len(s) /\ m \in Nat /\ ~ \E f \in [0..m -> Nat] : SumsUp(f, s, field, m)
    BY <1>0
  <1>4. CASE m = 0
    <2> DEFINE g == [i \in 0..0 |-> 0]
    <2>1. SumsUp(g, s, field, 0)
      BY DEF SumsUp
    <2> QED
      BY <1>3, <1>4, <2>1
  <1>5. CASE m # 0
    <2>1. m - 1 \in 0..Len(s) /\ m - 1 \in Nat /\ ~ (m <= m - 1)
      BY <1>0, <1>3, <1>5
    <2>2. PICK f \in [0..(m-1) -> Nat] : SumsUp(f, s, field, m - 1)
      BY <1>2, <2>1
    <2> DEFINE g == [i \in 0..m |-> IF i = m THEN f[m-1] + s[m][field] ELSE f[i]]
    <2>3. f \in [0..(m-1) -> Nat] /\ f[m-1] \in Nat /\ s[m][field] \in Nat
      BY <1>0, <1>3, <1>5, <2>1, <2>2 DEF SumsUp
    <2>4. f[m-1] + s[m][field] \in Nat
      BY <2>3
    <2>5. \A i \in 0..m : i # m => i \in 0..(m-1) /\ f[i] \in Nat
      BY <1>3, <2>3
    <2>6. g \in [0..m -> Nat]
      BY <2>4, <2>5
    <2>7. g[0] = 0
      BY <1>3, <1>5, <2>2 DEF SumsUp
    <2>8. ASSUME NEW i \in 1..m PROVE g[i] = g[i-1] + s[i][field]
      <3>1. i \in 0..m /\ i - 1 \in 0..m /\ i - 1 # m
        BY <1>3
      <3>2. g[i-1] = f[i-1]
        BY <3>1
      <3>3. CASE i = m
        BY <3>1, <3>2, <3>3
      <3>4. CASE i # m
        <4>1. i \in 1..(m-1)
          BY <1>3, <3>4
        <4>2. f[i] = f[i-1] + s[i][field]
          BY <2>2, <4>1 DEF SumsUp
        <4> QED
          BY <3>1, <3>2, <3>4, <4>2
      <3> QED
        BY <3>3, <3>4
    <2>9. SumsUp(g, s, field, m)
      <3> HIDE DEF g
      <3> QED
        BY <2>6, <2>7, <2>8 DEF SumsUp
    <2> HIDE DEF g
    <2> QED
      BY <1>3, <2>6, <2>9
  <1> QED
    BY <1>4, <1>5

\* There is only one such function.
LEMMA SumUnique ==
    ASSUME NEW s, NEW field, NEW n \in Nat, NEW f, NEW g,
           SumsUp(f, s, field, n), SumsUp(g, s, field, n)
    PROVE  \A i \in 0..n : f[i] = g[i]
  <1> DEFINE Bad == {i \in 0..n : f[i] # g[i]}
  <1>1. SUFFICES ASSUME Bad # {} PROVE FALSE
    OBVIOUS
  <1>2. PICK m \in Bad : \A i \in Bad : m <= i
    <2>1. Bad \subseteq Nat
      OBVIOUS
    <2> HIDE DEF Bad
    <2> QED
      BY <1>1, <2>1, LeastNatural
  <1>3. m \in 0..n /\ m \in Nat /\ f[m] # g[m]
    OBVIOUS
  <1>4. m # 0
    BY <1>3 DEF SumsUp
  <1>5. m \in 1..n /\ m - 1 \in 0..n /\ ~ (m <= m - 1)
    BY <1>3, <1>4
  <1>6. f[m-1] = g[m-1]
    BY <1>2, <1>5
  <1> QED
    BY <1>3, <1>5, <1>6 DEF SumsUp

\* The recursive function of the model is that sum.
LEMMA TotalsSumUp ==
    ASSUME NEW s \in Seq(Trade), NEW field \in {"amount", "out"}
    PROVE  /\ SumsUp(Totals(s, field), s, field, Len(s))
           /\ \A i \in 0..Len(s) : Totals(s, field)[i] \in Nat
  <1> DEFINE Eq(f) == f = [i \in 0..Len(s) |-> IF i = 0 THEN 0 ELSE f[i-1] + s[i][field]]
  <1>0. Len(s) \in Nat /\ \A i \in 1..Len(s) : s[i][field] \in Nat
    BY SwapsAreNumbers
  <1>1. PICK f \in [0..Len(s) -> Nat] : SumsUp(f, s, field, Len(s))
    BY <1>0, SumExists
  <1>2. Eq(f)
    <2>1. f \in [0..Len(s) -> Nat] /\ f[0] = 0
      BY <1>1 DEF SumsUp
    <2>2. \A i \in 0..Len(s) : f[i] = IF i = 0 THEN 0 ELSE f[i-1] + s[i][field]
      BY <1>0, <1>1 DEF SumsUp
    <2> QED
      BY <2>1, <2>2
  <1>3. Totals(s, field) = CHOOSE h : Eq(h)
    BY DEF Totals
  <1>4. Eq(Totals(s, field))
    <2> HIDE DEF Eq
    <2> QED
      BY <1>2, <1>3, Zenon
  <1> DEFINE h == Totals(s, field)
  <1> HIDE DEF h
  <1>5. DOMAIN h = 0..Len(s)
        /\ \A i \in 0..Len(s) : h[i] = IF i = 0 THEN 0 ELSE h[i-1] + s[i][field]
    BY <1>4 DEF h
  <1>6. h[0] = 0 /\ \A i \in 1..Len(s) : h[i] = h[i-1] + s[i][field]
    BY <1>0, <1>5
  <1>7. SumsUp(h, s, field, Len(s))
    BY <1>5, <1>6 DEF SumsUp
  <1>8. \A i \in 0..Len(s) : h[i] = f[i]
    BY <1>0, <1>1, <1>7, SumUnique
  <1> QED
    BY <1>1, <1>7, <1>8 DEF h

\* A further swap adds its own amount.
LEMMA SumOfAppend ==
    ASSUME NEW s \in Seq(Trade), NEW x \in Trade, NEW field \in {"amount", "out"}
    PROVE  /\ Totals(s, field)[Len(s)] \in Nat
           /\ Totals(Append(s, x), field)[Len(s) + 1] = Totals(s, field)[Len(s)] + x[field]
  <1> DEFINE t == Append(s, x)
  <1>1. /\ t \in Seq(Trade) /\ Len(s) \in Nat /\ Len(t) = Len(s) + 1
        /\ t[Len(s) + 1] = x /\ \A i \in 1..Len(s) : s[i] = t[i]
    OBVIOUS
  <1> HIDE DEF t
  <1> DEFINE f == Totals(s, field)
             g == Totals(t, field)
  <1>2. SumsUp(f, s, field, Len(s)) /\ f[Len(s)] \in Nat
    BY <1>1, TotalsSumUp
  <1>3. SumsUp(g, t, field, Len(s) + 1)
    BY <1>1, TotalsSumUp
  <1> HIDE DEF f, g
  <1>4. g[Len(s) + 1] = g[Len(s)] + x[field]
    <2>1. Len(s) + 1 \in 1..(Len(s) + 1) /\ (Len(s) + 1) - 1 = Len(s)
      BY <1>1
    <2> QED
      BY <1>1, <1>3, <2>1 DEF SumsUp
  <1> DEFINE g0 == [i \in 0..Len(s) |-> g[i]]
  <1>5. SumsUp(g0, s, field, Len(s)) /\ g0[Len(s)] = g[Len(s)]
    BY <1>1, <1>3 DEF SumsUp
  <1> HIDE DEF g0
  <1>6. f[Len(s)] = g0[Len(s)]
    <2>1. Len(s) \in Nat /\ Len(s) \in 0..Len(s)
      BY <1>1
    <2>2. \A i \in 0..Len(s) : f[i] = g0[i]
      BY <1>2, <1>5, <2>1, SumUnique
    <2> QED
      BY <2>1, <2>2
  <1> QED
    BY <1>2, <1>4, <1>5, <1>6 DEF f, g, t

\* Nothing swapped, nothing summed.
LEMMA SumOfNone ==
    ASSUME NEW field \in {"amount", "out"} PROVE Totals(<<>>, field)[0] = 0
  <1>1. <<>> \in Seq(Trade) /\ Len(<<>>) = 0
    OBVIOUS
  <1> QED
    BY <1>1, TotalsSumUp DEF SumsUp

-----------------------------------------------------------------------------
(* The invariants *)

LEMMA InitInv == Init => IInv
  <1> SUFFICES ASSUME Init PROVE IInv
    OBVIOUS
  <1>1. /\ limits \in Limits /\ seed = limits /\ spent = 0 /\ paused = TRUE
        /\ trades = <<>> /\ last = Never
    BY DEF Init
  <1>2. TypeOK
    BY <1>1 DEF Init, TypeOK, Tokens
  <1>3. LimitsTightened /\ WithinBudget
    BY <1>1, LimitsAreNumbers DEF LimitsTightened, WithinBudget
  <1>4. LastIsLatest /\ ReviewedWhenActive /\ SwapsSpaced /\ TradesWithinSeed
    BY <1>1 DEF LastIsLatest, ReviewedWhenActive, SwapsSpaced, TradesWithinSeed
  <1> QED
    BY <1>2, <1>3, <1>4 DEF IInv

\* A transaction with any arguments, quote and payment, not only those of Amounts.
Transaction ==
    \/ Tick
    \/ \E u \in Users, t \in Tokens, a \in Nat : Deposit(u, t, a) \/ Withdraw(u, t, a)
    \/ \E u \in Users, k \in Keepers : SetKeeper(u, k)
    \/ \E u \in Users, value \in BOOLEAN : SetPaused(u, value)
    \/ \E u \in Users, new \in Limits : TightenLimits(u, new)
    \/ \E u \in Users, a \in Amounts, minOut, quote, out, deadline \in Nat :
         ExecuteSwap(u, a, minOut, deadline, quote, out)

\* The transactions of the model are among them.
LEMMA NextIsTransaction == TypeOK /\ Next => Transaction
  <1> SUFFICES ASSUME TypeOK, Next PROVE Transaction
    OBVIOUS
  <1>1. CASE \E u \in Users, t \in Tokens, a \in Amounts : Deposit(u, t, a) \/ Withdraw(u, t, a)
    BY <1>1 DEF Transaction
  <1>2. ASSUME NEW u \in Users, NEW a \in Amounts, NEW minOut \in Amounts, NEW quote \in Amounts,
               NEW out \in Amounts, NEW wait \in Times,
               ExecuteSwap(u, a, minOut, now + wait, quote, out)
        PROVE  Transaction
    <2>1. now + wait \in Nat /\ {minOut, quote, out} \subseteq Nat
      BY DEF TypeOK
    <2> QED
      BY <1>2, <2>1 DEF Transaction
  <1> QED
    BY <1>1, <1>2 DEF Next, Transaction

\* What a swap changes, apart from the arithmetic of its price.
LEMMA SwapInv ==
    ASSUME IInv,
           NEW u, NEW a \in Amounts, NEW minOut \in Nat, NEW quote \in Nat,
           NEW out \in Nat, NEW deadline,
           ExecuteSwap(u, a, minOut, deadline, quote, out)
    PROVE  IInv'
  <1> DEFINE new == [at |-> now, amount |-> a, quote |-> quote, out |-> out]
  <1>1. /\ new \in Trade /\ trades \in Seq(Trade) /\ trades' = Append(trades, new)
        /\ now' = now /\ seed' = seed /\ limits' = limits /\ last' = now
    BY DEF ExecuteSwap, Accepts, Exchange, IInv, TypeOK, Trade, contract
  <1>2. /\ DOMAIN trades = 1..Len(trades) /\ Len(trades) \in Nat
        /\ DOMAIN trades' = 1..(Len(trades) + 1)
        /\ \A i \in DOMAIN trades : trades'[i] = trades[i]
        /\ trades'[Len(trades) + 1] = new
        /\ trades' \in Seq(Trade)
    BY <1>1
  <1>3. TypeOK'
    <2>1. a \in Nat /\ out \in Nat /\ spent \in Nat /\ spent' = spent + a
      BY DEF ExecuteSwap, Accepts, Exchange, IInv, TypeOK
    <2>2. /\ balance["src"] \in Nat /\ balance["out"] \in Nat /\ a <= balance["src"]
          /\ balance' = [balance EXCEPT !["src"] = @ - a, !["out"] = @ + out]
          /\ DOMAIN balance = Tokens /\ balance \in [Tokens -> Nat]
      BY DEF ExecuteSwap, Accepts, Exchange, IInv, TypeOK, Tokens
    <2>3. balance["src"] - a \in Nat /\ balance["out"] + out \in Nat
      BY <2>1, <2>2
    <2>4. balance' \in [Tokens -> Nat]
      BY <2>2, <2>3 DEF Tokens
    <2>5. spent' \in Nat /\ last' \in Nat \cup {Never}
      BY <1>1, <2>1 DEF IInv, TypeOK
    <2> QED
      BY <1>1, <1>2, <2>4, <2>5 DEF ExecuteSwap, Accepts, Exchange, IInv, TypeOK, contract
  <1>4. LimitsTightened' /\ WithinBudget' /\ ReviewedWhenActive'
    BY DEF ExecuteSwap, Accepts, Exchange, IInv, TypeOK, contract, LimitsTightened, WithinBudget,
           ReviewedWhenActive
  <1>5. \A i \in DOMAIN trades : trades[i].at + seed.cooldown <= now
    <2> SUFFICES ASSUME NEW i \in DOMAIN trades PROVE trades[i].at + seed.cooldown <= now
      OBVIOUS
    <2>1. last # Never /\ trades[i].at <= last /\ last + limits.cooldown <= now
      BY DEF ExecuteSwap, Accepts, IInv, LastIsLatest
    <2>2. /\ seed.cooldown <= limits.cooldown /\ seed.cooldown \in Nat /\ limits.cooldown \in Nat
      BY LimitsAreNumbers DEF IInv, TypeOK, LimitsTightened
    <2>3. last \in Nat /\ now \in Nat
      BY <2>1 DEF IInv, TypeOK
    <2>4. trades[i].at \in Nat
      <3>1. trades[i] \in Trade
        BY <1>1, <1>2, ElementOfSeq
      <3> QED
        BY <3>1 DEF Trade
    <2> QED
      BY <2>1, <2>2, <2>3, <2>4
  <1>6. LastIsLatest'
    <2>1. \A i \in DOMAIN trades : trades[i].at \in Nat
      <3>1. \A i \in DOMAIN trades : trades[i] \in Trade
        BY <1>1, <1>2, ElementOfSeq
      <3> QED
        BY <3>1 DEF Trade
    <2>2. seed.cooldown \in Nat /\ now \in Nat /\ now # Never
      BY LimitsAreNumbers DEF IInv, TypeOK
    <2> QED
      BY <1>1, <1>2, <1>5, <2>1, <2>2 DEF LastIsLatest
  <1>7. SwapsSpaced'
    BY <1>1, <1>2, <1>5 DEF IInv, SwapsSpaced
  <1>8. a <= seed.trade /\ out * BPS >= quote * (BPS - seed.slippage)
    <2>1. a <= seed.trade
      <3>1. a <= limits.trade /\ limits.trade <= seed.trade
        BY DEF ExecuteSwap, Accepts, IInv, LimitsTightened
      <3>2. a \in Nat /\ limits.trade \in Nat /\ seed.trade \in Nat
        BY LimitsAreNumbers DEF IInv, TypeOK
      <3> QED
        BY <3>1, <3>2
    <2>2. /\ minOut \in Nat /\ out \in Nat /\ quote \in Nat
          /\ limits.slippage \in 0..BPS-1 /\ seed.slippage \in 0..BPS-1
          /\ limits.slippage <= seed.slippage
          /\ minOut <= out /\ minOut * BPS >= quote * (BPS - limits.slippage)
      BY DEF ExecuteSwap, Accepts, IInv, LimitsTightened, TypeOK, Limits
    <2> QED
      BY <2>1, <2>2, SlippageMonotone
  <1>9. TradesWithinSeed'
    BY <1>1, <1>2, <1>8 DEF IInv, TradesWithinSeed
  <1> QED
    BY <1>3, <1>4, <1>6, <1>7, <1>9 DEF IInv

\* Every transaction preserves the invariant.
LEMMA TransactionInv == IInv /\ Transaction => IInv'
  <1> SUFFICES ASSUME IInv, Transaction PROVE IInv'
    OBVIOUS
  <1> USE DEF IInv, TypeOK, LimitsTightened, LastIsLatest, WithinBudget, ReviewedWhenActive,
              SwapsSpaced, TradesWithinSeed
  <1>1. CASE Tick
    BY <1>1 DEF Tick, contract
  <1>2. CASE \E u \in Users, t \in Tokens, a \in Nat : Deposit(u, t, a)
    BY <1>2 DEF Deposit, contract, Tokens
  <1>3. CASE \E u \in Users, t \in Tokens, a \in Nat : Withdraw(u, t, a)
    BY <1>3 DEF Withdraw, contract, Tokens
  <1>4. CASE \E u \in Users, k \in Keepers : SetKeeper(u, k)
    BY <1>4 DEF SetKeeper
  <1>5. CASE \E u \in Users, value \in BOOLEAN : SetPaused(u, value)
    BY <1>5 DEF SetPaused
  <1>6. CASE \E u \in Users, new \in Limits : TightenLimits(u, new)
    <2>1. PICK new \in Limits :
            /\ 0 < new.trade /\ new.trade <= limits.trade /\ spent <= new.cap
            /\ new.cap <= limits.cap /\ new.slippage <= limits.slippage
            /\ limits.cooldown <= new.cooldown
            /\ limits' = new /\ paused' = TRUE
            /\ UNCHANGED <<keeper, spent, last, balance, now, seed, reviewed, net, trades>>
      BY <1>6 DEF TightenLimits
    <2>2. TypeOK'
      BY <2>1
    <2>3. LimitsTightened' /\ WithinBudget'
      <3>1. /\ new.trade \in Nat /\ new.cap \in Nat /\ new.cooldown \in Nat
            /\ new.slippage \in Nat
        BY <2>1, LimitsAreNumbers
      <3>2. /\ limits.trade \in Nat /\ limits.cap \in Nat /\ limits.cooldown \in Nat
            /\ limits.slippage \in Nat
        BY LimitsAreNumbers
      <3>3. /\ seed.trade \in Nat /\ seed.cap \in Nat /\ seed.cooldown \in Nat
            /\ seed.slippage \in Nat
        BY LimitsAreNumbers
      <3>4. new.trade <= seed.trade /\ new.cap <= seed.cap
        <4>1. new.trade <= limits.trade /\ limits.trade <= seed.trade
          BY <2>1
        <4>2. new.cap <= limits.cap /\ limits.cap <= seed.cap
          BY <2>1
        <4> HIDE DEF IInv
        <4> QED
          BY <4>1, <4>2, <3>1, <3>2, <3>3
      <3>5. new.slippage <= seed.slippage /\ seed.cooldown <= new.cooldown
        <4>1. new.slippage <= limits.slippage /\ limits.slippage <= seed.slippage
          BY <2>1
        <4>2. seed.cooldown <= limits.cooldown /\ limits.cooldown <= new.cooldown
          BY <2>1
        <4> HIDE DEF IInv
        <4>3. new.slippage <= seed.slippage
          BY <4>1, <3>1, <3>2, <3>3
        <4> QED
          BY <4>2, <4>3, <3>1, <3>2, <3>3
      <3> QED
        BY <2>1, <3>4, <3>5
    <2> QED
      BY <2>1, <2>2, <2>3
  <1>7. CASE \E u \in Users, a \in Amounts, minOut, quote, out, deadline \in Nat :
               ExecuteSwap(u, a, minOut, deadline, quote, out)
    BY <1>7, SwapInv
  <1> QED
    BY <1>1, <1>2, <1>3, <1>4, <1>5, <1>6, <1>7 DEF Transaction

\* So does every step.
LEMMA StepInv == IInv /\ [Next]_vars => IInv'
  <1> SUFFICES ASSUME IInv, [Next]_vars PROVE IInv'
    OBVIOUS
  <1>1. CASE Next
    BY <1>1, NextIsTransaction, TransactionInv DEF IInv
  <1>2. CASE UNCHANGED vars
    BY <1>2 DEF vars, contract, IInv, TypeOK, LimitsTightened, LastIsLatest, WithinBudget,
                ReviewedWhenActive, SwapsSpaced, TradesWithinSeed
  <1> QED
    BY <1>1, <1>2

\* The inductive invariant holds in every reachable state of the contract.
THEOREM VaultInvariance == Spec => []IInv
  BY InitInv, StepInv, PTL DEF Spec

\* The contract's variables keep their types; a balance is never negative.
THEOREM VaultTypeCorrect == Spec => []TypeOK
  <1>1. IInv => TypeOK
    BY DEF IInv
  <1> QED
    BY <1>1, VaultInvariance, PTL

\* All swaps together stay within the cap in force and the constructor's.
THEOREM WithinBudgetHolds == Spec => []WithinBudget
  <1>1. IInv => WithinBudget
    BY DEF IInv
  <1> QED
    BY <1>1, VaultInvariance, PTL

\* An active vault runs with the keeper and the limits the owner last looked at.
THEOREM ReviewedWhenActiveHolds == Spec => []ReviewedWhenActive
  <1>1. IInv => ReviewedWhenActive
    BY DEF IInv
  <1> QED
    BY <1>1, VaultInvariance, PTL

\* Swaps are at least the constructor's cooldown apart.
THEOREM SwapsSpacedHolds == Spec => []SwapsSpaced
  <1>1. IInv => SwapsSpaced
    BY DEF IInv
  <1> QED
    BY <1>1, VaultInvariance, PTL

\* Every swap respects the constructor's trade size and slippage bound.
THEOREM TradesWithinSeedHolds == Spec => []TradesWithinSeed
  <1>1. IInv => TradesWithinSeed
    BY DEF IInv
  <1> QED
    BY <1>1, VaultInvariance, PTL

-----------------------------------------------------------------------------
(* The accounts *)

\* Nothing is in the vault and nothing was put in.
LEMMA InitFunds == Init => FundsAccounted
  <1> SUFFICES ASSUME Init PROVE FundsAccounted
    OBVIOUS
  <1>1. trades = <<>> /\ Len(trades) = 0
    BY DEF Init
  <1>2. Sum("amount") = 0 /\ Sum("out") = 0
    BY <1>1, SumOfNone DEF Sum
  <1> QED
    BY <1>2 DEF Init, Tokens, FundsAccounted

\* A swap moves its amount from the balance to what is spent.
LEMMA SwapFunds ==
    ASSUME IInv, FundsAccounted,
           NEW u, NEW a \in Amounts, NEW minOut \in Nat, NEW quote \in Nat,
           NEW out \in Nat, NEW deadline,
           ExecuteSwap(u, a, minOut, deadline, quote, out)
    PROVE  FundsAccounted'
  <1> DEFINE x == [at |-> now, amount |-> a, quote |-> quote, out |-> out]
  <1>1. /\ trades \in Seq(Trade) /\ x \in Trade /\ trades' = Append(trades, x)
        /\ x.amount = a /\ x.out = out /\ a \in Nat /\ out \in Nat
    BY DEF ExecuteSwap, Accepts, Exchange, IInv, TypeOK, Trade
  <1>2. /\ balance'["src"] = balance["src"] - a /\ balance'["out"] = balance["out"] + out
        /\ spent' = spent + a /\ net' = net
    BY DEF ExecuteSwap, Accepts, Exchange, IInv, TypeOK, Tokens
  <1>3. /\ balance["src"] \in Nat /\ balance["out"] \in Nat /\ spent \in Nat
        /\ net["src"] \in Int /\ net["out"] \in Int
    BY DEF IInv, TypeOK, Tokens
  <1> HIDE DEF x
  <1>4. Len(trades') = Len(trades) + 1
    BY <1>1
  <1>5. Sum("amount") \in Nat /\ Sum("amount")' = Sum("amount") + a
    BY <1>1, <1>4, SumOfAppend DEF Sum
  <1>6. Sum("out") \in Nat /\ Sum("out")' = Sum("out") + out
    BY <1>1, <1>4, SumOfAppend DEF Sum
  <1>7. /\ spent = Sum("amount") /\ balance["src"] + spent = net["src"]
        /\ balance["out"] = net["out"] + Sum("out")
    BY DEF FundsAccounted
  <1>8. spent' = Sum("amount")' /\ balance'["src"] + spent' = net'["src"]
    BY <1>1, <1>2, <1>3, <1>5, <1>7
  <1>9. balance'["out"] = net'["out"] + Sum("out")'
    BY <1>1, <1>2, <1>3, <1>6, <1>7
  <1> QED
    BY <1>8, <1>9 DEF FundsAccounted

\* Every transaction keeps the accounts; one that does not trade moves the balance
\* and the owner's net contribution alike.
LEMMA TransactionFunds ==
    IInv /\ FundsAccounted /\ (Transaction \/ UNCHANGED vars) => FundsAccounted'
  <1> SUFFICES ASSUME IInv, FundsAccounted, Transaction \/ UNCHANGED vars PROVE FundsAccounted'
    OBVIOUS
  <1>1. /\ balance \in [Tokens -> Nat] /\ net \in [Tokens -> Int] /\ spent \in Nat
        /\ trades \in Seq(Trade) /\ Tokens = {"src", "out"}
    BY DEF IInv, TypeOK, Tokens
  <1>2. Len(trades) \in Nat /\ Sum("out") \in Nat
    <2>1. \A i \in 0..Len(trades) : Totals(trades, "out")[i] \in Nat
      BY <1>1, TotalsSumUp
    <2>2. Len(trades) \in Nat
      BY <1>1
    <2> QED
      BY <2>1, <2>2 DEF Sum
  <1>3. CASE UNCHANGED <<balance, net, spent, trades>>
    BY <1>3 DEF FundsAccounted, Sum
  <1>4. ASSUME NEW u \in Users, NEW t \in Tokens, NEW a \in Nat,
               Deposit(u, t, a) \/ Withdraw(u, t, a)
        PROVE  FundsAccounted'
    <2>1. PICK d \in Int : /\ balance' = [balance EXCEPT ![t] = @ + d]
                           /\ net' = [net EXCEPT ![t] = @ + d]
                           /\ spent' = spent /\ trades' = trades
      <3>1. CASE Deposit(u, t, a)
        <4>1. a \in Int
          OBVIOUS
        <4>2. /\ balance' = [balance EXCEPT ![t] = @ + a] /\ net' = [net EXCEPT ![t] = @ + a]
              /\ spent' = spent /\ trades' = trades
          BY <3>1 DEF Deposit
        <4> QED
          BY <4>1, <4>2, Zenon
      <3>2. CASE Withdraw(u, t, a)
        <4>1. -a \in Int /\ balance[t] - a = balance[t] + (-a) /\ net[t] - a = net[t] + (-a)
          BY <1>1
        <4> QED
          BY <3>2, <4>1 DEF Withdraw
      <3> QED
        BY <1>4, <3>1, <3>2
    <2>2. Sum("amount")' = Sum("amount") /\ Sum("out")' = Sum("out")
      BY <2>1 DEF Sum
    <2>3. /\ spent = Sum("amount") /\ balance["src"] + spent = net["src"]
          /\ balance["out"] = net["out"] + Sum("out")
      BY DEF FundsAccounted
    <2>4. balance'["src"] + spent = net'["src"]
      BY <1>1, <2>1, <2>3
    <2>5. balance'["out"] = net'["out"] + Sum("out")
      BY <1>1, <1>2, <2>1, <2>3
    <2> QED
      BY <2>1, <2>2, <2>3, <2>4, <2>5 DEF FundsAccounted
  <1>5. CASE \E u \in Users, a \in Amounts, minOut, quote, out, deadline \in Nat :
               ExecuteSwap(u, a, minOut, deadline, quote, out)
    BY <1>5, SwapFunds
  <1> QED
    BY <1>3, <1>4, <1>5 DEF Transaction, Tick, SetKeeper, SetPaused, TightenLimits, vars

\* So does every step.
LEMMA StepFunds == IInv /\ FundsAccounted /\ [Next]_vars => FundsAccounted'
  BY NextIsTransaction, TransactionFunds DEF IInv

\* What the owner put in is in the vault or was swapped, what the swaps brought is in
\* the vault or went to the owner: for every history of deposits, withdrawals and swaps.
THEOREM FundsAccountedHolds == Spec => []FundsAccounted
  BY VaultInvariance, InitFunds, StepFunds, PTL DEF Spec

-----------------------------------------------------------------------------
(* The contract in a system: what its users can rely on *)

Safe == IInv /\ FundsAccounted

\* A contract nobody has used yet.
Fresh ==
    /\ spent = 0 /\ last = Never /\ trades = <<>> /\ net = balance
    /\ seed = limits /\ reviewed = [keeper |-> keeper, limits |-> limits]

\* It keeps what the constructor was given, however it is funded.
LEMMA FreshIsSafe == TypeOK /\ Fresh => Safe
  <1> SUFFICES ASSUME TypeOK, Fresh PROVE Safe
    OBVIOUS
  <1>1. LimitsTightened /\ WithinBudget
    BY LimitsAreNumbers DEF Fresh, TypeOK, LimitsTightened, WithinBudget
  <1>2. LastIsLatest /\ ReviewedWhenActive /\ SwapsSpaced /\ TradesWithinSeed
    BY DEF Fresh, LastIsLatest, ReviewedWhenActive, SwapsSpaced, TradesWithinSeed
  <1>3. FundsAccounted
    <2>1. Len(trades) = 0 /\ Sum("amount") = 0 /\ Sum("out") = 0
      BY SumOfNone DEF Fresh, Sum
    <2> QED
      BY <2>1 DEF Fresh, FundsAccounted, TypeOK, Tokens
  <1> QED
    BY <1>1, <1>2, <1>3 DEF Safe, IInv

\* Whatever its users call, with any arguments and at any quote, it keeps it.
LEMMA TransactionSafe == Safe /\ (Transaction \/ UNCHANGED vars) => Safe'
  <1>1. IInv /\ UNCHANGED vars => IInv'
    BY StepInv
  <1> QED
    BY <1>1, TransactionInv, TransactionFunds DEF Safe
=============================================================================
