------------------------ MODULE VaultBootstrapProofs ------------------------
(***************************************************************************)
(* Proofs about VaultBootstrap, for any command lines, limits, costs and   *)
(* keys and any number of runs, failures and late transactions.            *)
(***************************************************************************)
EXTENDS VaultBootstrap, SequenceTheorems, TLAPS

USE BootstrapAssumption

-----------------------------------------------------------------------------
(* The inductive invariant *)

Later   == {"inspect", "balance", "deposit", "status", "config", "plan", "swap", "done"}
Held    == {keyFile} \cup discarded
Nothing == configFile = None /\ active = None /\ service = None

\* What a run remembers of its command line and of the operator's consent.
RunOK ==
    /\ phase = "idle" => ~fresh
    /\ phase # "idle" => args \in Command
    /\ phase \notin {"idle", "key"} => key \in Keepers
    /\ phase # "idle" /\ args.execute /\ args.unpause => consent
    /\ phase \notin {"idle", "key"} => args.execute
    /\ fresh => consent

\* A key is generated before there is anything else, and is never lost from then on.
KeysOK ==
    /\ keyFile = Absent => Nothing
    /\ phase = "create" => keyFile = Absent
    /\ phase = "write" => keyFile = Empty /\ Nothing
    /\ phase \in Later => key \in Held /\ keyFile # Absent

\* A transaction that s has sent and nobody has executed yet.
Sound(s, t, held, consented) ==
    /\ t \in Tx
    /\ t.kind \in {"deploy", "unpause"} => s = "owner"
    /\ t.kind = "deploy" => t.key \in held
    /\ t.kind = "unpause" => consented
    /\ t.kind = "swap" => t.amount \in Amounts

QueueOK ==
    \A s \in Accounts : \A i \in 1..Len(open[s]) : Sound(s, open[s][i], Held, consent)

VaultOK ==
    /\ deployed => keeper \in Held
    /\ ~paused => deployed /\ consent

\* From its look at the vault on a run works on the vault it was asked for, or its
\* own deployment of it is the newest transaction of the owner.
Settled == deployed /\ Matches
Deploying ==
    /\ phase = "balance" /\ waits = "owner" /\ Len(open["owner"]) > 0
    /\ open["owner"][Len(open["owner"])].kind = "deploy"
    /\ open["owner"][Len(open["owner"])].key = key
    /\ open["owner"][Len(open["owner"])].limits = args.limits
PlaceOK == phase \in Later \ {"inspect"} => Settled \/ Deploying

\* Execution is off while the service overwrites the key.
ServiceOK ==
    /\ active # None => configFile # None
    /\ service # None =>
         /\ active # None /\ ~active.execute
         /\ configFile # None /\ ~configFile.execute
    /\ \A k \in Keepers : service = <<"write", k>> => keyFile = Empty

IInv ==
    /\ TypeOK /\ RunOK /\ KeysOK /\ QueueOK /\ VaultOK /\ PlaceOK /\ ServiceOK
    /\ ConfigCoversVault

-----------------------------------------------------------------------------
(* Types *)

\* Some limits exist, since the operator has a command line.
LEMMA UnsetType == Unset \in Vault!Limits
  <1>1. PICK a \in Commands : TRUE
    OBVIOUS
  <1>2. a.limits \in Vault!Limits
    BY <1>1 DEF Command
  <1>3. \E l \in Vault!Limits : TRUE
    BY <1>2
  <1> QED
    BY <1>3, Zenon DEF Unset

\* Limits are numbers.
LEMMA LimitsAreNumbers ==
    ASSUME NEW l \in Vault!Limits
    PROVE  /\ l.trade \in Nat /\ l.cap \in Nat /\ l.slippage \in Nat /\ l.cooldown \in Nat
           /\ l.horizon \in Nat
  <1>1. /\ l.trade \in Amounts /\ l.cap \in Amounts /\ l.cooldown \in Times
        /\ l.horizon \in Times /\ l.slippage \in 0..BPS-1
    BY DEF Vault!Limits
  <1>2. l.slippage \in Nat
    BY <1>1
  <1> QED
    BY <1>1, <1>2

\* The fields of a transaction.
LEMMA TxFields ==
    ASSUME NEW t \in Tx
    PROVE  /\ t.kind \in Kinds /\ t.key \in Keepers /\ t.limits \in Vault!Limits
           /\ t.amount \in Nat
  BY DEF Tx

\* The fields of a command line.
LEMMA CommandFields ==
    ASSUME NEW a \in Command
    PROVE  /\ a.limits \in Vault!Limits /\ a.deposit \in Nat \ {0}
           /\ a.exercise \in Amounts /\ a.exercise \in Nat /\ a.floor \in Nat
           /\ a.execute \in BOOLEAN /\ a.swap \in BOOLEAN /\ a.unpause \in BOOLEAN
  BY DEF Command

\* A step that leaves the vault alone leaves its types alone.
LEMMA VaultUnchanged == Vault!TypeOK /\ UNCHANGED vault => Vault!TypeOK'
  BY DEF vault, Vault!TypeOK

\* The vault's variables keep their types under the owner's calls.
LEMMA OwnerTypes ==
    ASSUME Vault!TypeOK,
           \/ \E a \in Nat : Vault!Deposit(Owner, "src", a) \/ Vault!Withdraw(Owner, "src", a)
           \/ \E v \in BOOLEAN : Vault!SetPaused(Owner, v)
           \/ \E k \in Keepers : Vault!SetKeeper(Owner, k)
           \/ \E l \in Vault!Limits : Vault!TightenLimits(Owner, l)
    PROVE  Vault!TypeOK'
  <1>1. CASE \E a \in Nat : Vault!Deposit(Owner, "src", a)
    BY <1>1 DEF Vault!TypeOK, Vault!Deposit, Vault!contract, Vault!Tokens
  <1>2. CASE \E a \in Nat : Vault!Withdraw(Owner, "src", a)
    BY <1>2 DEF Vault!TypeOK, Vault!Withdraw, Vault!contract, Vault!Tokens
  <1>3. CASE \E v \in BOOLEAN : Vault!SetPaused(Owner, v)
    BY <1>3 DEF Vault!TypeOK, Vault!SetPaused
  <1>4. CASE \E k \in Keepers : Vault!SetKeeper(Owner, k)
    BY <1>4 DEF Vault!TypeOK, Vault!SetKeeper
  <1>5. CASE \E l \in Vault!Limits : Vault!TightenLimits(Owner, l)
    BY <1>5 DEF Vault!TypeOK, Vault!TightenLimits
  <1> QED
    BY <1>1, <1>2, <1>3, <1>4, <1>5

\* The vault and the keepers' currency keep their types in a trade.
LEMMA TradeTypes ==
    ASSUME Vault!TypeOK, funds \in [Keepers -> Nat],
           NEW k \in Keepers, NEW a \in Amounts, Trade(k, a)
    PROVE  Vault!TypeOK' /\ funds' \in [Keepers -> Nat]
  <1>1. PICK deadline : Vault!ExecuteSwap(k, a, a, deadline, a, a)
    BY DEF Trade
  <1>2. Vault!TypeOK'
    <2> DEFINE new == [at |-> now, amount |-> a, quote |-> a, out |-> a]
    <2>1. /\ new \in Vault!Trade /\ trades \in Seq(Vault!Trade)
          /\ trades' = Append(trades, new)
      BY <1>1 DEF Vault!ExecuteSwap, Vault!Accepts, Vault!Exchange, Vault!TypeOK, Vault!Trade
    <2>2. trades' \in Seq(Vault!Trade)
      BY <2>1
    <2>3. a \in Nat /\ spent' = spent + a /\ spent' \in Nat /\ last' \in Nat \cup {Never}
      BY <1>1 DEF Vault!ExecuteSwap, Vault!Accepts, Vault!Exchange, Vault!TypeOK
    <2>4. /\ balance["src"] \in Nat /\ balance["out"] \in Nat /\ a <= balance["src"]
          /\ balance' = [balance EXCEPT !["src"] = @ - a, !["out"] = @ + a]
          /\ balance \in [Vault!Tokens -> Nat]
      BY <1>1 DEF Vault!ExecuteSwap, Vault!Accepts, Vault!Exchange, Vault!TypeOK, Vault!Tokens
    <2>5. balance["src"] - a \in Nat /\ balance["out"] + a \in Nat
      BY <2>3, <2>4
    <2>6. balance' \in [Vault!Tokens -> Nat]
      BY <2>4, <2>5 DEF Vault!Tokens
    <2> QED
      BY <1>1, <2>2, <2>3, <2>6
      DEF Vault!ExecuteSwap, Vault!Accepts, Vault!Exchange, Vault!TypeOK, Vault!contract
  <1>3. PICK cost \in Costs :
          cost <= funds[k] /\ funds' = [funds EXCEPT ![k] = @ - cost]
    BY DEF Trade
  <1>4. funds[k] - cost \in Nat
    BY <1>3
  <1> QED
    BY <1>2, <1>3, <1>4

\* The chain keeps its types when a transaction is executed.
LEMMA EffectTypes ==
    ASSUME Vault!TypeOK, deployed \in BOOLEAN, allowance \in Nat, funds \in [Keepers -> Nat],
           NEW t \in Tx, t.kind = "swap" => t.amount \in Amounts, Effect(t)
    PROVE  /\ Vault!TypeOK' /\ deployed' \in BOOLEAN /\ allowance' \in Nat
           /\ funds' \in [Keepers -> Nat]
  <1>a. t.key \in Keepers /\ t.limits \in Vault!Limits /\ t.amount \in Nat
    BY TxFields
  <1>1. CASE Deploy(t)
    <2>1. /\ keeper' \in Keepers /\ limits' \in Vault!Limits /\ seed' \in Vault!Limits
          /\ reviewed' \in [keeper : Keepers, limits : Vault!Limits]
      BY <1>1, <1>a DEF Deploy
    <2> QED
      BY <1>1, <2>1 DEF Deploy, Vault!TypeOK
  <1>2. CASE Approve(t)
    BY <1>2, <1>a, VaultUnchanged DEF Approve
  <1>3. CASE Deposit(t)
    <2>1. Vault!TypeOK'
      BY <1>3, <1>a, OwnerTypes DEF Deposit
    <2>2. allowance - t.amount \in Nat
      BY <1>3, <1>a DEF Deposit
    <2> QED
      BY <1>3, <2>1, <2>2 DEF Deposit
  <1>4. CASE Unpause(t)
    BY <1>4, OwnerTypes DEF Unpause
  <1>5. CASE Fund(t)
    <2>1. funds' \in [Keepers -> Nat]
      BY <1>5, <1>a DEF Fund
    <2> QED
      BY <1>5, <2>1, VaultUnchanged DEF Fund
  <1>6. CASE t.kind = "swap" /\ Trade(t.key, t.amount)
    BY <1>6, <1>a, TradeTypes DEF Trade
  <1> QED
    BY <1>1, <1>2, <1>3, <1>4, <1>5, <1>6 DEF Effect

\* What an executed transaction does to keeper, limits and pause.
LEMMA EffectFrame ==
    ASSUME NEW t, Effect(t)
    PROVE  \/ /\ t.kind = "deploy" /\ ~deployed /\ deployed'
              /\ keeper' = t.key /\ limits' = t.limits /\ paused' = paused
           \/ /\ UNCHANGED <<keeper, limits, deployed>>
              /\ paused' = paused \/ (t.kind = "unpause" /\ deployed)
  <1>1. CASE Deploy(t)
    BY <1>1 DEF Deploy
  <1>2. CASE Approve(t) \/ Fund(t)
    BY <1>2 DEF Approve, Fund, vault
  <1>3. CASE Deposit(t)
    BY <1>3 DEF Deposit, Vault!Deposit, Vault!contract
  <1>4. CASE Unpause(t)
    BY <1>4 DEF Unpause, Vault!SetPaused
  <1>5. CASE Trade(t.key, t.amount)
    BY <1>5 DEF Trade, Vault!ExecuteSwap, Vault!Accepts, Vault!Exchange, Vault!contract
  <1> QED
    BY <1>1, <1>2, <1>3, <1>4, <1>5 DEF Effect

-----------------------------------------------------------------------------
(* The queues of transactions *)

\* What is said of a transaction stays true when more keys are held.
LEMMA SoundKept ==
    ASSUME NEW s, NEW t, NEW held, NEW more, NEW before \in BOOLEAN, NEW after \in BOOLEAN,
           Sound(s, t, held, before), \A k \in Keepers : k \in held => k \in more,
           before => after
    PROVE  Sound(s, t, more, after)
  BY TxFields DEF Sound

\* A sent transaction is the newest of its account.
LEMMA AppendSound ==
    ASSUME open \in [Accounts -> Seq(Tx)], QueueOK, consent \in BOOLEAN, consent' \in BOOLEAN,
           NEW s \in Accounts, NEW t, Sound(s, t, Held', consent'),
           open' = [open EXCEPT ![s] = Append(@, t)],
           consent => consent', UNCHANGED <<keyFile, discarded>>
    PROVE  /\ open' \in [Accounts -> Seq(Tx)] /\ QueueOK'
           /\ Len(open'[s]) > 0 /\ open'[s][Len(open'[s])] = t
  <1>a. t \in Tx
    BY DEF Sound
  <1>1. /\ open[s] \in Seq(Tx) /\ Len(open[s]) \in Nat
        /\ open'[s] = Append(open[s], t) /\ open' \in [Accounts -> Seq(Tx)]
        /\ \A r \in Accounts : r # s => open'[r] = open[r]
    BY <1>a
  <1>2. /\ Len(open'[s]) = Len(open[s]) + 1
        /\ \A i \in 1..Len(open[s]) : open'[s][i] = open[s][i]
        /\ open'[s][Len(open[s]) + 1] = t
    BY <1>1, <1>a
  <1>3. Held' = Held
    BY DEF Held
  <1>4. ASSUME NEW r \in Accounts, NEW i \in 1..Len(open'[r])
        PROVE  Sound(r, open'[r][i], Held', consent')
    <2>1. CASE r # s
      <3>1. Sound(r, open[r][i], Held, consent) /\ open'[r][i] = open[r][i]
        BY <1>1, <1>4, <2>1 DEF QueueOK
      <3> QED
        BY <3>1, <1>3, SoundKept
    <2>2. CASE r = s /\ i \in 1..Len(open[s])
      <3>1. Sound(r, open[r][i], Held, consent) /\ open'[r][i] = open[r][i]
        BY <1>2, <2>2 DEF QueueOK
      <3> QED
        BY <3>1, <1>3, SoundKept
    <2>3. CASE r = s /\ i = Len(open[s]) + 1
      BY <1>2, <2>3
    <2>4. r = s => i \in 1..Len(open[s]) \/ i = Len(open[s]) + 1
      BY <1>1, <1>2, <1>4
    <2> QED
      BY <2>1, <2>2, <2>3, <2>4
  <1>5. QueueOK'
    BY <1>4 DEF QueueOK
  <1> QED
    BY <1>1, <1>2, <1>5

\* The oldest transaction of an account leaves its queue.
LEMMA TailSound ==
    ASSUME open \in [Accounts -> Seq(Tx)], QueueOK, NEW s \in Accounts, open[s] # <<>>,
           open' = [open EXCEPT ![s] = Tail(@)], UNCHANGED <<keyFile, discarded, consent>>
    PROVE  /\ open' \in [Accounts -> Seq(Tx)] /\ QueueOK'
           /\ Sound(s, Head(open[s]), Held, consent)
           /\ Len(open[s]) = 1 => Head(open[s]) = open[s][Len(open[s])]
           /\ Len(open[s]) # 1 => /\ Len(open'[s]) > 0
                                  /\ open'[s][Len(open'[s])] = open[s][Len(open[s])]
           /\ \A r \in Accounts : r # s => open'[r] = open[r]
  <1>1. /\ open[s] \in Seq(Tx) /\ Len(open[s]) \in Nat /\ Len(open[s]) > 0
        /\ open'[s] = Tail(open[s]) /\ open' \in [Accounts -> Seq(Tx)]
        /\ \A r \in Accounts : r # s => open'[r] = open[r]
    OBVIOUS
  <1>2. /\ Len(open'[s]) = Len(open[s]) - 1 /\ Head(open[s]) = open[s][1]
        /\ \A i \in 1..Len(open'[s]) : open'[s][i] = open[s][i + 1]
    BY <1>1
  <1>3. ASSUME NEW r \in Accounts, NEW i \in 1..Len(open'[r])
        PROVE  Sound(r, open'[r][i], Held', consent')
    <2>1. PICK j \in 1..Len(open[r]) : open'[r][i] = open[r][j]
      <3>1. CASE r = s
        BY <1>1, <1>2, <1>3, <3>1
      <3>2. CASE r # s
        BY <1>1, <1>3, <3>2
      <3> QED
        BY <3>1, <3>2
    <2>2. Sound(r, open[r][j], Held, consent)
      BY <2>1 DEF QueueOK
    <2>3. Held' = Held /\ consent' = consent
      BY DEF Held
    <2> QED
      BY <2>1, <2>2, <2>3
  <1>4. QueueOK'
    BY <1>3 DEF QueueOK
  <1>5. Sound(s, Head(open[s]), Held, consent)
    BY <1>1, <1>2 DEF QueueOK
  <1>6. Len(open[s]) # 1 => /\ Len(open'[s]) > 0
                            /\ open'[s][Len(open'[s])] = open[s][Len(open[s])]
    BY <1>1, <1>2
  <1> QED
    BY <1>1, <1>2, <1>4, <1>5, <1>6

-----------------------------------------------------------------------------
(* Init and the chain *)

\* Init establishes the invariant.
LEMMA InitInv == Init => IInv
  <1> SUFFICES ASSUME Init PROVE IInv
    OBVIOUS
  <1>1. keeper \in Keepers /\ limits \in Vault!Limits
    BY UnsetType DEF Init
  <1>2. Vault!TypeOK
    BY <1>1 DEF Init, Vault!TypeOK, Vault!Tokens
  <1>3. TypeOK
    <2>1. open \in [Accounts -> Seq(Tx)] /\ funds \in [Keepers -> Nat]
      BY DEF Init
    <2>2. phase \in Phases
      BY DEF Init, Phases
    <2> QED
      BY <1>2, <2>1, <2>2 DEF Init, TypeOK
  <1>4. RunOK /\ KeysOK /\ VaultOK /\ PlaceOK
    BY DEF Init, RunOK, KeysOK, Nothing, VaultOK, PlaceOK, Later
  <1>7. ServiceOK
    BY DEF Init, ServiceOK, Puts
  <1>5. QueueOK
    BY DEF Init, QueueOK
  <1>6. ConfigCoversVault
    BY DEF Init, ConfigCoversVault
  <1> QED
    BY <1>3, <1>4, <1>5, <1>6, <1>7 DEF IInv

\* The types of the script's memory after a run.
LEMMA EndedTypes ==
    ASSUME Ended
    PROVE  /\ phase' \in Phases /\ args' \in Command \cup {None}
           /\ key' \in Keepers \cup {None} /\ fresh' \in BOOLEAN /\ delta' \in Nat
           /\ waits' \in Accounts \cup {None}
  <1>1. /\ phase' = "idle" /\ args' = None /\ key' = None /\ fresh' = FALSE /\ delta' = 0
        /\ waits' = None
    BY DEF Ended
  <1>2. phase' \in Phases
    BY <1>1 DEF Phases
  <1> QED
    BY <1>1, <1>2

\* A run that has ended has nothing left in memory that the invariant speaks of.
LEMMA EndedInv ==
    ASSUME IInv, Ended, consent => consent', UNCHANGED <<keyFile, configFile, admin, discarded>>
    PROVE  RunOK' /\ KeysOK' /\ PlaceOK'
  <1>1. phase' = "idle" /\ fresh' = FALSE
    BY DEF Ended
  <1>2. KeysOK'
    BY <1>1 DEF IInv, KeysOK, Nothing, admin, Later
  <1> QED
    BY <1>1, <1>2 DEF RunOK, PlaceOK, Later

\* An executed transaction preserves the invariant.
LEMMA ExecutedInv == ASSUME IInv, NEW s \in Accounts, Executed(s) PROVE IInv'
  <1> DEFINE t == Head(open[s])
  <1>1. /\ open[s] # <<>> /\ Effect(t) /\ open' = [open EXCEPT ![s] = Tail(@)]
        /\ waits' = IF Awaited(s) THEN None ELSE waits
        /\ UNCHANGED <<keyFile, configFile, active, service, phase, args, key, fresh, delta,
                       faults, consent, discarded, gaveUp>>
    BY DEF Executed, admin, history
  <1>2. /\ open' \in [Accounts -> Seq(Tx)] /\ QueueOK' /\ Sound(s, t, Held, consent)
        /\ Len(open[s]) = 1 => t = open[s][Len(open[s])]
        /\ Len(open[s]) # 1 => /\ Len(open'[s]) > 0
                               /\ open'[s][Len(open'[s])] = open[s][Len(open[s])]
        /\ \A r \in Accounts : r # s => open'[r] = open[r]
    BY <1>1, TailSound DEF IInv, TypeOK
  <1> HIDE DEF t
  <1>3. \/ /\ t.kind = "deploy" /\ ~deployed /\ deployed'
           /\ keeper' = t.key /\ limits' = t.limits /\ paused' = paused
        \/ /\ UNCHANGED <<keeper, limits, deployed>>
           /\ paused' = paused \/ (t.kind = "unpause" /\ deployed)
    BY <1>1, EffectFrame
  <1>4. TypeOK'
    <2>1. /\ Vault!TypeOK' /\ deployed' \in BOOLEAN /\ allowance' \in Nat
          /\ funds' \in [Keepers -> Nat]
      BY <1>1, <1>2, EffectTypes DEF IInv, TypeOK, Sound
    <2>2. waits' \in Accounts \cup {None}
      BY <1>1 DEF IInv, TypeOK
    <2> QED
      BY <1>1, <1>2, <2>1, <2>2 DEF IInv, TypeOK
  <1>5. RunOK' /\ KeysOK' /\ ServiceOK'
    BY <1>1 DEF IInv, RunOK, KeysOK, Nothing, ServiceOK, Held
  <1>6. VaultOK'
    BY <1>1, <1>2, <1>3 DEF IInv, VaultOK, Sound, Held
  <1>7. PlaceOK'
    <2> SUFFICES ASSUME phase' \in Later \ {"inspect"} PROVE Settled' \/ Deploying'
      BY DEF PlaceOK
    <2>1. CASE Settled
      <3>1. UNCHANGED <<keeper, limits, deployed>>
        BY <1>3, <2>1 DEF Settled
      <3> QED
        BY <1>1, <2>1, <3>1 DEF Settled, Matches
    <2>2. CASE Deploying /\ ~Awaited(s)
      BY <1>1, <1>2, <2>2 DEF Deploying, Awaited, Accounts
    <2>3. CASE Deploying /\ Awaited(s)
      <3>1. t.kind = "deploy" /\ t.key = key /\ t.limits = args.limits
        BY <1>2, <2>3 DEF Deploying, Awaited
      <3>2. deployed' /\ keeper' = t.key /\ limits' = t.limits
        BY <1>1, <3>1 DEF Effect, Deploy, Approve, Deposit, Unpause, Fund
      <3> QED
        BY <1>1, <3>1, <3>2 DEF Settled, Matches
    <2> QED
      BY <1>1, <2>1, <2>2, <2>3 DEF IInv, PlaceOK
  <1>8. ConfigCoversVault'
    BY <1>1, <1>3 DEF IInv, ConfigCoversVault
  <1> QED
    BY <1>2, <1>4, <1>5, <1>6, <1>7, <1>8 DEF IInv

\* A refused transaction preserves the invariant.
LEMMA RefusedInv == ASSUME IInv, NEW s \in Accounts, Refused(s) PROVE IInv'
  <1>1. /\ open[s] # <<>> /\ open' = [open EXCEPT ![s] = Tail(@)]
        /\ faults' \in {faults, faults + 1}
        /\ UNCHANGED <<vault, deployed, allowance, funds, keyFile, configFile, active, service,
                       consent, discarded, gaveUp>>
        /\ IF Awaited(s) THEN Ended ELSE UNCHANGED locals
    BY DEF Refused, admin, history, chain
  <1>2. /\ open' \in [Accounts -> Seq(Tx)] /\ QueueOK'
        /\ Len(open[s]) # 1 => /\ Len(open'[s]) > 0
                               /\ open'[s][Len(open'[s])] = open[s][Len(open[s])]
        /\ \A r \in Accounts : r # s => open'[r] = open[r]
    BY <1>1, TailSound DEF IInv, TypeOK
  <1>3. TypeOK'
    <2>1. Vault!TypeOK'
      BY <1>1, VaultUnchanged DEF IInv, TypeOK
    <2>2. /\ phase' \in Phases /\ args' \in Command \cup {None}
          /\ key' \in Keepers \cup {None} /\ fresh' \in BOOLEAN /\ delta' \in Nat
          /\ waits' \in Accounts \cup {None}
      <3>1. CASE Awaited(s)
        BY <1>1, <3>1, EndedTypes
      <3>2. CASE ~Awaited(s)
        BY <1>1, <3>2 DEF IInv, TypeOK, locals
      <3> QED
        BY <3>1, <3>2
    <2>3. faults' \in Nat
      BY <1>1 DEF IInv, TypeOK
    <2> QED
      BY <1>1, <1>2, <2>1, <2>2, <2>3 DEF IInv, TypeOK
  <1>4. VaultOK' /\ ServiceOK' /\ ConfigCoversVault'
    BY <1>1 DEF IInv, VaultOK, ServiceOK, ConfigCoversVault, Held, vault
  <1>5. RunOK' /\ KeysOK' /\ PlaceOK'
    <2>1. CASE Awaited(s)
      BY <1>1, <2>1, EndedInv DEF admin
    <2>2. CASE ~Awaited(s)
      <3>1. UNCHANGED <<phase, args, key, fresh, waits, keeper, limits>>
        BY <1>1, <2>2 DEF locals, vault
      <3>2. RunOK' /\ KeysOK'
        BY <1>1, <3>1 DEF IInv, RunOK, KeysOK, Nothing, Held
      <3>3. Settled => Settled'
        BY <1>1, <3>1 DEF Settled, Matches
      <3>4. Deploying => Deploying'
        BY <1>2, <2>2, <3>1 DEF Deploying, Awaited, Accounts
      <3> QED
        BY <3>1, <3>2, <3>3, <3>4 DEF IInv, PlaceOK
    <2> QED
      BY <2>1, <2>2
  <1> QED
    BY <1>2, <1>3, <1>4, <1>5 DEF IInv

-----------------------------------------------------------------------------
(* The script *)

\* The script's steps change neither the chain nor, but for three of them, a file.
LEMMA ScriptFrame ==
    ASSUME IInv, UNCHANGED <<chain, keyFile, configFile, admin, discarded>>, consent => consent'
    PROVE  VaultOK' /\ ServiceOK' /\ ConfigCoversVault'
  <1>1. /\ UNCHANGED <<keeper, limits, paused, deployed, keyFile, configFile, active, service,
                       discarded>>
    BY DEF chain, vault, admin
  <1>2. VaultOK' /\ ServiceOK'
    BY <1>1 DEF IInv, VaultOK, ServiceOK, Held
  <1>3. ConfigCoversVault'
    BY <1>1 DEF IInv, ConfigCoversVault
  <1> QED
    BY <1>2, <1>3

\* Types of everything, from those of the script's memory and of the queues.
LEMMA ScriptTypes ==
    ASSUME TypeOK, UNCHANGED <<chain, keyFile, configFile, admin, discarded>>,
           faults' \in Nat, gaveUp' \in BOOLEAN, consent' \in BOOLEAN,
           open' \in [Accounts -> Seq(Tx)],
           phase' \in Phases, args' \in Command \cup {None}, key' \in Keepers \cup {None},
           fresh' \in BOOLEAN, delta' \in Nat, waits' \in Accounts \cup {None}
    PROVE  TypeOK'
  <1>1. /\ UNCHANGED <<vault, deployed, allowance, funds, keyFile, configFile, active, service,
                       discarded>>
    BY DEF chain, admin
  <1>2. Vault!TypeOK'
    BY <1>1, VaultUnchanged DEF TypeOK
  <1> QED
    BY <1>1, <1>2 DEF TypeOK

\* The run ends, with its transactions still under way.
LEMMA EndStep ==
    ASSUME IInv, Ended, UNCHANGED <<chain, open, keyFile, configFile, admin, consent, discarded>>,
           faults' \in Nat, gaveUp' \in BOOLEAN
    PROVE  IInv'
  <1>1. RunOK' /\ KeysOK' /\ PlaceOK'
    BY EndedInv
  <1>2. VaultOK' /\ ServiceOK' /\ ConfigCoversVault'
    BY ScriptFrame
  <1>3. QueueOK'
    BY DEF IInv, QueueOK, Held
  <1>4. TypeOK'
    BY EndedTypes, ScriptTypes DEF IInv, TypeOK
  <1> QED
    BY <1>1, <1>2, <1>3, <1>4 DEF IInv

\* The run goes on to a later step, on the vault it was asked for.
LEMMA EnterStep ==
    ASSUME IInv, NEW p \in Later, phase \in Later, p # "inspect" => Settled, Enter(p),
           UNCHANGED <<chain, open, keyFile, configFile, admin, faults, history>>
    PROVE  IInv'
  <1>1. phase' = p /\ UNCHANGED <<args, key, fresh, delta, waits, consent, discarded, gaveUp>>
    BY DEF Enter, history
  <1>2. UNCHANGED <<keeper, limits, deployed, active, service>>
    BY DEF chain, vault, admin
  <1>3. VaultOK' /\ ServiceOK' /\ ConfigCoversVault'
    BY <1>1, ScriptFrame
  <1>4. QueueOK'
    BY <1>1 DEF IInv, QueueOK, Held
  <1>5. RunOK' /\ KeysOK'
    BY <1>1, <1>2 DEF IInv, RunOK, KeysOK, Nothing, Held, Later
  <1>6. PlaceOK'
    BY <1>1, <1>2 DEF PlaceOK, Settled, Matches
  <1>7. phase' \in Phases
    BY <1>1 DEF Later, Phases
  <1>8. TypeOK'
    BY <1>1, <1>7, ScriptTypes DEF IInv, TypeOK
  <1> QED
    BY <1>3, <1>4, <1>5, <1>6, <1>8 DEF IInv

\* The run sends a transaction and waits for it.
LEMMA SendStep ==
    ASSUME IInv, NEW kind \in Kinds, NEW amount \in Nat, NEW p \in Later, NEW s \in Accounts,
           phase \in Later \ {"done"}, Send(s, kind, amount, p),
           UNCHANGED <<chain, keyFile, configFile, admin, faults, discarded, gaveUp>>,
           fresh' \in BOOLEAN, delta' \in Nat, consent' \in BOOLEAN,
           consent => consent', fresh' => consent', kind = "unpause" => consent',
           kind \in {"deploy", "unpause"} => s = "owner",
           kind = "swap" => amount \in Amounts,
           Settled \/ (kind = "deploy" /\ p = "balance")
    PROVE  IInv'
  <1> DEFINE t == [kind |-> kind, key |-> key, limits |-> args.limits, amount |-> amount]
  <1>1. /\ phase' = p /\ waits' = s /\ UNCHANGED <<args, key>>
        /\ open' = [open EXCEPT ![s] = Append(@, t)]
    BY DEF Send
  <1>2. /\ args \in Command /\ args.execute /\ key \in Keepers /\ key \in Held
        /\ keyFile # Absent /\ (args.unpause => consent)
    BY DEF IInv, RunOK, KeysOK, Later
  <1>3. Sound(s, t, Held', consent')
    <2>1. t \in Tx
      BY <1>2, CommandFields DEF Tx
    <2>2. Held' = Held
      BY DEF Held
    <2> QED
      BY <1>2, <2>1, <2>2 DEF Sound
  <1> HIDE DEF t
  <1>4. /\ open' \in [Accounts -> Seq(Tx)] /\ QueueOK'
        /\ Len(open'[s]) > 0 /\ open'[s][Len(open'[s])] = t
    BY <1>1, <1>3, AppendSound DEF IInv, TypeOK
  <1>5. VaultOK' /\ ServiceOK' /\ ConfigCoversVault'
    BY ScriptFrame
  <1>6. RunOK'
    BY <1>1, <1>2 DEF IInv, RunOK, Later
  <1>7. KeysOK'
    BY <1>1, <1>2 DEF KeysOK, Held, Later
  <1>8. PlaceOK'
    <2>1. CASE Settled
      <3>1. UNCHANGED <<keeper, limits, deployed>>
        BY DEF chain, vault
      <3> QED
        BY <1>1, <2>1, <3>1 DEF PlaceOK, Settled, Matches
    <2>2. CASE kind = "deploy" /\ p = "balance"
      <3>1. t.kind = "deploy" /\ t.key = key /\ t.limits = args.limits /\ s = "owner"
        BY <2>2 DEF t
      <3>2. Deploying'
        BY <1>1, <1>4, <2>2, <3>1 DEF Deploying
      <3> QED
        BY <3>2 DEF PlaceOK
    <2> QED
      BY <2>1, <2>2
  <1>9. TypeOK'
    <2>1. phase' \in Phases
      BY <1>1 DEF Later, Phases
    <2>2. faults' \in Nat /\ gaveUp' \in BOOLEAN
      BY DEF IInv, TypeOK
    <2>3. args' \in Command \cup {None} /\ key' \in Keepers \cup {None}
      BY <1>1, <1>2
    <2>4. waits' \in Accounts \cup {None}
      BY <1>1
    <2> QED
      BY <1>4, <2>1, <2>2, <2>3, <2>4, ScriptTypes DEF IInv
  <1> QED
    BY <1>4, <1>5, <1>6, <1>7, <1>8, <1>9 DEF IInv

\* A later step of a run that waits for nothing finds the vault it was asked for.
LEMMA AtSettled ==
    ASSUME IInv, NEW p \in Later \ {"inspect"}, At(p)
    PROVE  Settled
  <1>1. waits # "owner"
    BY DEF At, Accounts
  <1>2. Settled \/ Deploying
    BY DEF At, IInv, PlaceOK
  <1> QED
    BY <1>1, <1>2 DEF Deploying

\* A run starts.
LEMMA StartInv == ASSUME IInv, NEW a \in Commands, Start(a) PROVE IInv'
  <1>1. /\ phase = "idle" /\ phase' = "key" /\ args' = a /\ a \in Command
        /\ consent' = (consent \/ (a.execute /\ a.unpause))
        /\ UNCHANGED <<chain, open, keyFile, configFile, admin, key, fresh, delta, waits, faults,
                       discarded, gaveUp>>
    BY DEF Start
  <1>2. consent \in BOOLEAN /\ consent' \in BOOLEAN /\ (consent => consent')
    BY <1>1, CommandFields DEF IInv, TypeOK
  <1>3. VaultOK' /\ ServiceOK' /\ ConfigCoversVault'
    BY <1>1, <1>2, ScriptFrame
  <1>4. RunOK' /\ KeysOK' /\ PlaceOK'
    BY <1>1, <1>2 DEF IInv, RunOK, KeysOK, Nothing, PlaceOK, Later, admin
  <1>5. QueueOK'
    <2>1. \A s \in Accounts : \A i \in 1..Len(open[s]) : Sound(s, open[s][i], Held, consent')
      BY <1>2, SoundKept DEF IInv, QueueOK
    <2>2. Held' = Held /\ open' = open
      BY <1>1 DEF Held
    <2> QED
      BY <2>1, <2>2 DEF QueueOK
  <1>6. TypeOK'
    <2>1. phase' \in Phases
      BY <1>1 DEF Phases
    <2>2. /\ open' \in [Accounts -> Seq(Tx)] /\ faults' \in Nat /\ gaveUp' \in BOOLEAN
          /\ key' \in Keepers \cup {None} /\ fresh' \in BOOLEAN /\ delta' \in Nat
          /\ waits' \in Accounts \cup {None} /\ args' \in Command \cup {None}
      BY <1>1 DEF IInv, TypeOK
    <2> QED
      BY <1>1, <1>2, <2>1, <2>2, ScriptTypes DEF IInv
  <1> QED
    BY <1>3, <1>4, <1>5, <1>6 DEF IInv

\* The run finds the key, generates one, or ends.
LEMMA KeeperWalletInv == ASSUME IInv, KeeperWallet PROVE IInv'
  <1>1. /\ At("key") /\ phase = "key"
        /\ UNCHANGED <<chain, open, keyFile, configFile, admin, faults, consent, discarded, gaveUp>>
    BY DEF KeeperWallet, At, history
  <1>2. CASE Ended
    BY <1>1, <1>2, EndStep DEF IInv, TypeOK
  <1>3. CASE /\ args.execute /\ phase' = "inspect" /\ key' = keyFile /\ keyFile \in Keepers
             /\ UNCHANGED <<args, fresh, delta, waits>>
    <2>1. RunOK' /\ KeysOK' /\ PlaceOK'
      BY <1>1, <1>3 DEF IInv, RunOK, KeysOK, PlaceOK, Held, Later
    <2>2. VaultOK' /\ ServiceOK' /\ ConfigCoversVault'
      BY <1>1, ScriptFrame
    <2>3. QueueOK'
      BY <1>1 DEF IInv, QueueOK, Held
    <2>4. TypeOK'
      <3>1. phase' \in Phases
        BY <1>3 DEF Phases
      <3> QED
        BY <1>1, <1>3, <3>1, ScriptTypes DEF IInv, TypeOK
    <2> QED
      BY <2>1, <2>2, <2>3, <2>4 DEF IInv
  <1>4. CASE /\ args.execute /\ phase' = "create" /\ keyFile = Absent /\ key' \in Keepers
             /\ UNCHANGED <<args, fresh, delta, waits>>
    <2>1. RunOK' /\ KeysOK' /\ PlaceOK'
      BY <1>1, <1>4 DEF IInv, RunOK, KeysOK, Nothing, PlaceOK, Later, admin
    <2>2. VaultOK' /\ ServiceOK' /\ ConfigCoversVault'
      BY <1>1, ScriptFrame
    <2>3. QueueOK'
      BY <1>1 DEF IInv, QueueOK, Held
    <2>4. TypeOK'
      <3>1. phase' \in Phases
        BY <1>4 DEF Phases
      <3> QED
        BY <1>1, <1>4, <3>1, ScriptTypes DEF IInv, TypeOK
    <2> QED
      BY <2>1, <2>2, <2>3, <2>4 DEF IInv
  <1> QED
    BY <1>2, <1>3, <1>4 DEF KeeperWallet

\* What a step on the key file must keep: no key that was held is lost, a service
\* that may trade has the key of its keeper.
LEMMA KeyFileStep ==
    ASSUME IInv, UNCHANGED <<chain, open, configFile, active, faults, consent, gaveUp>>,
           UNCHANGED <<args, key, fresh, delta, waits>>, phase' \in Phases,
           keyFile' \in Keepers \cup {Empty}, discarded' \subseteq Keepers,
           service' \in {None} \cup Puts,
           \A k \in Keepers : k \in Held => k \in Held',
           \A c \in {configFile, active} \ {None} : ~c.execute
    PROVE  TypeOK' /\ QueueOK' /\ VaultOK' /\ ConfigCoversVault'
  <1>1. UNCHANGED <<vault, deployed, allowance, funds, keeper, limits, paused>>
    BY DEF chain, vault
  <1>2. TypeOK'
    <2>1. Vault!TypeOK'
      BY <1>1, VaultUnchanged DEF IInv, TypeOK
    <2> QED
      BY <1>1, <2>1 DEF IInv, TypeOK
  <1>3. QueueOK'
    <2>1. \A s \in Accounts : \A i \in 1..Len(open[s]) : Sound(s, open[s][i], Held', consent)
      BY SoundKept DEF IInv, QueueOK, TypeOK
    <2> QED
      BY <2>1 DEF QueueOK
  <1>4. keeper \in Keepers
    BY DEF IInv, TypeOK, Vault!TypeOK
  <1>5. VaultOK'
    BY <1>1, <1>4 DEF IInv, VaultOK
  <1>6. ConfigCoversVault'
    <2>1. \A c \in {configFile, active} \ {None} : c.keeper \in Keepers
      BY DEF IInv, TypeOK, Config
    <2>2. ASSUME NEW c \in {configFile, active} \ {None} PROVE c.keeper \in Held' /\ ~c.execute
      BY <2>1, <2>2 DEF IInv, ConfigCoversVault, Held
    <2> QED
      BY <1>1, <2>2 DEF IInv, ConfigCoversVault, Held
  <1> QED
    BY <1>2, <1>3, <1>5, <1>6

\* The run truncates the key file, which did not exist.
LEMMA CreateInv == ASSUME IInv, CreateKeyFile PROVE IInv'
  <1>1. /\ phase = "create" /\ phase' = "write" /\ keyFile = Absent /\ keyFile' = Empty /\ Nothing
        /\ UNCHANGED <<chain, open, configFile, active, service, faults, consent, discarded, gaveUp>>
        /\ UNCHANGED <<args, key, fresh, delta, waits>>
    BY DEF CreateKeyFile, At, Enter, history, admin, IInv, KeysOK
  <1>2. phase' \in Phases
    BY <1>1 DEF Phases
  <1>3. \A k \in Keepers : k \in Held => k \in Held'
    BY <1>1 DEF Held
  <1>4. TypeOK' /\ QueueOK' /\ VaultOK' /\ ConfigCoversVault'
    BY <1>1, <1>2, <1>3, KeyFileStep DEF Nothing, IInv, TypeOK
  <1>5. RunOK' /\ KeysOK' /\ PlaceOK' /\ ServiceOK'
    BY <1>1 DEF IInv, RunOK, KeysOK, Nothing, PlaceOK, ServiceOK, Later
  <1> QED
    BY <1>4, <1>5 DEF IInv

\* The run writes the key it has generated.
LEMMA WriteInv == ASSUME IInv, WriteKeyFile PROVE IInv'
  <1>1. /\ phase = "write" /\ phase' = "inspect" /\ keyFile = Empty /\ keyFile' = key /\ Nothing
        /\ UNCHANGED <<chain, open, configFile, active, service, faults, consent, discarded, gaveUp>>
        /\ UNCHANGED <<args, key, fresh, delta, waits>> /\ key \in Keepers
    BY DEF WriteKeyFile, At, Enter, history, admin, IInv, KeysOK, RunOK
  <1>2. phase' \in Phases
    BY <1>1 DEF Phases
  <1>3. \A k \in Keepers : k \in Held => k \in Held'
    BY <1>1 DEF Held
  <1>4. TypeOK' /\ QueueOK' /\ VaultOK' /\ ConfigCoversVault'
    BY <1>1, <1>2, <1>3, KeyFileStep DEF Nothing, IInv, TypeOK
  <1>5. RunOK' /\ KeysOK' /\ PlaceOK'
    BY <1>1 DEF IInv, RunOK, KeysOK, PlaceOK, Later, Held
  <1>6. ServiceOK'
    <2>1. \A k \in Keepers : <<"write", k>> \in Puts
      BY DEF Puts
    <2> QED
      BY <1>1, <2>1 DEF ServiceOK, Nothing
  <1> QED
    BY <1>4, <1>5, <1>6 DEF IInv

\* The run deploys the vault, or compares the one there is.
LEMMA DeployOrReuseInv == ASSUME IInv, DeployOrReuse PROVE IInv'
  <1>1. /\ At("inspect") /\ phase = "inspect" /\ "inspect" \in Later
        /\ UNCHANGED <<chain, keyFile, configFile, admin, faults, discarded, gaveUp>>
    BY DEF DeployOrReuse, At, Later
  <1>2. CASE /\ Send("owner", "deploy", 0, "balance") /\ fresh' = TRUE /\ UNCHANGED delta
             /\ consent' = TRUE
    <2>1. /\ "deploy" \in Kinds /\ "balance" \in Later /\ "owner" \in Accounts
          /\ phase \in Later \ {"done"} /\ delta' \in Nat
      BY <1>1, <1>2 DEF Kinds, Later, Accounts, IInv, TypeOK
    <2> QED
      BY <1>1, <1>2, <2>1, SendStep
  <1>3. CASE /\ deployed /\ Matches /\ Enter("balance") /\ UNCHANGED <<open, consent>>
    <2>1. "balance" \in Later /\ Settled /\ UNCHANGED history
      BY <1>1, <1>3 DEF Later, Settled, history
    <2> QED
      BY <1>1, <1>3, <2>1, EnterStep
  <1>4. CASE Ended /\ UNCHANGED <<open, consent>>
    BY <1>1, <1>4, EndStep DEF IInv, TypeOK
  <1> QED
    BY <1>2, <1>3, <1>4 DEF DeployOrReuse

\* A run at a later step either goes on, or sends what the owner pays or grants, or ends.
LEMMA LaterStep ==
    ASSUME IInv, NEW p \in Later \ {"inspect", "done"}, At(p), NEW q \in Later,
           UNCHANGED <<chain, keyFile, configFile, admin, faults, history>>,
           \/ Enter(q) /\ UNCHANGED open
           \/ /\ \E kind \in {"approve", "deposit", "unpause", "fund"}, amount \in Nat :
                   Send("owner", kind, amount, q) /\ (kind = "unpause" => consent)
              /\ UNCHANGED fresh /\ delta' \in Nat
           \/ Ended /\ UNCHANGED open
    PROVE  IInv'
  <1>1. /\ phase \in Later \ {"done"} /\ Settled
        /\ UNCHANGED <<consent, discarded, gaveUp>>
    BY AtSettled DEF At, history
  <1>2. CASE Enter(q) /\ UNCHANGED open
    BY <1>1, <1>2, EnterStep
  <1>3. ASSUME NEW kind \in {"approve", "deposit", "unpause", "fund"}, NEW amount \in Nat,
               Send("owner", kind, amount, q), kind = "unpause" => consent,
               UNCHANGED fresh, delta' \in Nat
        PROVE  IInv'
    <2>1. kind \in Kinds /\ "owner" \in Accounts
      BY DEF Kinds, Accounts
    <2>2. /\ fresh' \in BOOLEAN /\ consent' \in BOOLEAN /\ (fresh' => consent')
          /\ (consent => consent') /\ (kind = "unpause" => consent')
      BY <1>1, <1>3 DEF IInv, TypeOK, RunOK
    <2> QED
      BY <1>1, <1>3, <2>1, <2>2, SendStep
  <1>4. CASE Ended /\ UNCHANGED open
    BY <1>1, <1>4, EndStep DEF IInv, TypeOK
  <1> QED
    BY <1>2, <1>3, <1>4

\* The script's transactions between deployment and configuration.
LEMMA FundingInv ==
    ASSUME IInv, ApproveMissing \/ DepositMissing \/ UnpauseVault PROVE IInv'
  <1>1. UNCHANGED <<chain, keyFile, configFile, admin, faults, history>>
    BY DEF ApproveMissing, DepositMissing, UnpauseVault
  <1>2. /\ {"balance", "deposit", "status"} \subseteq Later \ {"inspect", "done"}
        /\ "config" \in Later
    BY DEF Later
  <1>3. delta \in Nat /\ phase # "idle" => args \in Command
    BY DEF IInv, TypeOK, RunOK
  <1>4. CASE ApproveMissing
    <2> DEFINE missing == args.deposit - balance["src"]
    <2>1. At("balance") /\ args \in Command
      BY <1>4, <1>3 DEF ApproveMissing, At, IInv, RunOK
    <2>2. args.deposit \in Nat /\ balance["src"] \in Nat
      BY <2>1, CommandFields DEF IInv, TypeOK, Vault!TypeOK, Vault!Tokens
    <2>3. \/ missing \in Nat /\ Send("owner", "approve", missing, "deposit")
             /\ delta' = missing /\ UNCHANGED fresh
          \/ Enter("status") /\ UNCHANGED open
      BY <1>4, <2>2 DEF ApproveMissing
    <2> HIDE DEF missing
    <2>4. CASE Enter("status") /\ UNCHANGED open
      BY <1>1, <1>2, <2>1, <2>4, LaterStep
    <2>5. CASE missing \in Nat /\ Send("owner", "approve", missing, "deposit")
               /\ delta' = missing /\ UNCHANGED fresh
      BY <1>1, <1>2, <2>1, <2>5, LaterStep
    <2> QED
      BY <2>3, <2>4, <2>5
  <1>5. CASE DepositMissing
    <2>1. /\ At("deposit") /\ Send("owner", "deposit", delta, "status")
          /\ UNCHANGED <<fresh, delta>> /\ delta \in Nat
      BY <1>5 DEF DepositMissing, IInv, TypeOK
    <2> QED
      BY <1>1, <1>2, <2>1, LaterStep
  <1>6. CASE UnpauseVault
    <2>1. At("status") /\ delta \in Nat
      BY <1>6 DEF UnpauseVault, IInv, TypeOK
    <2>2. CASE Enter("config") /\ UNCHANGED open
      BY <1>1, <1>2, <2>1, <2>2, LaterStep
    <2>3. CASE Ended /\ UNCHANGED open
      BY <1>1, <1>2, <2>1, <2>3, LaterStep
    <2>4. CASE /\ fresh \/ args.unpause
               /\ Send("owner", "unpause", 0, "config") /\ UNCHANGED <<fresh, delta>>
      <3>1. consent
        BY <2>1, <2>4 DEF At, IInv, RunOK
      <3> QED
        BY <1>1, <1>2, <2>1, <2>4, <3>1, LaterStep
    <2> QED
      BY <1>6, <2>2, <2>3, <2>4 DEF UnpauseVault
  <1> QED
    BY <1>4, <1>5, <1>6

\* A target that is reached needs nothing.
LEMMA TopUpType ==
    ASSUME NEW cost \in Costs, args \in Command, funds[key] \in Nat
    PROVE  TopUp(cost) \in Nat
  <1>1. args.floor \in Nat /\ cost \in Nat
    BY CommandFields
  <1> QED
    BY <1>1 DEF TopUp

\* The run raises the keeper's account.
LEMMA FundKeeperInv == ASSUME IInv, FundKeeper PROVE IInv'
  <1>1. /\ At("plan") /\ UNCHANGED <<chain, keyFile, configFile, admin, faults, history>>
        /\ "plan" \in Later \ {"inspect", "done"} /\ "swap" \in Later
        /\ args \in Command /\ funds[key] \in Nat /\ delta \in Nat
    BY DEF FundKeeper, At, Later, IInv, RunOK, TypeOK
  <1>2. CASE Ended /\ UNCHANGED open
    BY <1>1, <1>2, LaterStep
  <1>3. CASE Enter("swap") /\ UNCHANGED open
    BY <1>1, <1>3, LaterStep
  <1>4. ASSUME NEW cost \in Costs, Send("owner", "fund", TopUp(cost), "swap"),
               UNCHANGED <<fresh, delta>>
        PROVE  IInv'
    <2>1. TopUp(cost) \in Nat
      BY <1>1, TopUpType
    <2> QED
      BY <1>1, <1>4, <2>1, LaterStep
  <1> QED
    BY <1>2, <1>3, <1>4 DEF FundKeeper

\* The run writes a configuration for the vault it works on.
LEMMA WriteConfigInv == ASSUME IInv, WriteConfig PROVE IInv'
  <1> DEFINE c == [keeper |-> key, limits |-> args.limits, execute |-> FALSE]
  <1>1. /\ At("config") /\ phase = "config" /\ phase' = "plan" /\ configFile' = c
        /\ UNCHANGED <<args, key, fresh, delta, waits, consent, discarded, gaveUp, faults>>
        /\ UNCHANGED <<chain, open, keyFile, active, service>>
    BY DEF WriteConfig, At, Enter, history, admin
  <1>2. /\ Settled /\ args \in Command /\ key \in Keepers /\ key \in Held /\ keyFile # Absent
    <2>1. "config" \in Later \ {"inspect"}
      BY DEF Later
    <2> QED
      BY <1>1, <2>1, AtSettled DEF IInv, RunOK, KeysOK
  <1>3. c \in Config /\ c # None /\ ~c.execute /\ c.keeper = key /\ c.limits = limits
    <2>1. c \in Config
      BY <1>2, CommandFields DEF Config
    <2>2. args.limits = limits
      BY <1>2 DEF Settled, Matches
    <2> QED
      BY <2>1, <2>2
  <1> HIDE DEF c
  <1>4. UNCHANGED <<vault, deployed, allowance, funds, keeper, limits, paused>>
    BY <1>1 DEF chain, vault
  <1>5. TypeOK'
    <2>1. phase' \in Phases
      BY <1>1 DEF Phases
    <2>2. Vault!TypeOK'
      BY <1>4, VaultUnchanged DEF IInv, TypeOK
    <2> QED
      BY <1>1, <1>3, <1>4, <2>1, <2>2 DEF IInv, TypeOK
  <1>6. RunOK' /\ KeysOK'
    BY <1>1, <1>2 DEF IInv, RunOK, KeysOK, Held, Later
  <1>7. QueueOK' /\ VaultOK'
    BY <1>1, <1>4 DEF IInv, QueueOK, VaultOK, Held
  <1>8. PlaceOK'
    BY <1>1, <1>2, <1>4 DEF PlaceOK, Settled, Matches
  <1>9. ServiceOK'
    BY <1>1, <1>3 DEF IInv, ServiceOK
  <1>10. ConfigCoversVault'
    <2>1. /\ limits.trade \in Nat /\ limits.cap \in Nat /\ limits.slippage \in Nat
          /\ limits.cooldown \in Nat
      BY LimitsAreNumbers DEF IInv, TypeOK, Vault!TypeOK
    <2>2. /\ deployed
          /\ limits.trade <= c.limits.trade /\ limits.cap <= c.limits.cap
          /\ limits.slippage <= c.limits.slippage /\ c.limits.cooldown <= limits.cooldown
          /\ c.keeper \in {keyFile} \cup discarded
      BY <1>2, <1>3, <2>1 DEF Settled, Held
    <2> QED
      BY <1>1, <1>3, <1>4, <2>2 DEF IInv, ConfigCoversVault
  <1> QED
    BY <1>5, <1>6, <1>7, <1>8, <1>9, <1>10 DEF IInv

\* The run trades with the key that is in the file by then, or reports.
LEMMA ExerciseInv == ASSUME IInv, Exercise PROVE IInv'
  <1>1. /\ At("swap") /\ phase = "swap" /\ waits = None
        /\ UNCHANGED <<chain, keyFile, configFile, admin, faults, history>>
        /\ {"swap", "done"} \subseteq Later /\ "swap" \in Later \ {"inspect", "done"}
    BY DEF Exercise, At, Later
  <1>2. CASE Ended /\ UNCHANGED open
    BY <1>1, <1>2, LaterStep
  <1>3. CASE Enter("done") /\ UNCHANGED open
    BY <1>1, <1>3, LaterStep
  <1>4. CASE /\ keyFile \in Keepers
             /\ open' = [open EXCEPT !["keeper"] =
                           Append(@, [kind |-> "swap", key |-> keyFile, limits |-> args.limits,
                                      amount |-> args.exercise])]
             /\ phase' = "done" /\ waits' = "keeper" /\ UNCHANGED <<args, key, fresh, delta>>
    <2> DEFINE t == [kind |-> "swap", key |-> keyFile, limits |-> args.limits,
                     amount |-> args.exercise]
    <2>1. args \in Command
      BY <1>1 DEF IInv, RunOK
    <2>2. Sound("keeper", t, Held', consent') /\ "keeper" \in Accounts
      <3>1. t \in Tx /\ t.kind = "swap" /\ t.amount \in Amounts
        BY <1>4, <2>1, CommandFields DEF Tx, Kinds
      <3> HIDE DEF t
      <3> QED
        BY <3>1 DEF Sound, Accounts
    <2> HIDE DEF t
    <2>3. open' \in [Accounts -> Seq(Tx)] /\ QueueOK'
      <3>1. open' = [open EXCEPT !["keeper"] = Append(@, t)]
        BY <1>4 DEF t
      <3>2. /\ open \in [Accounts -> Seq(Tx)] /\ QueueOK /\ consent \in BOOLEAN
            /\ consent' = consent /\ UNCHANGED <<keyFile, discarded>>
        BY <1>1 DEF IInv, TypeOK, history
      <3> QED
        BY <2>2, <3>1, <3>2, AppendSound
    <2>4. VaultOK' /\ ServiceOK' /\ ConfigCoversVault'
      BY <1>1, ScriptFrame DEF history
    <2>5. RunOK' /\ KeysOK'
      BY <1>1, <1>4 DEF IInv, RunOK, KeysOK, Held, Later, history
    <2>6. PlaceOK'
      <3>1. Settled /\ UNCHANGED <<keeper, limits, deployed>>
        BY <1>1, AtSettled DEF chain, vault
      <3> QED
        BY <1>4, <3>1 DEF PlaceOK, Settled, Matches
    <2>7. TypeOK'
      <3>1. phase' \in Phases /\ waits' \in Accounts \cup {None}
        BY <1>4, <2>2 DEF Phases, Accounts
      <3> QED
        BY <1>1, <1>4, <2>3, <3>1, ScriptTypes DEF IInv, TypeOK, history
    <2> QED
      BY <2>3, <2>4, <2>5, <2>6, <2>7 DEF IInv
  <1> QED
    BY <1>2, <1>3, <1>4 DEF Exercise

\* The run ends after its report, or at any step when something fails.
LEMMA EndsInv == ASSUME IInv, Report \/ Stop PROVE IInv'
  <1>1. Ended /\ UNCHANGED <<chain, open, keyFile, configFile, admin, consent, discarded>>
    BY DEF Report, Stop, history
  <1>2. faults' \in Nat /\ gaveUp' \in BOOLEAN
    <2>1. CASE Report
      BY <2>1 DEF Report, history, IInv, TypeOK
    <2>2. CASE Stop
      <3>1. faults' \in Nat
        BY <2>2 DEF Stop, IInv, TypeOK
      <3>2. gaveUp' = (gaveUp \/ waits # None)
        BY <2>2 DEF Stop
      <3>3. gaveUp' \in BOOLEAN
        BY <3>2
      <3> QED
        BY <3>1, <3>3
    <2> QED
      BY <2>1, <2>2
  <1> QED
    BY <1>1, <1>2, EndStep

-----------------------------------------------------------------------------
(* The owner and the service *)

\* The owner changes the vault: it stays paused until there is consent again.
LEMMA OwnerStep ==
    ASSUME IInv, phase = "idle", open["owner"] = <<>>, deployed, Vault!TypeOK', paused',
           keeper' \in Held, consent' = FALSE,
           limits'.trade <= limits.trade, limits'.cap <= limits.cap,
           limits'.slippage <= limits.slippage, limits.cooldown <= limits'.cooldown,
           UNCHANGED <<deployed, allowance, funds, open, keyFile, configFile, admin, locals, faults,
                       discarded, gaveUp>>
    PROVE  IInv'
  <1>1. UNCHANGED <<active, service, phase, args, key, fresh, delta, waits>>
    BY DEF admin, locals
  <1>2. TypeOK'
    BY <1>1 DEF IInv, TypeOK
  <1>3. RunOK' /\ KeysOK' /\ PlaceOK'
    BY <1>1 DEF IInv, RunOK, KeysOK, Nothing, PlaceOK, Held, Later
  <1>4. QueueOK'
    <2>1. ASSUME NEW s \in Accounts, NEW i \in 1..Len(open[s])
          PROVE  Sound(s, open[s][i], Held', consent')
      <3>1. Sound(s, open[s][i], Held, consent)
        BY <2>1 DEF IInv, QueueOK
      <3>2. s # "owner"
        BY <2>1
      <3> QED
        BY <3>1, <3>2 DEF Sound, Held
    <2> QED
      BY <2>1 DEF QueueOK
  <1>5. VaultOK' /\ ServiceOK'
    BY <1>1 DEF IInv, VaultOK, ServiceOK, Held
  <1>6. ConfigCoversVault'
    <2>1. /\ limits \in Vault!Limits /\ limits' \in Vault!Limits
      BY DEF IInv, TypeOK, Vault!TypeOK
    <2>2. ASSUME NEW c \in {configFile, active} \ {None}
          PROVE  /\ limits'.trade <= c.limits.trade /\ limits'.cap <= c.limits.cap
                 /\ limits'.slippage <= c.limits.slippage
                 /\ c.limits.cooldown <= limits'.cooldown
      <3>1. c.limits \in Vault!Limits
        BY <2>2 DEF IInv, TypeOK, Config
      <3>2. /\ limits.trade <= c.limits.trade /\ limits.cap <= c.limits.cap
            /\ limits.slippage <= c.limits.slippage /\ c.limits.cooldown <= limits.cooldown
        BY <2>2 DEF IInv, ConfigCoversVault
      <3>3. /\ limits.trade \in Nat /\ limits.cap \in Nat /\ limits.slippage \in Nat
            /\ limits.cooldown \in Nat
        BY <2>1, LimitsAreNumbers
      <3>4. /\ limits'.trade \in Nat /\ limits'.cap \in Nat /\ limits'.slippage \in Nat
            /\ limits'.cooldown \in Nat
        BY <2>1, LimitsAreNumbers
      <3>5. /\ c.limits.trade \in Nat /\ c.limits.cap \in Nat /\ c.limits.slippage \in Nat
            /\ c.limits.cooldown \in Nat
        BY <3>1, LimitsAreNumbers
      <3> HIDE DEF IInv
      <3>6. limits'.trade <= c.limits.trade /\ limits'.cap <= c.limits.cap
        BY <3>2, <3>3, <3>4, <3>5
      <3>7. /\ limits'.slippage <= c.limits.slippage /\ c.limits.cooldown <= limits'.cooldown
        BY <3>2, <3>3, <3>4, <3>5
      <3> QED
        BY <3>6, <3>7
    <2> QED
      BY <1>1, <2>2 DEF IInv, ConfigCoversVault
  <1> QED
    BY <1>2, <1>3, <1>4, <1>5, <1>6 DEF IInv

\* What the owner does by hand preserves the invariant.
LEMMA OwnerInv == ASSUME IInv, OwnerActs PROVE IInv'
  <1>1. /\ phase = "idle" /\ deployed /\ open["owner"] = <<>>
        /\ UNCHANGED <<deployed, allowance, funds, open, keyFile, configFile, admin, locals, faults,
                       discarded, gaveUp>>
    BY DEF OwnerActs, OwnerPauses, OwnerSetsKeeper, OwnerTightens, OwnerWithdraws, ByHand, history
  <1>2. /\ limits.trade \in Nat /\ limits.cap \in Nat /\ limits.slippage \in Nat
        /\ limits.cooldown \in Nat
    BY LimitsAreNumbers DEF IInv, TypeOK, Vault!TypeOK
  <1>3. Vault!TypeOK /\ keeper \in Held
    BY <1>1 DEF IInv, TypeOK, VaultOK
  <1>4. CASE OwnerPauses
    <2>1. Vault!TypeOK'
      BY <1>4, <1>3, OwnerTypes DEF OwnerPauses
    <2>2. paused' /\ UNCHANGED <<keeper, limits>> /\ consent' = FALSE
      BY <1>4 DEF OwnerPauses, Vault!SetPaused
    <2>3. /\ limits'.trade <= limits.trade /\ limits'.cap <= limits.cap
          /\ limits'.slippage <= limits.slippage /\ limits.cooldown <= limits'.cooldown
      BY <1>2, <2>2
    <2> QED
      BY <1>1, <1>3, <2>1, <2>2, <2>3, OwnerStep
  <1>5. CASE OwnerSetsKeeper
    <2>1. Vault!TypeOK'
      BY <1>5, <1>3, OwnerTypes DEF OwnerSetsKeeper
    <2>2. paused' /\ keeper' = keyFile /\ UNCHANGED limits /\ consent' = FALSE
      BY <1>5 DEF OwnerSetsKeeper, Vault!SetKeeper
    <2>3. keeper' \in Held
      BY <2>2 DEF Held
    <2>4. /\ limits'.trade <= limits.trade /\ limits'.cap <= limits.cap
          /\ limits'.slippage <= limits.slippage /\ limits.cooldown <= limits'.cooldown
      BY <1>2, <2>2
    <2> QED
      BY <1>1, <2>1, <2>2, <2>3, <2>4, OwnerStep
  <1>6. CASE OwnerTightens
    <2>1. PICK new \in Envelopes : Vault!TightenLimits(Owner, new)
      BY <1>6 DEF OwnerTightens
    <2>2. Vault!TypeOK'
      BY <2>1, <1>3, OwnerTypes
    <2>3. /\ paused' /\ keeper' = keeper
          /\ limits'.trade <= limits.trade /\ limits'.cap <= limits.cap
          /\ limits'.slippage <= limits.slippage /\ limits.cooldown <= limits'.cooldown
      BY <2>1 DEF Vault!TightenLimits
    <2>4. consent' = FALSE
      BY <1>6 DEF OwnerTightens
    <2> QED
      BY <1>1, <1>3, <2>2, <2>3, <2>4, OwnerStep
  <1>7. CASE OwnerWithdraws
    <2>1. Vault!TypeOK'
      BY <1>7, <1>3, OwnerTypes DEF OwnerWithdraws
    <2>2. UNCHANGED <<keeper, limits, paused, consent, active, service, phase, args, key, fresh,
                      delta, waits>>
      BY <1>7, <1>1 DEF OwnerWithdraws, Vault!Withdraw, Vault!contract, history, admin, locals
    <2>3. TypeOK'
      BY <1>1, <2>1, <2>2 DEF IInv, TypeOK
    <2>4. RunOK' /\ KeysOK' /\ PlaceOK'
      BY <1>1, <2>2 DEF IInv, RunOK, KeysOK, Nothing, PlaceOK, Held, Later
    <2>5. QueueOK' /\ VaultOK' /\ ServiceOK' /\ ConfigCoversVault'
      BY <1>1, <2>2 DEF IInv, QueueOK, VaultOK, ServiceOK, ConfigCoversVault, Held
    <2> QED
      BY <2>3, <2>4, <2>5 DEF IInv
  <1> QED
    BY <1>4, <1>5, <1>6, <1>7 DEF OwnerActs

\* A configuration of the service that differs from one before in execution only.
LEMMA PublishStep ==
    ASSUME IInv, NEW c \in Config,
           UNCHANGED <<chain, open, keyFile, locals, faults, history>>,
           active' = c, configFile' \in {c, configFile}, configFile # None,
           service' \in {None} \cup Puts,
           service' # None => ~c.execute /\ configFile' = c,
           \A k \in Keepers : service' = <<"write", k>> => keyFile = Empty,
           \E d \in {configFile, active} \ {None} : c.keeper = d.keeper /\ c.limits = d.limits,
           c.execute => keyFile = c.keeper
    PROVE  IInv'
  <1>1. UNCHANGED <<vault, deployed, allowance, funds, keeper, limits, paused, phase, args, key,
                    fresh, delta, waits, consent, discarded, gaveUp>>
    BY DEF chain, vault, locals, history
  <1>2. TypeOK'
    <2>1. Vault!TypeOK'
      BY <1>1, VaultUnchanged DEF IInv, TypeOK
    <2> QED
      BY <1>1, <2>1 DEF IInv, TypeOK
  <1>3. RunOK' /\ PlaceOK' /\ QueueOK' /\ VaultOK'
    BY <1>1 DEF IInv, RunOK, PlaceOK, Settled, Deploying, Matches, QueueOK, VaultOK, Held
  <1>4. keyFile # Absent /\ phase # "write"
    BY DEF IInv, KeysOK, Nothing
  <1>5. KeysOK'
    BY <1>1, <1>4 DEF IInv, KeysOK, Held
  <1>6. c # None
    OBVIOUS
  <1>7. ServiceOK'
    BY <1>6 DEF ServiceOK
  <1>8. ConfigCoversVault'
    <2>1. ASSUME NEW d \in {configFile, active} \ {None}
          PROVE  /\ deployed
                 /\ limits.trade <= d.limits.trade /\ limits.cap <= d.limits.cap
                 /\ limits.slippage <= d.limits.slippage
                 /\ d.limits.cooldown <= limits.cooldown
                 /\ d.keeper \in {keyFile} \cup discarded
                 /\ d.execute => keyFile = d.keeper
      BY <2>1 DEF IInv, ConfigCoversVault
    <2>2. /\ deployed
          /\ limits.trade <= c.limits.trade /\ limits.cap <= c.limits.cap
          /\ limits.slippage <= c.limits.slippage
          /\ c.limits.cooldown <= limits.cooldown
          /\ c.keeper \in {keyFile} \cup discarded
      BY <2>1
    <2> HIDE DEF IInv
    <2>3. \A d \in {configFile', active'} \ {None} : d = c \/ d \in {configFile, active} \ {None}
      OBVIOUS
    <2> QED
      BY <1>1, <2>1, <2>2, <2>3 DEF ConfigCoversVault
  <1> QED
    BY <1>2, <1>3, <1>5, <1>7, <1>8 DEF IInv

\* The service starts, or writes a configuration.
LEMMA ServiceInv ==
    ASSUME IInv, ServiceStarts \/ Enable \/ (\E k \in Keepers : PutKey(k))
    PROVE  IInv'
  <1>1. UNCHANGED <<chain, open, keyFile, locals, faults, history>>
    BY DEF ServiceStarts, Enable, PutKey
  <1>2. \A k \in Keepers : <<"write", k>> \in Puts /\ <<"truncate", k>> \in Puts
    BY DEF Puts
  <1>3. CASE ServiceStarts
    <2>1. configFile # None /\ active' = configFile /\ configFile' = configFile /\ service' = None
      BY <1>3 DEF ServiceStarts
    <2>2. configFile \in Config /\ (configFile.execute => keyFile = configFile.keeper)
      BY <2>1 DEF IInv, TypeOK, ConfigCoversVault
    <2> QED
      BY <1>1, <1>2, <2>1, <2>2, PublishStep
  <1>4. CASE Enable
    <2> DEFINE c == [active EXCEPT !.execute = TRUE]
    <2>1. /\ active # None /\ service' = None /\ keyFile = active.keeper
          /\ active' = c /\ configFile' = c
      BY <1>4 DEF Enable, Publish
    <2>2. active \in Config
      BY <2>1 DEF IInv, TypeOK
    <2>3. c \in Config /\ c.keeper = active.keeper /\ c.limits = active.limits
      BY <2>2 DEF Config
    <2>4. configFile # None
      BY <2>1 DEF IInv, ServiceOK
    <2> HIDE DEF c
    <2> QED
      BY <1>1, <1>2, <2>1, <2>2, <2>3, <2>4, PublishStep
  <1>5. ASSUME NEW k \in Keepers, PutKey(k) PROVE IInv'
    <2> DEFINE c == [active EXCEPT !.execute = FALSE]
    <2>1. /\ active # None /\ service' = <<"truncate", k>> /\ active' = c /\ configFile' = c
      BY <1>5 DEF PutKey, Publish
    <2>2. active \in Config
      BY <2>1 DEF IInv, TypeOK
    <2>3. c \in Config /\ ~c.execute /\ c.keeper = active.keeper /\ c.limits = active.limits
      BY <2>2 DEF Config
    <2>4. configFile # None
      BY <2>1 DEF IInv, ServiceOK
    <2>5. \A j \in Keepers : service' # <<"write", j>>
      BY <2>1
    <2> HIDE DEF c
    <2> QED
      BY <1>1, <1>2, <2>1, <2>2, <2>3, <2>4, <2>5, PublishStep
  <1> QED
    BY <1>3, <1>4, <1>5

\* The service overwrites the key file.
LEMMA RotationInv ==
    ASSUME IInv, NEW k \in Keepers, TruncateKey(k) \/ RewriteKey(k)
    PROVE  IInv'
  <1>1. /\ UNCHANGED <<chain, open, configFile, active, faults, consent, gaveUp>>
        /\ UNCHANGED <<phase, args, key, fresh, delta, waits>>
        /\ service \in Puts /\ service # None
    BY DEF TruncateKey, RewriteKey, locals, history, Puts
  <1>2. /\ active # None /\ configFile # None /\ ~active.execute /\ ~configFile.execute
    BY <1>1 DEF IInv, ServiceOK
  <1>3. /\ keyFile # Absent /\ phase # "write" /\ phase # "create"
    BY <1>1 DEF IInv, KeysOK, Nothing
  <1>4. /\ keyFile' \in Keepers \cup {Empty} /\ keyFile' # Absent
        /\ discarded' \subseteq Keepers /\ service' \in {None} \cup Puts
        /\ \A j \in Keepers : j \in Held => j \in Held'
        /\ \A j \in Keepers : service' # None /\ service' = <<"write", j>> => keyFile' = Empty
    <2>1. CASE TruncateKey(k)
      <3>1. /\ keyFile' = Empty /\ service' = <<"write", k>>
            /\ discarded' = discarded \cup ({keyFile} \cap Keepers)
        BY <2>1 DEF TruncateKey
      <3>2. service' \in Puts /\ discarded \subseteq Keepers
        BY <3>1 DEF Puts, IInv, TypeOK
      <3>3. keyFile' # Absent
        BY <3>1 DEF Empty, Absent
      <3>4. \A j \in Keepers : j \in Held => j \in Held'
        BY <3>1 DEF Held
      <3>5. discarded' \subseteq Keepers
        BY <3>1, <3>2
      <3> QED
        BY <3>1, <3>2, <3>3, <3>4, <3>5
    <2>2. CASE RewriteKey(k)
      <3>1. keyFile = Empty /\ keyFile' = k /\ service' = None /\ discarded' = discarded
        BY <2>2 DEF RewriteKey, history, IInv, ServiceOK
      <3> QED
        BY <3>1 DEF Held, IInv, TypeOK
    <2> QED
      BY <2>1, <2>2
  <1>5. phase' \in Phases
    BY <1>1 DEF IInv, TypeOK
  <1>6. TypeOK' /\ QueueOK' /\ VaultOK' /\ ConfigCoversVault'
    BY <1>1, <1>2, <1>4, <1>5, KeyFileStep
  <1>7. RunOK' /\ PlaceOK'
    <2>1. UNCHANGED <<keeper, limits, deployed>>
      BY <1>1 DEF chain, vault
    <2> QED
      BY <1>1, <2>1 DEF IInv, RunOK, PlaceOK, Settled, Deploying, Matches
  <1>8. KeysOK'
    BY <1>1, <1>3, <1>4 DEF IInv, KeysOK, RunOK, Later
  <1>9. ServiceOK'
    <2>1. \A j \in Keepers : <<"write", j>> # None
      BY DEF Puts
    <2> QED
      BY <1>1, <1>2, <1>4, <2>1 DEF ServiceOK
  <1> QED
    BY <1>6, <1>7, <1>8, <1>9 DEF IInv

\* A trade of the service.
LEMMA ServiceTradesInv == ASSUME IInv, ServiceTrades PROVE IInv'
  <1>1. PICK a \in Amounts : keyFile \in Keepers /\ Trade(keyFile, a)
    BY DEF ServiceTrades
  <1>2. /\ UNCHANGED <<open, keyFile, configFile, active, service, phase, args, key, fresh, delta,
                       waits, faults, consent, discarded, gaveUp>>
    BY DEF ServiceTrades, admin, locals, history
  <1>3. UNCHANGED <<keeper, limits, paused, deployed, allowance>>
    BY <1>1 DEF Trade, Vault!ExecuteSwap, Vault!Accepts, Vault!Exchange, Vault!contract
  <1>4. TypeOK'
    <2>1. Vault!TypeOK' /\ funds' \in [Keepers -> Nat]
      BY <1>1, TradeTypes DEF IInv, TypeOK
    <2> QED
      BY <1>2, <1>3, <2>1 DEF IInv, TypeOK
  <1>5. RunOK' /\ KeysOK' /\ PlaceOK'
    BY <1>2, <1>3 DEF IInv, RunOK, KeysOK, Nothing, PlaceOK, Settled, Deploying, Matches, Held
  <1>6. QueueOK' /\ VaultOK' /\ ServiceOK' /\ ConfigCoversVault'
    BY <1>2, <1>3 DEF IInv, QueueOK, VaultOK, ServiceOK, ConfigCoversVault, Held
  <1> QED
    BY <1>4, <1>5, <1>6 DEF IInv

-----------------------------------------------------------------------------
(* The theorems *)

\* Every step preserves the invariant.
LEMMA StepInv == IInv /\ [Next]_vars => IInv'
  <1> SUFFICES ASSUME IInv, [Next]_vars PROVE IInv'
    OBVIOUS
  <1>1. CASE Chain
    BY <1>1, ExecutedInv, RefusedInv DEF Chain
  <1>2. CASE Script
    BY <1>2, KeeperWalletInv, CreateInv, WriteInv, DeployOrReuseInv, FundingInv, WriteConfigInv,
       FundKeeperInv, ExerciseInv, EndsInv DEF Script
  <1>3. CASE Stop
    BY <1>3, EndsInv
  <1>4. CASE \E a \in Commands : Start(a)
    BY <1>4, StartInv
  <1>5. CASE OwnerActs
    BY <1>5, OwnerInv
  <1>6. CASE Service
    BY <1>6, ServiceInv, ServiceTradesInv, RotationInv DEF Service
  <1>7. CASE UNCHANGED vars
    <2>1. UNCHANGED <<vault, deployed, allowance, funds, keeper, limits, paused, open, keyFile,
                      configFile, active, service, phase, args, key, fresh, delta, waits, faults,
                      consent, discarded, gaveUp>>
      BY <1>7 DEF vars, chain, vault, admin, locals, history
    <2>2. TypeOK'
      BY <2>1, VaultUnchanged DEF IInv, TypeOK
    <2>3. RunOK' /\ KeysOK' /\ PlaceOK'
      BY <2>1 DEF IInv, RunOK, KeysOK, Nothing, PlaceOK, Settled, Deploying, Matches, Held
    <2>4. QueueOK' /\ VaultOK' /\ ServiceOK' /\ ConfigCoversVault'
      BY <2>1 DEF IInv, QueueOK, VaultOK, ServiceOK, ConfigCoversVault, Held
    <2> QED
      BY <2>2, <2>3, <2>4 DEF IInv
  <1> QED
    BY <1>1, <1>2, <1>3, <1>4, <1>5, <1>6, <1>7 DEF Next

\* The inductive invariant holds in every reachable state.
THEOREM BootstrapInvariance == Spec => []IInv
  BY InitInv, StepInv, PTL DEF Spec

\* Everything keeps its type, the vault's variables included.
THEOREM BootstrapTypes == Spec => []TypeOK
  <1>1. IInv => TypeOK
    BY DEF IInv
  <1> QED
    BY <1>1, BootstrapInvariance, PTL

\* The key of the vault's keeper is never lost by a crash or a rerun.
THEOREM KeeperKeyIsHeld == Spec => []KeeperKeyHeld
  <1>1. IInv => KeeperKeyHeld
    BY DEF IInv, VaultOK, Held, KeeperKeyHeld
  <1> QED
    BY <1>1, BootstrapInvariance, PTL

\* No rerun and no late transaction unpauses a vault without the owner's consent.
THEOREM UnpausedOnlyByConsent == Spec => []UnpausedByConsent
  <1>1. IInv => UnpausedByConsent
    BY DEF IInv, VaultOK, UnpausedByConsent
  <1> QED
    BY <1>1, BootstrapInvariance, PTL

\* Every configuration allows what its vault allows, and trades only with its key.
THEOREM ConfigAlwaysCoversVault == Spec => []ConfigCoversVault
  <1>1. IInv => ConfigCoversVault
    BY DEF IInv
  <1> QED
    BY <1>1, BootstrapInvariance, PTL
=============================================================================
